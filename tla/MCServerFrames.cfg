\* Both profiles and containers of the application: three frames, one set per packet.
CONSTANTS
  Profiles = {"cur", "obj"}
  Positions = {1, 2}
  MaxSpeed = 1
  SetsPerBundle = 1
  TicksPerSecond = 1
  ExternalProfiles = {"cur", "obj"}
  ExternalIDs = {1}
  MaxSession = 1
  MaxFrame = 2
  MaxTime = 1
SPECIFICATION FramesSpec
INVARIANT TypeOK
INVARIANT SessionsUnique
INVARIANT OnlyNewsUntold
INVARIANT CommitTellsAll
CHECK_DEADLOCK FALSE
