\* Nothing is lost: cursors only, two packets per frame.
CONSTANTS
  Profiles = {"cur"}
  Positions = {1, 2}
  MaxSpeed = 1
  SetsPerBundle = 1
  TicksPerSecond = 1
  ExternalProfiles = {}
  ExternalIDs = {}
  MaxSession = 1
  MaxFrame = 2
  MaxTime = 1
  LateWindow = 2
  MaxInFlight = 3
  Lossy = FALSE
  Overtaking = FALSE
  MaxStarts = 1
SPECIFICATION SystemSpec
INVARIANT ClientShowsServer
CHECK_DEADLOCK FALSE
