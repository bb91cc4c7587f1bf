\* Packets are lost; the periodic thread repeats what the server has.
CONSTANTS
  Profiles = {"cur"}
  Positions = {1, 2}
  MaxSpeed = 1
  SetsPerBundle = 1
  TicksPerSecond = 1
  ExternalProfiles = {}
  ExternalIDs = {}
  MaxSession = 1
  MaxFrame = 1
  MaxTime = 1
  LateWindow = 2
  MaxInFlight = 2
  Lossy = TRUE
  Overtaking = FALSE
  MaxStarts = 1
SPECIFICATION FairSystemSpec
PROPERTY NoSessionReturns
PROPERTY Converges
CHECK_DEADLOCK FALSE
