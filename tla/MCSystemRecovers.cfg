\* Cursors and objects, packets are lost or overtaken by those of the other
\* profile, and the server is started twice.
CONSTANTS
  Profiles = {"cur", "obj"}
  Positions = {1, 2}
  MaxSpeed = 1
  SetsPerBundle = 1
  TicksPerSecond = 1
  ExternalProfiles = {}
  ExternalIDs = {}
  MaxSession = 0
  MaxFrame = 2
  MaxTime = 0
  LateWindow = 2
  MaxInFlight = 2
  Lossy = TRUE
  Overtaking = TRUE
  MaxStarts = 2
SPECIFICATION FairSystemSpec
PROPERTY Converges
PROPERTY OnlyImproves
CHECK_DEADLOCK FALSE
