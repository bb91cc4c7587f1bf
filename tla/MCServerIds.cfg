\* Cursors, objects and objects of the application, added, removed and swept in any order.
CONSTANTS
  Profiles = {"cur", "obj"}
  Positions = {0}
  MaxSpeed = 1
  SetsPerBundle = 2
  TicksPerSecond = 1
  ExternalProfiles = {"obj"}
  ExternalIDs = {0}
  MaxSession = 3
  MaxFrame = 2
  MaxTime = 2
SPECIFICATION ListSpec
INVARIANT CursorIdsConsistent
PROPERTY SlotsKept
CHECK_DEADLOCK FALSE
