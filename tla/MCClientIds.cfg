\* Cursor ids: four cursors at one place, two connections.
CONSTANTS
  Profiles = {"cur"}
  Sessions = {1, 2, 3, 4}
  Positions = {0}
  MaxSpeed = 1
  FrameNumbers = {}
  LateWindow = 1
  MaxConnects = 2
SPECIFICATION Spec
INVARIANT TypeOK
INVARIANT CursorIdsConsistent
PROPERTY SlotsKept
CHECK_DEADLOCK FALSE
