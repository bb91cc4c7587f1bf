\* Frames in any order, two cursors that move.
CONSTANTS
  Profiles = {"cur"}
  Sessions = {1, 2}
  Positions = {1, 2}
  MaxSpeed = 1
  FrameNumbers = {1, 2, 4}
  LateWindow = 2
  MaxConnects = 1
SPECIFICATION FairSpec
PROPERTY FramesApplied
PROPERTY FrameEnds
CHECK_DEADLOCK FALSE
