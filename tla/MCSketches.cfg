\* An animation of two frames and three points; four edges, strokes of three points; all words of four symbols.
CONSTANTS
  Positions = {p}
  Frames = 2
  MaxPoints = 3
  MaxFrames = 6
  Places = {p}
  MaxVertices = 3
  MaxEdges = 4
  Rules <- MCRules
  MaxLength = 4
  Instants <- MCInstants
SPECIFICATION SketchesSpec
INVARIANT FrameInRange
INVARIANT LinesAreEdges
INVARIANT FiguresAreExpansions
INVARIANT TimesRight
INVARIANT DtRight
PROPERTY ExitKept
CHECK_DEADLOCK FALSE
