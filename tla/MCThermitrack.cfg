\* Two points, two addresses for cursors, two sticky ones.
CONSTANTS
  Points = {p, q}
  Cursors = {c1, c2}
  MaxSticky = 2
  MaxFree = 3
SYMMETRY Symmetry
SPECIFICATION Spec
INVARIANT TypeOK
INVARIANT CursorAlive
INVARIANT RemovedOnce
INVARIANT OneTouchShown
PROPERTY ForgottenStays
CHECK_DEADLOCK FALSE
