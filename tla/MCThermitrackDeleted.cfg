\* Which cursors are left for points that disappeared.
CONSTANTS
  Points = {p, q}
  Cursors = {c1, c2}
  MaxSticky = 0
  MaxFree = 2
SPECIFICATION Spec
INVARIANT DisappearedRemoved
CHECK_DEADLOCK FALSE
