\* What the locks are worth from the return of connect() on.
CONSTANTS
  Profiles = {"cur", "obj"}
  MaxEntries = 1
  MaxConnects = 1
  Threads = {t1}
SPECIFICATION BothSpec
INVARIANT ListsUndisturbed
CHECK_DEADLOCK FALSE
