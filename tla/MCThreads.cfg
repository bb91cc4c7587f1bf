\* Two connections, bundles of three entries, two threads of the server.
CONSTANTS
  Profiles = {"cur", "obj"}
  MaxEntries = 3
  MaxConnects = 2
  Threads = {t1, t2}
SPECIFICATION BothSpec
INVARIANT LocksOwned
INVARIANT LocksExclude
INVARIANT NoDeadlock
PROPERTY BundleEnds
PROPERTY GetterReturns
PROPERTY SendsAgain
PROPERTY Subsides
CHECK_DEADLOCK FALSE
