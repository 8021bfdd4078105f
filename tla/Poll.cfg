CONSTANTS
  p1 = p1
  p2 = p2
  Poller <- MCPollers
  ItemCount = 3
  PageSize = 2
  MaxItems = 2
  Settings <- MCSettings
SPECIFICATION FairSpec
INVARIANTS AtMostOneRun
PROPERTIES LocksAreMutexes EveryItemServed
CHECK_DEADLOCK FALSE
