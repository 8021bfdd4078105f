CONSTANTS
  p1 = p1
  p2 = p2
  p3 = p3
  r1 = r1
  r2 = r2
  Proc <- MCProc
  RunId <- MCRunId
  NoRun = NoRun
  NoFile = NoFile
SPECIFICATION FairSpec
PROPERTIES MutexSpec HolderNotCalledDead LockComesFree
CHECK_DEADLOCK FALSE
