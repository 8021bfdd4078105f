CONSTANTS
  Proc = {p1, p2}
  Free = Free
  Stuck = Stuck
  StepCount = 3
  MaxFaults = 2
SPECIFICATION FairSpec
INVARIANTS RecordIsTrue
PROPERTIES PromiseKeptUnlessStale CompleteAgain

