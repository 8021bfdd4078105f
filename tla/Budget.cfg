CONSTANTS
  MaxCost = 3
  MaxWall = 5
  MinTimeout = 2
  Requested = 4
  MaxIterations = 3
  TurnCost = 2
  TurnTime = 2
  Spawns = 1
  Resumes = 1
SPECIFICATION FairSpec
INVARIANT CapsHold
PROPERTIES CallsEnd
CHECK_DEADLOCK FALSE
