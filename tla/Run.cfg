CONSTANTS
  StepCount = 5
  Optional = {4}
  Conditional = {1}
  FanOut = {3}
  Committing = {3, 4}
  Planner = {2}
  Reporter = {5}
  Phase <- MCPhase
  Settings <- MCSettings
  MaxRounds = 1
  MaxSections = 2
  Outcomes = {"error", "question", "defer", "budget", "empty"}
  MaxFaults = 2
SPECIFICATION CalmSpec
INVARIANTS EarlierRecorded AsksBounded ReportsBounded CommitsRecorded GateHolds
PROPERTIES PromiseKept EventuallyDone
CHECK_DEADLOCK FALSE
