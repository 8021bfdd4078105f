CONSTANTS
  Proc = {p1, p2}
  Free = Free
  Stuck = Stuck
  StepCount = 3
  MaxFaults = 0
SPECIFICATION Spec
PROPERTIES SkipsRecorded

