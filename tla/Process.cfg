\* Two calls, one after the other, of the process executor or of shell.run.
SPECIFICATION ProcessSpec
CONSTANTS
  MaxCalls = 2
  MaxStops = 1
CHECK_DEADLOCK FALSE
INVARIANTS EditsAreOwn TreeIsKilled
PROPERTY CallComesBack
