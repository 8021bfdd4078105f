\* Two machines of any of the three modes.
SPECIFICATION RuntimeSpec
CONSTANTS
  MaxVMs = 2
  ReadyTimeout = 1
  MaxFaults = 2
  MaxInterrupts = 2
CHECK_DEADLOCK FALSE
INVARIANTS TornDown HandlesAreCurrent
