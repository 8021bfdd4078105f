\* standard.yaml and a pipeline of its own, two stops or crashes.
SPECIFICATION Spec
CONSTANTS
  Settings <- MCSettings
  MaxFaults = 2
CHECK_DEADLOCK FALSE
PROPERTIES SecurityFailsClosed ClarifierHasItsSay
