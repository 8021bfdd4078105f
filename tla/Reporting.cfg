\* Every arrangement of the sinks, one question, two executions of the reporter.
SPECIFICATION Spec
CONSTANTS
  Settings <- MCSettings
  MaxAsks = 1
  MaxAttempts = 2
  MaxFaults = 2
CHECK_DEADLOCK FALSE
INVARIANTS PrimaryLeads TicketIsTold ReportIsOut
PROPERTY DryRunPostsNothing
