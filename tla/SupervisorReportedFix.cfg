SPECIFICATION Spec
CONSTANTS
  MaxAttempts = 3
  MaxPasses = 3
CHECK_DEADLOCK FALSE
INVARIANT ReportedFixPresent
