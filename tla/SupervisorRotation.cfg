SPECIFICATION FairSpec
CONSTANTS
  MaxAttempts = 3
  MaxPasses = 3
CHECK_DEADLOCK FALSE
INVARIANTS TypeOK NeverPoisoned
PROPERTIES Terminates
