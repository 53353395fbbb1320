SPECIFICATION FairSpec
CONSTANTS
  artifact = artifact
  Incident = {i1}
  NoIncident = NoIncident
  Task = {t1, t2}
  Key = {artifact}
  Name <- OneName
  Target <- OneName
  EntryPoints <- Requests
  Outcomes <- SomeOutcomes
  MaxRetryAttempts = 1
  Redeliver = FALSE
  CanCrash = FALSE
  TicketStoreFails = FALSE
CHECK_DEADLOCK FALSE
INVARIANTS TypeOK NoLostUpdate EscalationBacked
PROPERTIES LockEventuallyFree InProgressResolves
