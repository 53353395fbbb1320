SPECIFICATION Spec
CONSTANTS
  artifact = artifact
  Incident = {i1}
  NoIncident = NoIncident
  Task = {t1, t2}
  Key = {artifact}
  Name <- OneName
  Target <- OneName
  EntryPoints <- Approvals
  Outcomes <- FewOutcomes
  MaxRetryAttempts = 1
  Redeliver = FALSE
  CanCrash = FALSE
  TicketStoreFails = FALSE
CHECK_DEADLOCK FALSE
INVARIANT NoConcurrentAttempts
