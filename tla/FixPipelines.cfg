SPECIFICATION Spec
CONSTANTS
  artifact = artifact
  Incident = {i1}
  NoIncident = NoIncident
  Task = {t1, t2}
  Key = {artifact}
  Name <- OneName
  Target <- OneName
  EntryPoints <- Pipelines
  Outcomes <- FewOutcomes
  MaxRetryAttempts = 1
  Redeliver = TRUE
  CanCrash = TRUE
  TicketStoreFails = TRUE
CHECK_DEADLOCK FALSE
SYMMETRY Symmetry
INVARIANTS OneFixPerLock InProgressHasWorker
PROPERTIES ImplementsMutex
