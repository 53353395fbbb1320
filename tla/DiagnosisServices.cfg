SPECIFICATION Spec
CONSTANTS
  Run = {r1, r2}
  NoRun = NoRun
  LlmConfidence = {40, 100}
  RuleConfidence = {60}
  Answers <- MCAnswers
  Fixer = {f1, f2}
  i1 = i1
  i2 = i2
  Iflow = {i1, i2}
  router = router
  header = header
  header2 = header2
  xpath = xpath
  adapter = adapter
  newEvent = newEvent
  Document <- MCDocument
  OriginalOf <- MCOriginalOf
  DraftsOf <- MCDraftsOf
  EditsOf <- MCEditsOf
  Fingerprint <- MCFingerprint
  Package <- MCPackage
  Foreign <- MCForeign
  MaxEdits = 1
  Recorder = {p1, p2}
  FixText = {x1, x2}
  Strategy = {s1}
  NoStrategy = NoStrategy
  MaxRecords = 3
  m1 = m1
  m2 = m2
  m3 = m3
  m4 = m4
  Message = {m1, m2, m3, m4}
  Loaded <- MCLoaded
  LoadPage = 2
  Limits = {0, 1}
  MaxChanges = 2
  Id = {1, 2, 3}
  SourceIds = {1, 2, 3}
  TargetIds = {3}
  BatchSize = 2
  MaxRetries = 3
  MaxRuns = 2
  MaxFaults = 2
  Parts = {"rca", "patterns", "load", "migration", "validator"}
CHECK_DEADLOCK FALSE
INVARIANTS TypeOK DoubtIsCapped NotesAreOwn PatternsAddUp LoadIsComplete CopyIsComplete ComparedWithOwn
PROPERTIES RcaEnds 
