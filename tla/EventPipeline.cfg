SPECIFICATION FairSpec
CONSTANTS
  e1 = e1
  e2 = e2
  e3 = e3
  f1 = f1
  f2 = f2
  f3 = f3
  f4 = f4
  NoSig = NoSig
  s1 = s1
  s2 = s2
  Event = {e1, e2, e3}
  Failure = {f1, f2, f3, f4}
  Sig = {s1, s2}
  Unnamed = {s2}
  Entries <- MCEntries
  SigOf <- MCSigOf
  Task = {t1, t2}
  Configs <- MCConfigs
  MaxRows = 2
  MaxCopies = 2
CHECK_DEADLOCK FALSE
INVARIANTS TypeOK NoIncidentForgotten CountsAddUp FailureAccounted AgentsDoorIsAtomic
PROPERTIES HonoursContract Settles
