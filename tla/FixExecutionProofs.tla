------------------------- MODULE FixExecutionProofs -------------------------
(***************************************************************************)
(* Proofs about FixExecution, for every set of incidents, keys and tasks:  *)
(* type correctness, mutual exclusion under the per-iFlow locks, and the   *)
(* refinement of FixMutex.                                                 *)
(***************************************************************************)
EXTENDS FixExecution, TLAPS

\* Where a task can be, given who started it: only the lock-taking callers wait for a
\* lock, and whoever runs has an incident and nobody else has.
ControlOK ==
    \A t \in Task :
      /\ pc[t] # "idle" => inc[t] \in Incident
      /\ pc[t] = "wait" => caller[t] \in LockingCallers
      /\ pc[t] = "gate_rca" => caller[t] = "gate"
      /\ pc[t] = "freshrca" => caller[t] = "retry"
      /\ pc[t] = "verify" => caller[t] = "handle_fix"
      /\ pc[t] = "idle" => inc[t] = NoIncident

-----------------------------------------------------------------------------
(* Type correctness *)

LEMMA PostFixStatusType ==
    ASSUME NEW o \in FixOutcome \union {"none"}, NEW p \in BOOLEAN, NEW r \in Replay
    PROVE  PostFixStatus(o, p, r) \in Status
  BY DEF PostFixStatus, Status, FixOutcome, UpdateStage, FixSuccess, UploadedOnly

LEMMA StageClassType == ASSUME NEW s PROVE StageClass(s) \in Stages
  BY DEF StageClass, Stages

LEMMA InitType == Init => TypeOK /\ ControlOK
  BY ConstantsAssumption
  DEF Init, TypeOK, ControlOK, Status, Stages, Labels, Modes

\* What most arrivals do to the tasks.
LEMMA StartWorkType ==
    ASSUME TypeOK, ControlOK, NEW t \in Task, NEW i \in Incident,
           NEW c \in Callers, NEW m \in Modes, NEW l \in Labels \ { "wait", "idle", "verify" },
           l = "gate_rca" => c = "gate", l = "freshrca" => c = "retry",
           StartWork(t, i, c, m, l)
    PROVE  /\ pc' \in [Task -> Labels] /\ caller' \in [Task -> Callers \union {"none"}]
           /\ inc' \in [Task -> Incident \union {NoIncident}]
           /\ mode' \in [Task -> Modes] /\ act' \subseteq Task
           /\ res' \in [Task -> FixOutcome \union {"none"}]
           /\ abandoned' \subseteq Incident /\ ControlOK'
  BY DEF StartWork, Start, TypeOK, ControlOK


LEMMA DoneType ==
    ASSUME TypeOK, ControlOK, NEW t \in Task, Done(t)
    PROVE  /\ pc' \in [Task -> Labels] /\ caller' \in [Task -> Callers \union {"none"}]
           /\ inc' \in [Task -> Incident \union {NoIncident}]
           /\ mode' \in [Task -> Modes] /\ act' \subseteq Task
           /\ res' \in [Task -> FixOutcome \union {"none"}]
           /\ ControlOK'
  BY DEF Done, TypeOK, ControlOK, Labels, Modes

\* A result has a status of its own, whatever the replay.
LEMMA EndExecType ==
    ASSUME TypeOK, ControlOK, NEW t \in Task, inc[t] \in Incident,
           NEW s \in Status, NEW ok \in BOOLEAN, NEW stage, NEW recorded \in BOOLEAN,
           EndExec(t, s, ok, stage, recorded)
    PROVE  /\ status' \in [Incident -> Status]
           /\ lastStage' \in [Incident -> Stages]
  <1>1. status' \in [Incident -> Status]
    BY DEF EndExec, SetStatus, TypeOK, Status
  <1>2. lastStage' \in [Incident -> Stages]
    <2>1. StageClass(stage) \in Stages  BY StageClassType
    <2> QED  BY <2>1 DEF EndExec, TypeOK
  <1> QED  BY <1>1, <1>2

LEMMA LockKeyType ==
    ASSUME TypeOK, NEW t \in Task, inc[t] \in Incident
    PROVE  LockKey(t) \in Key
  BY ConstantsAssumption DEF LockKey, TypeOK

LEMMA EnterOrWaitType ==
    ASSUME TypeOK, NEW t \in Task, inc[t] \in Incident, EnterOrWait(t)
    PROVE  /\ pc' \in [Task -> Labels]
           /\ \A u \in Task \ {t} : pc'[u] = pc[u]
           /\ pc'[t] \in { "read", "wait" }
           /\ locked' \subseteq Key
  BY LockKeyType DEF EnterOrWait, TypeOK, Labels

LEMMA ExecStepType ==
    ASSUME TypeOK, ControlOK, NEW t \in Task, ExecStep(t)
    PROVE  TypeOK' /\ ControlOK'
  <1>1. CASE FreshRca(t)
    BY <1>1 DEF FreshRca, StoreRca, SetStatus, TypeOK, ControlOK, Labels, Status, history
  <1>2. CASE ArtifactMissing(t)
    BY <1>2, DoneType, EndExecType, ZenonT(40) DEF ArtifactMissing, EndExec, Exec, TypeOK, ControlOK, Status, history
  <1>3. CASE AlreadyHealthy(t)
    BY <1>3, DoneType, EndExecType DEF AlreadyHealthy, EndExec, Exec, TypeOK, ControlOK, Status, history
  <1>4. CASE Preflight(t)
    BY <1>4 DEF Preflight, AfterDiagnosis, Exec, Goto, SetStatus, TypeOK, ControlOK, Status, Labels, history
  <1>5. CASE Rca(t)
    BY <1>5 DEF Rca, StoreRca, AfterDiagnosis, Exec, SetStatus, TypeOK, ControlOK, Status, Labels, history
  <1>6. CASE RcaRaises(t)
    BY <1>6, DoneType DEF RcaRaises, Exec, SetStatus, TypeOK, ControlOK, Status, Stages, history
  <1>7. CASE Recheck(t)
    <2>1. inc[t] \in Incident /\ caller[t] \in ExecCallers
      BY <1>7 DEF Recheck, Exec, ControlOK
    <2>2. status' \in [Incident -> Status]
      BY <1>7, <2>1 DEF Recheck, SetStatus, TypeOK, Status
    <2> QED
      BY <1>7, <2>1, <2>2, EnterOrWaitType
      DEF Recheck, TypeOK, ControlOK, LockingCallers, history
  <1>8. CASE \E o \in FixOutcome : DeployOnly(t, o)
    BY <1>8 DEF DeployOnly, rowVars, history, TypeOK, ControlOK, Labels, FixOutcome
  <1>9. CASE ExecFixed(t)
    <2>0. inc[t] \in Incident
      BY <1>9 DEF ExecFixed, Exec, ControlOK
    <2>1. PostFixStatus(res[t], FALSE, "none") \in Status
      BY PostFixStatusType DEF TypeOK, Replay
    <2>2. CASE EndExec(t, PostFixStatus(res[t], FALSE, "none"), FALSE, res[t], TRUE)
      <3>1. /\ status' \in [Incident -> Status] /\ lastStage' \in [Incident -> Stages]
            /\ Done(t)
        BY <2>0, <2>1, <2>2, EndExecType DEF EndExec
      <3> QED
        BY <1>9, <2>0, <3>1, DoneType DEF ExecFixed, Exec, Goto, RepeatRca, Release, history, TypeOK
    <2>3. CASE ~EndExec(t, PostFixStatus(res[t], FALSE, "none"), FALSE, res[t], TRUE)
      BY <1>9, <2>0, <2>3, ZenonT(40) DEF ExecFixed, Goto, history, TypeOK, ControlOK, Labels
    <2> QED  BY <2>2, <2>3
  <1>10. CASE \E r \in Replay \ {"none"} : ExecReplayed(t, r)
    <2>0. PICK r \in Replay, p \in BOOLEAN :
            /\ Exec(t, "replay")
            /\ EndExec(t, IF r = "failed" THEN "FIX_DEPLOYED" ELSE PostFixStatus(res[t], p, r),
                       TRUE, res[t], TRUE)
            /\ RepeatRca(t)
            /\ Release(t)
            /\ UNCHANGED << retries, ticketed, snapshots, queue, history >>
      BY <1>10 DEF ExecReplayed
    <2>1. PostFixStatus(res[t], p, r) \in Status
      BY PostFixStatusType DEF TypeOK
    <2>2. (IF r = "failed" THEN "FIX_DEPLOYED" ELSE PostFixStatus(res[t], p, r)) \in Status
      BY <2>1 DEF Status
    <2>3. /\ status' \in [Incident -> Status] /\ lastStage' \in [Incident -> Stages]
          /\ Done(t) /\ inc[t] \in Incident
      BY <2>0, <2>2, EndExecType DEF EndExec, Exec, ControlOK
    <2> QED
      BY <2>0, <2>3, DoneType DEF RepeatRca, Release, history, TypeOK
  <1>11. CASE ExecEscalated(t)
    <2>1. /\ status' \in [Incident -> Status] /\ lastStage' \in [Incident -> Stages]
          /\ Done(t) /\ inc[t] \in Incident
      BY <1>11, EndExecType DEF ExecEscalated, EndExec, Exec, ControlOK, Status
    <2> QED
      BY <1>11, <2>1, DoneType DEF ExecEscalated, RepeatRca, Release, history, TypeOK
  <1>12. CASE ExecRaises(t)
    <2>0. inc[t] \in Incident
      BY <1>12 DEF ExecRaises, Exec, ControlOK
    <2>1. CASE EndExec(t, "FIX_FAILED", FALSE, "agent", TRUE)
      <3>1. /\ status' \in [Incident -> Status] /\ lastStage' \in [Incident -> Stages]
            /\ Done(t)
        BY <2>0, <2>1, EndExecType, ZenonT(40) DEF EndExec, Status
      <3> QED
        BY <1>12, <2>0, <3>1, DoneType DEF ExecRaises, Goto, Release, TypeOK
    <2>2. CASE ~EndExec(t, "FIX_FAILED", FALSE, "agent", TRUE)
      <3>1. StageClass("agent") \in Stages  BY StageClassType
      <3>2. /\ lastStage' \in [Incident -> Stages]
            /\ status' \in [Incident -> Status]
        BY <1>12, <2>0, <2>2, <3>1, ZenonT(40) DEF ExecRaises, SetStatus, TypeOK, Status
      <3>3. /\ Goto(t, "exception") /\ ticketed' \subseteq Incident /\ stale' \subseteq Task
            /\ UNCHANGED << actionable, retries, snapshots, queue, locked, abandoned >>
        BY <1>12, <2>0, <2>2 DEF ExecRaises, TypeOK
      <3>4. TypeOK'
        BY <3>2, <3>3 DEF Goto, TypeOK, Labels
      <3>5. ControlOK'
        BY <2>0, <3>3 DEF Goto, TypeOK, ControlOK
      <3> QED  BY <3>4, <3>5
    <2> QED  BY <2>1, <2>2
  <1>13. CASE ExceptionEscalated(t)
    BY <1>13, DoneType, EndExecType
    DEF ExceptionEscalated, EndExec, Exec, Release, TypeOK, ControlOK, Status, history
  <1> QED
    BY <1>1, <1>2, <1>3, <1>4, <1>5, <1>6, <1>7, <1>8, <1>9, <1>10, <1>11, <1>12, <1>13
    DEF ExecStep

LEMMA GateStepType ==
    ASSUME TypeOK, ControlOK, NEW t \in Task, GateStep(t)
    PROVE  TypeOK' /\ ControlOK'
  <1>a. ASSUME NEW s \in Status, GateDecision(t, s), inc[t] \in Incident, caller[t] = "gate",
               UNCHANGED << caller, inc, mode, res, lastStage, retries, ticketed,
                            snapshots, queue, history >>,
               act' \subseteq Task, actionable' \subseteq Incident
        PROVE  TypeOK' /\ ControlOK'
    <2>1. status' \in [Incident -> Status]
      BY <1>a DEF GateDecision, SetStatus, TypeOK, Status
    <2>2. CASE EnterOrWait(t)
      BY <1>a, <2>1, <2>2, EnterOrWaitType DEF TypeOK, ControlOK, LockingCallers, history
    <2>3. CASE ~EnterOrWait(t)
      BY <1>a, <2>1, <2>3 DEF GateDecision, TypeOK, ControlOK, Labels, history
    <2> QED  BY <2>2, <2>3
  <1>1. CASE GateRca(t)
    <2>1. /\ inc[t] \in Incident /\ caller[t] = "gate"
          /\ act' \subseteq Task /\ actionable' \subseteq Incident
      BY <1>1 DEF GateRca, StoreRca, ControlOK, TypeOK
    <2>2. CASE GateDecision(t, "RCA_COMPLETE")
      BY <1>a, <1>1, <2>1, <2>2 DEF GateRca, Status
    <2>3. CASE ~GateDecision(t, "RCA_COMPLETE")
      BY <1>1, <2>1, <2>3 DEF GateRca, SetStatus, TypeOK, ControlOK, Labels, Status, history
    <2> QED  BY <2>2, <2>3
  <1>2. CASE GateAsk(t)
    <2>1. inc[t] \in Incident
      BY <1>2 DEF GateAsk, ControlOK
    <2> QED
      BY <1>2, <2>1, DoneType DEF GateAsk, SetStatus, TypeOK, Status, history
  <1>3. CASE GateReplayFailed(t)
    <2>1. inc[t] \in Incident /\ caller[t] = "gate" /\ status[inc[t]] \in Status
      BY <1>3 DEF GateReplayFailed, ControlOK, TypeOK
    <2> QED
      BY <1>a, <1>3, <2>1 DEF GateReplayFailed, TypeOK
  <1>4. CASE GateRaises(t)
    <2>1. inc[t] \in Incident
      BY <1>4 DEF GateRaises, ControlOK
    <2> QED
      BY <1>4, <2>1, DoneType DEF GateRaises, Release, SetStatus, TypeOK, Status
  <1>5. CASE GateFixed(t)
    BY <1>5 DEF GateFixed, Goto, rowVars, history, TypeOK, ControlOK, Labels
  <1>6. CASE \E r \in Replay : GateFinish(t, r)
    <2>1. PICK r \in Replay, p \in BOOLEAN :
             GateFinish(t, r) /\ SetStatus(inc[t], PostFixStatus(res[t], p, r))
      BY <1>6 DEF GateFinish
    <2>2. PostFixStatus(res[t], p, r) \in Status
      BY PostFixStatusType DEF TypeOK
    <2>3. inc[t] \in Incident /\ status' \in [Incident -> Status]
      BY <2>1, <2>2 DEF GateFinish, SetStatus, ControlOK, TypeOK
    <2> QED
      BY <2>1, <2>3 DEF GateFinish, Release, TypeOK, ControlOK, Labels, Callers, history
  <1>7. CASE HandleFix(t)
    BY <1>7, DoneType DEF HandleFix, Goto, rowVars, history, TypeOK, ControlOK, Labels
  <1>8. CASE HandleFixTested(t)
    BY <1>8, DoneType DEF HandleFixTested, SetStatus, TypeOK, ControlOK, Status, history
  <1> QED
    BY <1>1, <1>2, <1>3, <1>4, <1>5, <1>6, <1>7, <1>8 DEF GateStep

LEMMA StageStepType ==
    ASSUME TypeOK, ControlOK, NEW t \in Task, StageStep(t)
    PROVE  TypeOK' /\ ControlOK'
  <1>a. ASSUME NEW s \in Status, FailAndEscalate(t, s), inc[t] \in Incident
        PROVE  status' \in [Incident -> Status] /\ ticketed' \subseteq Incident /\ Done(t)
    BY <1>a DEF FailAndEscalate, SetStatus, TypeOK, Status
  <1>1. CASE FixerReplayFailed(t)
    <2>1. inc[t] \in Incident
      BY <1>1 DEF FixerReplayFailed, ControlOK
    <2> QED
      BY <1>1, <2>1, DoneType
      DEF FixerReplayFailed, Goto, SetStatus, TypeOK, ControlOK, Labels, Status, history
  <1>2. CASE FixerFixed(t)
    <2>1. inc[t] \in Incident
      BY <1>2 DEF FixerFixed, ControlOK
    <2>2. PostFixStatus(res[t], FALSE, "none") \in Status
      BY PostFixStatusType DEF TypeOK, Replay
    <2>3. CASE res[t] \in FixSuccess
      <3>0. /\ SetStatus(inc[t], PostFixStatus(res[t], FALSE, "none"))
            /\ queue' = queue \union { << "verifier", inc[t] >> }
            /\ ticketed' = ticketed /\ Done(t)
        BY <1>2, <2>3 DEF FixerFixed
      <3>1. status' \in [Incident -> Status]
        BY <2>1, <2>2, <3>0 DEF SetStatus, TypeOK
      <3>2. << "verifier", inc[t] >> \in { "fixer", "verifier" } \X Incident
        BY <2>1
      <3>3. /\ status' \in [Incident -> Status]
            /\ queue' \subseteq { "fixer", "verifier" } \X Incident
        BY <3>0, <3>1, <3>2 DEF TypeOK
      <3> QED
        BY <1>2, <3>0, <3>3, DoneType DEF FixerFixed, TypeOK, history
    <2>4. CASE res[t] \notin FixSuccess
      <3>1. FailAndEscalate(t, PostFixStatus(res[t], FALSE, "none")) /\ queue' = queue
        BY <1>2, <2>4 DEF FixerFixed
      <3>2. status' \in [Incident -> Status] /\ ticketed' \subseteq Incident /\ Done(t)
        BY <1>a, <2>1, <2>2, <3>1
      <3> QED
        BY <1>2, <3>1, <3>2, DoneType DEF FixerFixed, TypeOK, history
    <2> QED  BY <2>3, <2>4
  <1>3. CASE FixerRaises(t)
    <2>1. inc[t] \in Incident
      BY <1>3 DEF FixerRaises, ControlOK
    <2>2. status' \in [Incident -> Status] /\ ticketed' \subseteq Incident /\ Done(t)
      BY <1>a, <1>3, <2>1 DEF FixerRaises, Status
    <2> QED
      BY <1>3, <2>2, DoneType DEF FixerRaises, TypeOK
  <1>4. CASE Verified(t)
    <2>1. inc[t] \in Incident
      BY <1>4 DEF Verified, ControlOK
    <2> QED
      BY <1>4, <2>1, DoneType DEF Verified, SetStatus, TypeOK, Status, history
  <1>5. CASE \E o \in FixOutcome : RollbackWrite(t, o)
    BY <1>5 DEF RollbackWrite, Readers, rowVars, TypeOK, ControlOK, Labels
  <1>6. CASE RollbackDone(t)
    <2>1. inc[t] \in Incident
      BY <1>6 DEF RollbackDone, ControlOK
    <2> QED
      BY <1>6, <2>1, DoneType DEF RollbackDone, SetStatus, TypeOK, Status, history
  <1> QED
    BY <1>1, <1>2, <1>3, <1>4, <1>5, <1>6 DEF StageStep

LEMMA SharedStepType ==
    ASSUME TypeOK, ControlOK, NEW t \in Task, SharedStep(t)
    PROVE  TypeOK' /\ ControlOK'
  <1>1. CASE Acquire(t)
    <2>1. LockKey(t) \in Key /\ inc[t] \in Incident
      BY <1>1, LockKeyType DEF Acquire, ControlOK
    <2> QED
      BY <1>1, <2>1
      DEF Acquire, Goto, SetStatus, TypeOK, ControlOK, Labels, Status, history
  <1>2. CASE LockTimeout(t)
    <2>1. inc[t] \in Incident /\ status[inc[t]] \in Status
      BY <1>2 DEF LockTimeout, ControlOK, TypeOK
    <2>2. CASE caller[t] = "gate"
      BY <1>2, <2>1, <2>2, DoneType DEF LockTimeout, SetStatus, TypeOK, Status
    <2>3. CASE caller[t] # "gate"
      <3>1. EndExec(t, status[inc[t]], FALSE, "lock_timeout", FALSE)
        BY <1>2, <2>3 DEF LockTimeout
      <3>2. /\ status' \in [Incident -> Status] /\ lastStage' \in [Incident -> Stages]
            /\ Done(t)
        BY <2>1, <3>1, EndExecType DEF EndExec
      <3> QED
        BY <1>2, <2>1, <2>3, <3>2, DoneType DEF LockTimeout, TypeOK
    <2> QED  BY <2>2, <2>3
  <1>3. CASE CreateTicket(t)
    <2>1. inc[t] \in Incident
      BY <1>3 DEF CreateTicket, ControlOK
    <2> QED
      BY <1>3, <2>1 DEF CreateTicket, Goto, TypeOK, ControlOK, Labels, history
  <1>4. CASE TicketPushed(t)
    <2>1. inc[t] \in Incident
      BY <1>4 DEF TicketPushed, ControlOK
    <2>2. /\ status' \in [Incident -> Status] /\ lastStage' \in [Incident -> Stages]
          /\ Done(t)
      BY <1>4, <2>1, EndExecType DEF TicketPushed, EndExec, SetStatus, TypeOK, Status
    <2> QED
      BY <1>4, <2>2, DoneType DEF TicketPushed, TypeOK, history
  <1>5. CASE FixRead(t)
    BY <1>5 DEF FixRead, Goto, TypeOK, ControlOK, Labels
  <1>6. CASE \E o \in Outcomes : FixWrite(t, o)
    <2>1. PICK o \in FixOutcome : FixWrite(t, o)
      BY <1>6, ConstantsAssumption
    <2>2. stale' \subseteq Task
      BY <2>1 DEF FixWrite, Readers, TypeOK
    <2> QED
      BY <2>1, <2>2 DEF FixWrite, rowVars, TypeOK, ControlOK, Labels
  <1>7. CASE PolicyReplayed(t)
    <2>1. inc[t] \in Incident
      BY <1>7 DEF PolicyReplayed, ControlOK
    <2> QED
      BY <1>7, <2>1, DoneType DEF PolicyReplayed, SetStatus, TypeOK, Status, history
  <1> QED
    BY <1>1, <1>2, <1>3, <1>4, <1>5, <1>6, <1>7 DEF SharedStep

LEMMA ArriveType ==
    ASSUME TypeOK, ControlOK, NEW i \in Incident, Arrive(i)
    PROVE  TypeOK' /\ ControlOK'
  <1>1. ASSUME NEW t \in Task, Approve(t, i) PROVE TypeOK' /\ ControlOK'
    BY <1>1, StartWorkType
    DEF Approve, StartWork, SetStatus, TypeOK, Status, Callers, ExecCallers, Modes, Labels
  <1>2. ASSUME NEW t \in Task, GenerateSync(t, i) PROVE TypeOK' /\ ControlOK'
    BY <1>2, StartWorkType
    DEF GenerateSync, StartWork, TypeOK, Callers, ExecCallers, Modes, Labels
  <1>3. ASSUME NEW t \in Task, Retry(t, i) PROVE TypeOK' /\ ControlOK'
    <2>1. PICK m \in Modes, label \in { "preflight", "freshrca" } :
            /\ StartWork(t, i, "retry", m, label)
            /\ SetStatus(i, IF label = "freshrca" THEN "RCA_IN_PROGRESS"
                                                  ELSE "FIX_IN_PROGRESS")
      BY <1>3 DEF Retry
    <2>2. retries' \in [Incident -> 0 .. MaxRetryAttempts]
      BY <1>3, ConstantsAssumption DEF Retry, RetryBudget, TypeOK
    <2>3. status' \in [Incident -> Status]
      BY <2>1 DEF SetStatus, TypeOK, Status
    <2> QED
      BY <1>3, <2>1, <2>2, <2>3, StartWorkType
      DEF Retry, StartWork, TypeOK, Callers, ExecCallers, Labels
  <1>4. ASSUME NEW t \in Task, RetryRca(t, i) PROVE TypeOK' /\ ControlOK'
    BY <1>4, StartWorkType
    DEF RetryRca, StartWork, SetStatus, TypeOK, Status, Callers, Modes, Labels
  <1>5. ASSUME NEW t \in Task, NEW c \in ExecCallers, Apply(t, i, c)
        PROVE  TypeOK' /\ ControlOK'
    BY <1>5, StartWorkType
    DEF Apply, StartWork, SetStatus, TypeOK, Status, Callers, Modes, Labels
  <1>6. ASSUME NEW t \in Task, FixerStart(t, i) PROVE TypeOK' /\ ControlOK'
    <2>1. queue' \subseteq { "fixer", "verifier" } \X Incident
      BY <1>6 DEF FixerStart, Deliver, TypeOK
    <2>2. status' \in [Incident -> Status]
      BY <1>6 DEF FixerStart, SetStatus, TypeOK, Status
    <2>3. PICK label \in { "enrich", "policy_replay", "read" } :
            StartWork(t, i, "fixer", "full", label)
      BY <1>6 DEF FixerStart
    <2> QED
      BY <1>6, <2>1, <2>2, <2>3, StartWorkType
      DEF FixerStart, StartWork, TypeOK, Callers, Modes, Labels
  <1>7. ASSUME NEW t \in Task, VerifierStart(t, i) PROVE TypeOK' /\ ControlOK'
    <2>1. queue' \subseteq { "fixer", "verifier" } \X Incident
      BY <1>7 DEF VerifierStart, Deliver, TypeOK
    <2> QED
      BY <1>7, <2>1
      DEF VerifierStart, Start, rowVars, history, TypeOK, ControlOK, Callers, Modes, Labels
  <1>8. ASSUME NEW t \in Task, Rollback(t, i) PROVE TypeOK' /\ ControlOK'
    BY <1>8, StartWorkType
    DEF Rollback, StartWork, SetStatus, TypeOK, Status, Callers, Modes, Labels
  <1>9. CASE Reject(i) \/ Resolve(i)
    BY <1>9 DEF Reject, Resolve, SetStatus, taskVars, history, TypeOK, ControlOK, Status
  <1>10. CASE FixerAsk(i)
    BY <1>10 DEF FixerAsk, Deliver, SetStatus, taskVars, history, TypeOK, ControlOK, Status
  <1> QED
    BY <1>1, <1>2, <1>3, <1>4, <1>5, <1>6, <1>7, <1>8, <1>9, <1>10 DEF Arrive

LEMMA NextType ==
    ASSUME TypeOK, ControlOK, [Next]_vars PROVE TypeOK' /\ ControlOK'
  <1>1. CASE \E t \in Task : Step(t)
    BY <1>1, ExecStepType, GateStepType, StageStepType, SharedStepType DEF Step
  <1>2. CASE \E i \in Incident : Arrive(i)
    BY <1>2, ArriveType
  <1>3. CASE Restart
    BY <1>3 DEF Restart, rowVars, TypeOK, ControlOK, Labels, Modes
  <1>4. CASE UNCHANGED vars
    BY <1>4 DEF vars, rowVars, taskVars, history, TypeOK, ControlOK
  <1> QED
    BY <1>1, <1>2, <1>3, <1>4 DEF Next

\* Every variable keeps its type, in particular retry_count its cap, and every task is
\* where its caller can be.
THEOREM TypeCorrect == Spec => [](TypeOK /\ ControlOK)
  BY InitType, NextType, PTL DEF Spec

-----------------------------------------------------------------------------
(* The locks.  A step of task t leaves the others where they are and is, for the locks, *)
(* one of seven things.                                                                 *)

Alone(t) == \A u \in Task \ {t} :
    pc'[u] = pc[u] /\ caller'[u] = caller[u] /\ inc'[u] = inc[u]

Outside(t) == ~InCritical(t) /\ pc[t] # "wait"

StaysOutside(t) == Outside(t) /\ Outside(t)' /\ UNCHANGED locked

StaysInside(t) == InCritical(t) /\ InCritical(t)' /\ LockKey(t)' = LockKey(t) /\ UNCHANGED locked

StartsWaiting(t) ==
    /\ Outside(t)
    /\ pc'[t] = "wait" /\ LockKey(t)' = LockKey(t)
    /\ LockKey(t) \in locked \/ Waiters(LockKey(t)) # {}
    /\ LockKey(t) \in Key
    /\ UNCHANGED locked

GivesUp(t) == pc[t] = "wait" /\ Outside(t)' /\ UNCHANGED locked

EntersFree(t) ==
    /\ Outside(t)
    /\ InCritical(t)' /\ LockKey(t)' = LockKey(t)
    /\ LockKey(t) \notin locked /\ Waiters(LockKey(t)) = {}
    /\ LockKey(t) \in Key
    /\ locked' = locked \union { LockKey(t) }

Acquires(t) ==
    /\ pc[t] = "wait"
    /\ InCritical(t)' /\ LockKey(t)' = LockKey(t)
    /\ LockKey(t) \notin locked
    /\ LockKey(t) \in Key
    /\ locked' = locked \union { LockKey(t) }

Leaves(t) == InCritical(t) /\ Outside(t)' /\ Release(t)

LockStep(t) ==
    \/ StaysOutside(t) \/ StaysInside(t) \/ StartsWaiting(t) \/ GivesUp(t)
    \/ EntersFree(t) \/ Acquires(t) \/ Leaves(t)

\* Whatever a task does, mutual exclusion survives it.
LEMMA LockStepSafe ==
    ASSUME TypeOK, OneFixPerLock, NEW t \in Task, Alone(t), LockStep(t)
    PROVE  OneFixPerLock'
  <1>1. \A u \in Task \ {t} : (InCritical(u)' <=> InCritical(u)) /\ LockKey(u)' = LockKey(u)
    BY DEF Alone, InCritical, LockKey
  <1>2. ~(InCritical(t) /\ pc[t] = "wait")
    BY DEF InCritical, WorkingOnArtifact
  <1>3. ~(InCritical(t)' /\ pc'[t] = "wait")
    BY DEF InCritical, WorkingOnArtifact
  <1> QED
    BY <1>1, <1>2, <1>3
    DEF OneFixPerLock, LockStep, StaysOutside, StaysInside, StartsWaiting, GivesUp,
        EntersFree, Acquires, Leaves, Outside, Release

\* The four ways an action changes a task's place.
LEMMA GoesOn ==
    ASSUME TypeOK, NEW t \in Task, NEW l \in Labels,
           pc' = [pc EXCEPT ![t] = l], UNCHANGED << caller, inc, locked >>
    PROVE  /\ Alone(t)
           /\ Outside(t) /\ l \notin WorkingOnArtifact \union {"wait"} => LockStep(t)
           /\ Outside(t) /\ caller[t] \notin LockingCallers /\ l # "wait" => LockStep(t)
           /\ InCritical(t) /\ l \in WorkingOnArtifact => LockStep(t)
  <1>1. pc'[t] = l /\ Alone(t)
    BY DEF Alone, TypeOK
  <1> QED
    BY <1>1 DEF LockStep, StaysOutside, StaysInside, Outside, InCritical, LockKey

LEMMA Starts ==
    ASSUME TypeOK, NEW t \in Task, NEW i \in Incident, NEW c \in Callers, NEW m \in Modes,
           NEW l \in Labels \ {"wait"}, Start(t, i, c, m, l), UNCHANGED locked,
           c \in LockingCallers => l \notin WorkingOnArtifact
    PROVE  Alone(t) /\ LockStep(t)
  <1>1. pc'[t] = l /\ caller'[t] = c /\ Alone(t)
    BY DEF Start, Alone, TypeOK
  <1>2. Outside(t)
    BY DEF Start, Outside, InCritical, WorkingOnArtifact
  <1> QED
    BY <1>1, <1>2 DEF LockStep, StaysOutside, Outside, InCritical

LEMMA Ends ==
    ASSUME TypeOK, NEW t \in Task, Done(t)
    PROVE  /\ Alone(t)
           /\ ~InCritical(t) /\ UNCHANGED locked => LockStep(t)
           /\ InCritical(t) /\ Release(t) => LockStep(t)
  <1>1. pc'[t] = "idle" /\ Alone(t)
    BY DEF Done, Alone, TypeOK
  <1>2. Outside(t)'
    BY <1>1 DEF Outside, InCritical, WorkingOnArtifact
  <1> QED
    BY <1>1, <1>2 DEF LockStep, StaysOutside, GivesUp, Leaves, Outside

LEMMA AsksForLock ==
    ASSUME TypeOK, ControlOK, NEW t \in Task, Outside(t), pc[t] # "idle",
           caller[t] \in LockingCallers, EnterOrWait(t), UNCHANGED << caller, inc >>
    PROVE  Alone(t) /\ LockStep(t)
  <1>1. inc[t] \in Incident
    BY DEF ControlOK
  <1>2. LockKey(t) \in Key /\ LockKey(t)' = LockKey(t)
    BY <1>1, LockKeyType DEF LockKey
  <1>3. Alone(t)
    BY <1>1, EnterOrWaitType DEF Alone
  <1>4. CASE LockKey(t) \notin locked /\ Waiters(LockKey(t)) = {}
    <2>1. pc'[t] = "read" /\ locked' = locked \union { LockKey(t) }
      BY <1>4 DEF EnterOrWait, TypeOK
    <2> QED
      BY <1>2, <1>3, <1>4, <2>1
      DEF LockStep, EntersFree, InCritical, WorkingOnArtifact
  <1>5. CASE ~(LockKey(t) \notin locked /\ Waiters(LockKey(t)) = {})
    <2>1. pc'[t] = "wait" /\ locked' = locked
      BY <1>5 DEF EnterOrWait, TypeOK
    <2> QED
      BY <1>2, <1>3, <1>5, <2>1 DEF LockStep, StartsWaiting
  <1> QED  BY <1>4, <1>5

LEMMA ExecStepLock ==
    ASSUME TypeOK, ControlOK, NEW t \in Task, ExecStep(t)
    PROVE  Alone(t) /\ LockStep(t)
  <1> USE DEF Exec, Outside, InCritical, WorkingOnArtifact, LockingCallers
  <1>1. CASE FreshRca(t) \/ Preflight(t) \/ Rca(t)
    <2>1. PICK l \in { "preflight", "rca", "recheck", "enrich" } :
            pc' = [pc EXCEPT ![t] = l] /\ UNCHANGED << caller, inc, locked >>
      BY <1>1 DEF FreshRca, Preflight, Rca, AfterDiagnosis, Goto
    <2>2. Outside(t)
      BY <1>1 DEF FreshRca, Preflight, Rca
    <2> QED
      BY <2>1, <2>2, GoesOn DEF Labels
  <1>2. CASE ArtifactMissing(t) \/ AlreadyHealthy(t) \/ RcaRaises(t)
    BY <1>2, Ends DEF ArtifactMissing, AlreadyHealthy, RcaRaises, EndExec
  <1>3. CASE Recheck(t)
    BY <1>3, AsksForLock DEF Recheck
  <1>4. CASE \E o \in FixOutcome : DeployOnly(t, o)
    <2>1. /\ pc[t] = "read" /\ pc' = [pc EXCEPT ![t] = "fixed"]
          /\ UNCHANGED << caller, inc, locked >>
      BY <1>4 DEF DeployOnly
    <2> QED
      BY <2>1, GoesOn DEF Labels
  <1>5. CASE ExecFixed(t)
    <2>1. CASE Done(t) /\ Release(t)
      BY <1>5, <2>1, Ends DEF ExecFixed
    <2>2. CASE ~(Done(t) /\ Release(t))
      <3>1. PICK l \in { "replay", "escalate" } :
              pc' = [pc EXCEPT ![t] = l] /\ UNCHANGED << caller, inc, locked >>
        BY <1>5, <2>2 DEF ExecFixed, EndExec, Goto
      <3> QED
        BY <1>5, <3>1, GoesOn DEF ExecFixed, Labels
    <2> QED  BY <2>1, <2>2
  <1>6. CASE \E r \in Replay \ {"none"} : ExecReplayed(t, r)
    <2>1. InCritical(t) /\ Done(t) /\ Release(t)
      BY <1>6 DEF ExecReplayed, EndExec
    <2> QED  BY <2>1, Ends
  <1>7. CASE ExecEscalated(t) \/ ExceptionEscalated(t)
    BY <1>7, Ends DEF ExecEscalated, ExceptionEscalated, EndExec
  <1>8. CASE ExecRaises(t)
    <2>1. InCritical(t)
      BY <1>8 DEF ExecRaises
    <2>2. CASE Done(t) /\ Release(t)
      BY <2>1, <2>2, Ends
    <2>3. CASE ~(Done(t) /\ Release(t))
      <3>1. pc' = [pc EXCEPT ![t] = "exception"] /\ UNCHANGED << caller, inc, locked >>
        BY <1>8, <2>3 DEF ExecRaises, EndExec, Goto
      <3> QED
        BY <2>1, <3>1, GoesOn DEF Labels
    <2> QED  BY <2>2, <2>3
  <1> QED
    BY <1>1, <1>2, <1>3, <1>4, <1>5, <1>6, <1>7, <1>8 DEF ExecStep

LEMMA GateStepLock ==
    ASSUME TypeOK, ControlOK, NEW t \in Task, GateStep(t)
    PROVE  Alone(t) /\ LockStep(t)
  <1> USE DEF Outside, InCritical, WorkingOnArtifact, LockingCallers
  <1>a. ASSUME NEW s, GateDecision(t, s), pc[t] \in { "gate_rca", "policy_replay" },
               caller[t] = "gate", UNCHANGED << caller, inc >>
        PROVE  Alone(t) /\ LockStep(t)
    <2>1. CASE EnterOrWait(t)
      BY <1>a, <2>1, AsksForLock
    <2>2. CASE ~EnterOrWait(t)
      BY <1>a, <2>2, GoesOn DEF GateDecision, Labels
    <2> QED  BY <2>1, <2>2
  <1>1. CASE GateRca(t)
    <2>1. CASE GateDecision(t, "RCA_COMPLETE")
      BY <1>a, <1>1, <2>1 DEF GateRca, ControlOK
    <2>2. CASE ~GateDecision(t, "RCA_COMPLETE")
      BY <1>1, <2>2, GoesOn DEF GateRca, Labels
    <2> QED  BY <2>1, <2>2
  <1>2. CASE GateAsk(t)
    BY <1>2, Ends DEF GateAsk
  <1>3. CASE GateReplayFailed(t)
    BY <1>a, <1>3 DEF GateReplayFailed
  <1>4. CASE GateRaises(t)
    BY <1>4, Ends DEF GateRaises
  <1>5. CASE GateFixed(t)
    BY <1>5, GoesOn DEF GateFixed, Goto, Labels
  <1>6. CASE \E r \in Replay : GateFinish(t, r)
    <2>1. /\ InCritical(t) /\ Release(t)
          /\ pc' = [pc EXCEPT ![t] = "verify"] /\ caller' = [caller EXCEPT ![t] = "handle_fix"]
          /\ UNCHANGED inc
      BY <1>6 DEF GateFinish
    <2> QED
      BY <2>1 DEF Alone, LockStep, Leaves, TypeOK
  <1>7. CASE HandleFix(t)
    <2>1. CASE Done(t)
      BY <1>7, <2>1, Ends DEF HandleFix
    <2>2. CASE ~Done(t)
      BY <1>7, <2>2, GoesOn DEF HandleFix, Goto, Labels
    <2> QED  BY <2>1, <2>2
  <1>8. CASE HandleFixTested(t)
    BY <1>8, Ends DEF HandleFixTested
  <1> QED
    BY <1>1, <1>2, <1>3, <1>4, <1>5, <1>6, <1>7, <1>8 DEF GateStep

LEMMA StageStepLock ==
    ASSUME TypeOK, ControlOK, NEW t \in Task, StageStep(t)
    PROVE  Alone(t) /\ LockStep(t)
  <1> USE DEF Outside, InCritical, WorkingOnArtifact, LockingCallers, ExecCallers
  <1>1. CASE FixerReplayFailed(t)
    <2>1. CASE Done(t)
      BY <1>1, <2>1, Ends DEF FixerReplayFailed
    <2>2. CASE ~Done(t)
      BY <1>1, <2>2, GoesOn DEF FixerReplayFailed, Goto, Labels
    <2> QED  BY <2>1, <2>2
  <1>2. CASE FixerFixed(t) \/ FixerRaises(t)
    <2>1. Done(t) /\ UNCHANGED locked /\ ~InCritical(t)
      BY <1>2 DEF FixerFixed, FixerRaises, FailAndEscalate
    <2> QED  BY <2>1, Ends
  <1>3. CASE Verified(t) \/ RollbackDone(t)
    BY <1>3, Ends DEF Verified, RollbackDone
  <1>4. CASE \E o \in FixOutcome : RollbackWrite(t, o)
    <2>1. /\ pc[t] = "rollback" /\ pc' = [pc EXCEPT ![t] = "restored"]
          /\ UNCHANGED << caller, inc, locked >>
      BY <1>4 DEF RollbackWrite
    <2> QED  BY <2>1, GoesOn DEF Labels
  <1> QED
    BY <1>1, <1>2, <1>3, <1>4 DEF StageStep

LEMMA SharedStepLock ==
    ASSUME TypeOK, ControlOK, NEW t \in Task, SharedStep(t)
    PROVE  Alone(t) /\ LockStep(t)
  <1> USE DEF Outside, InCritical, WorkingOnArtifact
  <1>1. CASE Acquire(t)
    <2>1. /\ LockKey(t) \in Key /\ caller[t] \in LockingCallers
          /\ Alone(t) /\ pc'[t] = "read" /\ LockKey(t)' = LockKey(t)
      BY <1>1, LockKeyType DEF Acquire, Goto, Alone, ControlOK, TypeOK, LockKey
    <2> QED
      BY <1>1, <2>1 DEF Acquire, Goto, LockStep, Acquires
  <1>2. CASE LockTimeout(t)
    BY <1>2, Ends DEF LockTimeout, EndExec
  <1>3. CASE CreateTicket(t)
    BY <1>3, GoesOn DEF CreateTicket, Goto, Labels
  <1>4. CASE TicketPushed(t) \/ PolicyReplayed(t)
    BY <1>4, Ends DEF TicketPushed, PolicyReplayed, EndExec
  <1>5. CASE FixRead(t)
    BY <1>5, GoesOn DEF FixRead, Goto, Labels
  <1>6. CASE \E o \in Outcomes : FixWrite(t, o)
    <2>1. /\ pc[t] = "write" /\ pc' = [pc EXCEPT ![t] = "fixed"]
          /\ UNCHANGED << caller, inc, locked >>
      BY <1>6 DEF FixWrite
    <2> QED  BY <2>1, GoesOn DEF Labels
  <1> QED
    BY <1>1, <1>2, <1>3, <1>4, <1>5, <1>6 DEF SharedStep

\* What arrives starts a task outside every lock, or starts none.
LEMMA ArriveLock ==
    ASSUME TypeOK, ControlOK, NEW i \in Incident, Arrive(i)
    PROVE  \/ \E t \in Task : Alone(t) /\ LockStep(t)
           \/ UNCHANGED << pc, caller, inc, locked >>
  <1>1. ASSUME NEW t \in Task, NEW c \in Callers, NEW m \in Modes, NEW l \in Labels,
               l \in { "preflight", "freshrca", "gate_rca", "rollback" }
                 \/ (c \notin LockingCallers /\ l # "wait"),
               Start(t, i, c, m, l), UNCHANGED locked
        PROVE  Alone(t) /\ LockStep(t)
    BY <1>1, Starts DEF WorkingOnArtifact
  <1> USE DEF Callers, ExecCallers, LockingCallers, Modes, Labels, StartWork
  <1>2. ASSUME NEW t \in Task, Approve(t, i) \/ GenerateSync(t, i) \/ RetryRca(t, i)
                                 \/ Rollback(t, i) \/ VerifierStart(t, i)
        PROVE  Alone(t) /\ LockStep(t)
    BY <1>1, <1>2 DEF Approve, GenerateSync, RetryRca, Rollback, VerifierStart
  <1>3. ASSUME NEW t \in Task, Retry(t, i) PROVE Alone(t) /\ LockStep(t)
    BY <1>1, <1>3 DEF Retry
  <1>4. ASSUME NEW t \in Task, NEW c \in ExecCallers, Apply(t, i, c)
        PROVE  Alone(t) /\ LockStep(t)
    BY <1>1, <1>4 DEF Apply, Modes
  <1>5. ASSUME NEW t \in Task, FixerStart(t, i) PROVE Alone(t) /\ LockStep(t)
    BY <1>1, <1>5 DEF FixerStart
  <1>6. CASE Reject(i) \/ Resolve(i) \/ FixerAsk(i)
    BY <1>6 DEF Reject, Resolve, FixerAsk, taskVars
  <1> QED
    BY <1>2, <1>3, <1>4, <1>5, <1>6 DEF Arrive

LEMMA NextSafe ==
    ASSUME TypeOK, ControlOK, OneFixPerLock, [Next]_vars PROVE OneFixPerLock'
  <1>1. CASE \E t \in Task : Alone(t) /\ LockStep(t)
    BY <1>1, LockStepSafe
  <1>2. CASE UNCHANGED << pc, caller, inc, locked >>
    BY <1>2 DEF OneFixPerLock, InCritical, LockKey
  <1>3. CASE Restart
    BY <1>3 DEF Restart, OneFixPerLock, InCritical, WorkingOnArtifact
  <1>4. CASE \E t \in Task : Step(t)
    BY <1>1, <1>4, ExecStepLock, GateStepLock, StageStepLock, SharedStepLock DEF Step
  <1>5. CASE \E i \in Incident : Arrive(i)
    BY <1>1, <1>2, <1>5, ArriveLock
  <1> QED
    BY <1>2, <1>3, <1>4, <1>5 DEF Next, vars, taskVars

\* The per-iFlow mutex works for any number of tasks, incidents and keys: of the
\* coroutines that take the lock of one key, at most one is between acquire and
\* release, and the lock is held exactly then.
THEOREM MutualExclusion == Spec => []OneFixPerLock
  <1>1. Init => OneFixPerLock
    BY DEF Init, OneFixPerLock, InCritical, WorkingOnArtifact
  <1> QED
    BY <1>1, TypeCorrect, NextSafe, PTL DEF Spec

-----------------------------------------------------------------------------
(* Refinement: the seven kinds of step, seen from FixMutex. *)

Holding(k) == { t \in Task : InCritical(t) /\ LockKey(t) = k }

Inside == [k \in Key |-> Holding(k)]

Queued == [k \in Key |-> Waiters(k)]

LEMMA LockStepRefines ==
    ASSUME OneFixPerLock, NEW t \in Task, Alone(t), LockStep(t),
           pc[t] = "wait" \/ InCritical(t) => LockKey(t) \in Key
    PROVE  Mutex!Next \/ UNCHANGED << Inside, Queued >>
  <1> DEFINE k == LockKey(t)
  <1>1. \A u \in Task \ {t} : /\ InCritical(u)' <=> InCritical(u)
                             /\ LockKey(u)' = LockKey(u)
                             /\ pc'[u] = pc[u]
    BY DEF Alone, InCritical, LockKey
  <1>2. ~(InCritical(t) /\ pc[t] = "wait") /\ ~(InCritical(t)' /\ pc'[t] = "wait")
    BY DEF InCritical, WorkingOnArtifact
  <1>3. Outside(t) => \A j \in Key : t \notin Holding(j) /\ t \notin Waiters(j)
    BY DEF Outside, Holding, Waiters
  <1>4. k \in Key /\ k \notin locked => Holding(k) = {}
    BY DEF OneFixPerLock, Holding
  <1>5. CASE StaysOutside(t) \/ StaysInside(t)
    <2>1. \A j \in Key : Holding(j)' = Holding(j) /\ Waiters(j)' = Waiters(j)
      BY <1>1, <1>2, <1>5 DEF StaysOutside, StaysInside, Outside, Holding, Waiters
    <2> QED  BY <2>1 DEF Inside, Queued
  <1>6. CASE StartsWaiting(t)
    <2>1. \A j \in Key : Holding(j)' = Holding(j)
      BY <1>1, <1>2, <1>6 DEF StartsWaiting, Outside, Holding
    <2>2. \A j \in Key : Waiters(j)' = IF j = k THEN Waiters(j) \union {t} ELSE Waiters(j)
      BY <1>1, <1>6 DEF StartsWaiting, Outside, Waiters
    <2>3. k \in Key /\ (Holding(k) # {} \/ Waiters(k) # {})
      BY <1>6 DEF StartsWaiting, OneFixPerLock, Holding
    <2>4. Mutex!Wait(t, k)
      BY <1>3, <1>6, <2>1, <2>2, <2>3
      DEF StartsWaiting, Mutex!Wait, Mutex!Absent, Holding
    <2> QED  BY <2>3, <2>4 DEF Mutex!Next
  <1>7. CASE GivesUp(t)
    <2>1. \A j \in Key : Holding(j)' = Holding(j)
      BY <1>1, <1>2, <1>7 DEF GivesUp, Outside, Holding
    <2>2. \A j \in Key : Waiters(j)' = IF j = k THEN Waiters(j) \ {t} ELSE Waiters(j)
      BY <1>1, <1>7 DEF GivesUp, Outside, Waiters
    <2>3. k \in Key /\ t \in Waiters(k)
      BY <1>7 DEF GivesUp, Waiters
    <2>4. Mutex!GiveUp(t, k)
      BY <2>1, <2>2, <2>3 DEF Mutex!GiveUp, Holding
    <2> QED  BY <2>3, <2>4 DEF Mutex!Next
  <1>8. CASE EntersFree(t)
    <2>1. \A j \in Key : Holding(j)' = IF j = k THEN Holding(j) \union {t} ELSE Holding(j)
      BY <1>1, <1>8 DEF EntersFree, Outside, Holding
    <2>2. \A j \in Key : Waiters(j)' = Waiters(j)
      BY <1>1, <1>2, <1>8 DEF EntersFree, Outside, Waiters
    <2>3. k \in Key /\ Holding(k) = {} /\ Waiters(k) = {}
      BY <1>4, <1>8 DEF EntersFree
    <2>4. Mutex!Enter(t, k)
      BY <1>3, <1>8, <2>1, <2>2, <2>3
      DEF EntersFree, Mutex!Enter, Mutex!Absent, Holding
    <2> QED  BY <2>3, <2>4 DEF Mutex!Next
  <1>9. CASE Acquires(t)
    <2>1. \A j \in Key : Holding(j)' = IF j = k THEN Holding(j) \union {t} ELSE Holding(j)
      BY <1>1, <1>2, <1>9 DEF Acquires, Holding
    <2>2. \A j \in Key : Waiters(j)' = IF j = k THEN Waiters(j) \ {t} ELSE Waiters(j)
      BY <1>1, <1>2, <1>9 DEF Acquires, Waiters
    <2>3. k \in Key /\ Holding(k) = {} /\ t \in Waiters(k)
      BY <1>4, <1>9 DEF Acquires, Waiters
    <2>4. Mutex!Acquire(t, k)
      BY <2>1, <2>2, <2>3 DEF Mutex!Acquire, Holding
    <2> QED  BY <2>3, <2>4 DEF Mutex!Next
  <1>10. CASE Leaves(t)
    <2>1. \A j \in Key : Holding(j)' = IF j = k THEN Holding(j) \ {t} ELSE Holding(j)
      BY <1>1, <1>10 DEF Leaves, Outside, Holding
    <2>2. \A j \in Key : Waiters(j)' = Waiters(j)
      BY <1>1, <1>2, <1>10 DEF Leaves, Outside, Waiters
    <2>3. k \in Key /\ t \in Holding(k)
      BY <1>10 DEF Leaves, Holding
    <2>4. Mutex!Leave(t, k)
      BY <2>1, <2>2, <2>3 DEF Mutex!Leave, Holding
    <2> QED  BY <2>3, <2>4 DEF Mutex!Next
  <1> QED
    BY <1>5, <1>6, <1>7, <1>8, <1>9, <1>10 DEF LockStep

LEMMA RestartRefines == Restart => Mutex!Restart
  <1> SUFFICES ASSUME Restart PROVE Mutex!Restart
    OBVIOUS
  <1>1. \A t \in Task : pc'[t] = "idle"
    BY DEF Restart
  <1>2. \A t \in Task : ~InCritical(t)'
    BY <1>1 DEF InCritical, WorkingOnArtifact
  <1>3. \A k \in Key : Waiters(k)' = {}
    BY <1>1 DEF Waiters
  <1> QED
    BY <1>2, <1>3 DEF Mutex!Restart

LEMMA NextRefines ==
    ASSUME TypeOK, ControlOK, OneFixPerLock, [Next]_vars
    PROVE  Mutex!Next \/ UNCHANGED << Inside, Queued >>
  <1>1. CASE \E t \in Task : Alone(t) /\ LockStep(t)
    <2>1. PICK t \in Task : Alone(t) /\ LockStep(t)
      BY <1>1
    <2>2. pc[t] = "wait" \/ InCritical(t) => LockKey(t) \in Key
      <3>1. pc[t] = "wait" \/ InCritical(t) => pc[t] # "idle"
        BY DEF InCritical, WorkingOnArtifact
      <3> QED  BY <3>1, LockKeyType DEF ControlOK
    <2> QED  BY <2>1, <2>2, LockStepRefines
  <1>2. CASE UNCHANGED << pc, caller, inc, locked >>
    BY <1>2 DEF Inside, Queued, Holding, Waiters, InCritical, LockKey
  <1>3. CASE Restart
    BY <1>3, RestartRefines DEF Mutex!Next
  <1>4. CASE \E t \in Task : Step(t)
    BY <1>1, <1>4, ExecStepLock, GateStepLock, StageStepLock, SharedStepLock DEF Step
  <1>5. CASE \E i \in Incident : Arrive(i)
    BY <1>1, <1>2, <1>5, ArriveLock
  <1> QED
    BY <1>2, <1>3, <1>4, <1>5 DEF Next, vars, taskVars

\* The fix path uses its locks the way FixMutex promises: nobody enters a key that is
\* held, a newcomer does not overtake those who wait, and only a holder lets go.
THEOREM Refinement == Spec => ImplementsMutex
  <1>1. Init => Mutex!Init
    BY DEF Init, Mutex!Init, InCritical, Waiters, WorkingOnArtifact
  <1>2. TypeOK /\ ControlOK /\ OneFixPerLock /\ [Next]_vars
          => [Mutex!Next]_<< Inside, Queued >>
    BY NextRefines
  <1>3. Spec => []ControlOK
    BY TypeCorrect, PTL
  <1> QED
    BY <1>1, <1>2, TypeCorrect, MutualExclusion, PTL
    DEF Spec, ImplementsMutex, Mutex!Spec, Inside, Queued, Holding

=============================================================================
