-------------------------- MODULE FixStatusProofs --------------------------
(***************************************************************************)
(* Proofs about what the fix paths of FixExecution leave in the incident's *)
(* row and in SAP CPI, for every set of incidents, keys and tasks: an      *)
(* in-progress status has a worker, an escalation has its ticket, and an   *)
(* upload is derived from the latest version.  The last two hold only      *)
(* where some entry points are switched off; the assumptions say which.    *)
(***************************************************************************)
EXTENDS FixExecutionProofs

\* Where a task can be, given who started it.
Placed ==
    \A t \in Task :
      /\ caller[t] \in EntryPoints \union { "none", "handle_fix" }
      /\ pc[t] \in { "read", "write" } => caller[t] \in LockingCallers \union { "fixer" }
      /\ pc[t] = "rollback" => caller[t] = "rollback"

LEMMA PostFixStatusEnds ==
    ASSUME NEW o \in FixOutcome \union {"none"}, NEW p \in BOOLEAN, NEW r \in Replay
    PROVE  /\ PostFixStatus(o, p, r) \notin InProgress \union { "TICKET_CREATED" }
           /\ o \in FixSuccess => PostFixStatus(o, p, r) \notin FixFailed
  BY DEF PostFixStatus, InProgress, FixOutcome, UpdateStage, FixSuccess, UploadedOnly,
         FixFailed

\* A status that a caller of execute_incident_fix sees when the fix returns.
LEMMA EndExecStatus ==
    ASSUME TypeOK, NEW t \in Task, inc[t] \in Incident, NEW s, NEW ok \in BOOLEAN, NEW stage,
           NEW recorded \in BOOLEAN, EndExec(t, s, ok, stage, recorded)
    PROVE  /\ \/ status'[inc[t]] = s /\ caller[t] # "apply"
              \/ status'[inc[t]] \in { "AUTO_FIXED", "FIX_FAILED" } /\ caller[t] = "apply"
           /\ \A j \in Incident \ { inc[t] } : status'[j] = status[j]
  <1>1. /\ status'[inc[t]] = IF caller[t] # "apply" THEN s
                              ELSE IF ok THEN "AUTO_FIXED" ELSE "FIX_FAILED"
        /\ \A j \in Incident \ { inc[t] } : status'[j] = status[j]
    BY DEF EndExec, SetStatus, TypeOK
  <1> QED  BY <1>1

-----------------------------------------------------------------------------
(* An in-progress status has a worker *)

\* What a step of t does to the statuses: it leaves those of other incidents alone, and
\* its own incident is either not in progress, given up on, or still t's.
HandsOver(t) ==
    /\ abandoned \subseteq abandoned'
    /\ \A j \in Incident \ { inc[t] } : status'[j] = status[j]
    /\ inc[t] \in Incident =>
         \/ status'[inc[t]] \notin InProgress
         \/ inc[t] \in abandoned'
         \/ inc'[t] = inc[t] /\ caller'[t] \notin { "verifier", "handle_fix" }
         \/ caller[t] \in { "verifier", "handle_fix" } /\ status'[inc[t]] = status[inc[t]]

LEMMA HandsOverSafe ==
    ASSUME TypeOK, InProgressHasWorker, NEW t \in Task, Alone(t), HandsOver(t)
    PROVE  InProgressHasWorker'
  <1> SUFFICES ASSUME NEW i \in Incident, status'[i] \in InProgress, i \notin abandoned'
               PROVE  Busy(i)' # {}
    BY DEF InProgressHasWorker
  <1>1. CASE inc[t] # i
    <2>1. status[i] \in InProgress /\ i \notin abandoned
      BY <1>1 DEF HandsOver
    <2>2. PICK u \in Busy(i) : TRUE
      BY <2>1 DEF InProgressHasWorker
    <2>3. u \in Task \ {t}
      BY <1>1, <2>2 DEF Busy
    <2> QED  BY <2>2, <2>3 DEF Busy, Alone
  <1>2. CASE inc[t] = i
    <2>1. CASE inc'[t] = inc[t] /\ caller'[t] \notin { "verifier", "handle_fix" }
      BY <1>2, <2>1 DEF Busy
    <2>2. CASE caller[t] \in { "verifier", "handle_fix" } /\ status'[i] = status[i]
      <3>1. status[i] \in InProgress /\ i \notin abandoned
        BY <2>2 DEF HandsOver
      <3>2. PICK u \in Busy(i) : TRUE
        BY <3>1 DEF InProgressHasWorker
      <3>3. u \in Task \ {t}
        BY <2>2, <3>2 DEF Busy
      <3> QED  BY <3>2, <3>3 DEF Busy, Alone
    <2> QED  BY <1>2, <2>1, <2>2 DEF HandsOver
  <1> QED  BY <1>1, <1>2

\* A task that goes on with its incident, whatever it writes.
LEMMA StaysOnIncident ==
    ASSUME TypeOK, NEW t \in Task, UNCHANGED << inc, caller, abandoned >>,
           NEW s \in Status, SetStatus(inc[t], s),
           caller[t] \notin { "verifier", "handle_fix" }
    PROVE  HandsOver(t)
  BY DEF HandsOver, SetStatus, TypeOK

LEMMA LeavesStatus ==
    ASSUME TypeOK, NEW t \in Task, UNCHANGED << inc, caller, abandoned, status >>
    PROVE  HandsOver(t)
  BY DEF HandsOver

\* A task that writes its last word.
LEMMA EndsIncident ==
    ASSUME TypeOK, NEW t \in Task, NEW s, SetStatus(inc[t], s), s \notin InProgress,
           abandoned \subseteq abandoned'
    PROVE  HandsOver(t)
  BY DEF HandsOver, SetStatus, TypeOK

LEMMA EndExecHandsOver ==
    ASSUME TypeOK, NEW t \in Task, inc[t] \in Incident, NEW s, s \notin InProgress,
           NEW ok \in BOOLEAN, NEW stage, NEW recorded \in BOOLEAN,
           EndExec(t, s, ok, stage, recorded), abandoned' = abandoned
    PROVE  HandsOver(t)
  BY EndExecStatus DEF HandsOver, InProgress

LEMMA ExecStepHandsOver ==
    ASSUME TypeOK, ControlOK, NEW t \in Task, ExecStep(t)
    PROVE  HandsOver(t)
  <1> USE DEF Exec, ExecCallers, InProgress
  <1>1. CASE FreshRca(t) \/ Rca(t)
    BY <1>1, StaysOnIncident DEF FreshRca, Rca, ControlOK, Status, history
  <1>2. CASE ArtifactMissing(t)
    BY <1>2, EndExecHandsOver DEF ArtifactMissing, ControlOK, history
  <1>3. CASE AlreadyHealthy(t)
    BY <1>3, EndExecHandsOver DEF AlreadyHealthy, ControlOK, history
  <1>4. CASE Preflight(t)
    BY <1>4, StaysOnIncident, LeavesStatus DEF Preflight, Goto, Status, history
  <1>5. CASE RcaRaises(t)
    <2>1. inc[t] \in Incident
      BY <1>5 DEF RcaRaises, ControlOK
    <2> QED  BY <1>5, <2>1 DEF RcaRaises, HandsOver, SetStatus, TypeOK
  <1>6. CASE Recheck(t)
    <2>1. /\ inc[t] \in Incident /\ caller[t] \notin { "verifier", "handle_fix" }
          /\ UNCHANGED << inc, caller, abandoned >>
      BY <1>6 DEF Recheck, ControlOK, history
    <2>2. \A j \in Incident \ { inc[t] } : status'[j] = status[j]
      BY <1>6, <2>1 DEF Recheck, SetStatus, TypeOK
    <2> QED  BY <2>1, <2>2 DEF HandsOver
  <1>7. CASE \E o \in FixOutcome : DeployOnly(t, o)
    BY <1>7, LeavesStatus DEF DeployOnly, rowVars, history
  <1>8. CASE ExecFixed(t)
    <2>1. PostFixStatus(res[t], FALSE, "none") \notin InProgress
      BY PostFixStatusEnds DEF TypeOK, Replay
    <2>2. CASE EndExec(t, PostFixStatus(res[t], FALSE, "none"), FALSE, res[t], TRUE)
      BY <1>8, <2>1, <2>2, EndExecHandsOver DEF ExecFixed, ControlOK, history
    <2>3. CASE ~EndExec(t, PostFixStatus(res[t], FALSE, "none"), FALSE, res[t], TRUE)
      BY <1>8, <2>3, LeavesStatus DEF ExecFixed, Goto, history
    <2> QED  BY <2>2, <2>3
  <1>9. CASE \E r \in Replay \ {"none"} : ExecReplayed(t, r)
    <2>0. PICK r \in Replay, p \in BOOLEAN :
            /\ pc[t] = "replay" /\ abandoned' = abandoned
            /\ EndExec(t, IF r = "failed" THEN "FIX_DEPLOYED" ELSE PostFixStatus(res[t], p, r),
                       TRUE, res[t], TRUE)
      BY <1>9 DEF ExecReplayed, history
    <2>1. PostFixStatus(res[t], p, r) \notin InProgress
      BY PostFixStatusEnds DEF TypeOK
    <2>2. (IF r = "failed" THEN "FIX_DEPLOYED" ELSE PostFixStatus(res[t], p, r)) \notin InProgress
      BY <2>1
    <2> QED  BY <2>0, <2>2, EndExecHandsOver DEF ControlOK
  <1>10. CASE ExecEscalated(t)
    BY <1>10, EndExecHandsOver DEF ExecEscalated, ControlOK, history
  <1>11. CASE ExceptionEscalated(t)
    BY <1>11, EndExecHandsOver DEF ExceptionEscalated, ControlOK, history
  <1>12. CASE ExecRaises(t)
    <2>1. CASE EndExec(t, "FIX_FAILED", FALSE, "agent", TRUE)
      BY <1>12, <2>1, EndExecHandsOver DEF ExecRaises, ControlOK
    <2>2. CASE ~EndExec(t, "FIX_FAILED", FALSE, "agent", TRUE)
      BY <1>12, <2>2, EndsIncident DEF ExecRaises
    <2> QED  BY <2>1, <2>2
  <1> QED
    BY <1>1, <1>2, <1>3, <1>4, <1>5, <1>6, <1>7, <1>8, <1>9, <1>10, <1>11, <1>12
    DEF ExecStep

LEMMA GateStepHandsOver ==
    ASSUME TypeOK, ControlOK, NEW t \in Task, GateStep(t)
    PROVE  HandsOver(t)
  <1>a. ASSUME NEW s \in Status, GateDecision(t, s), caller[t] = "gate",
               UNCHANGED << inc, caller, abandoned >>
        PROVE  HandsOver(t)
    BY <1>a, StaysOnIncident DEF GateDecision, Status
  <1>1. CASE GateRca(t)
    <2>1. caller[t] = "gate" /\ UNCHANGED << inc, caller, abandoned >>
      BY <1>1 DEF GateRca, ControlOK, history
    <2> QED
      BY <1>1, <1>a, <2>1, StaysOnIncident DEF GateRca, Status
  <1>2. CASE GateAsk(t)
    BY <1>2, EndsIncident DEF GateAsk, InProgress, history
  <1>3. CASE GateReplayFailed(t)
    <2>1. status[inc[t]] \in Status
      BY <1>3 DEF GateReplayFailed, ControlOK, TypeOK
    <2> QED  BY <1>3, <1>a, <2>1 DEF GateReplayFailed, history
  <1>4. CASE GateRaises(t)
    BY <1>4, EndsIncident DEF GateRaises, InProgress, history
  <1>5. CASE GateFixed(t)
    BY <1>5, LeavesStatus DEF GateFixed, Goto, rowVars, history
  <1>6. CASE \E r \in Replay : GateFinish(t, r)
    <2>1. PICK r \in Replay, p \in BOOLEAN :
             GateFinish(t, r) /\ SetStatus(inc[t], PostFixStatus(res[t], p, r))
      BY <1>6 DEF GateFinish
    <2>2. PostFixStatus(res[t], p, r) \notin InProgress
      BY PostFixStatusEnds DEF TypeOK
    <2> QED  BY <2>1, <2>2, EndsIncident DEF GateFinish, history
  <1>7. CASE HandleFix(t)
    <2>1. caller[t] = "handle_fix" /\ status' = status /\ abandoned' = abandoned
      BY <1>7 DEF HandleFix, ControlOK, rowVars, history
    <2> QED  BY <2>1 DEF HandsOver
  <1>8. CASE HandleFixTested(t)
    BY <1>8, EndsIncident DEF HandleFixTested, InProgress, history
  <1> QED
    BY <1>1, <1>2, <1>3, <1>4, <1>5, <1>6, <1>7, <1>8 DEF GateStep

LEMMA StageStepHandsOver ==
    ASSUME TypeOK, ControlOK, NEW t \in Task, StageStep(t)
    PROVE  HandsOver(t)
  <1> USE DEF InProgress
  <1>a. ASSUME NEW s, s \notin InProgress, FailAndEscalate(t, s), abandoned' = abandoned
        PROVE  HandsOver(t)
    BY <1>a, EndsIncident DEF FailAndEscalate
  <1>1. CASE FixerReplayFailed(t)
    BY <1>1, LeavesStatus, StaysOnIncident, EndsIncident
    DEF FixerReplayFailed, Goto, Status, history
  <1>2. CASE FixerFixed(t)
    <2>1. PostFixStatus(res[t], FALSE, "none") \notin InProgress
      BY PostFixStatusEnds DEF TypeOK, Replay
    <2> QED  BY <1>2, <1>a, <2>1, EndsIncident DEF FixerFixed, history
  <1>3. CASE FixerRaises(t)
    BY <1>3, <1>a DEF FixerRaises
  <1>4. CASE Verified(t)
    BY <1>4 DEF Verified, HandsOver, SetStatus, TypeOK, history
  <1>5. CASE \E o \in FixOutcome : RollbackWrite(t, o)
    BY <1>5, LeavesStatus DEF RollbackWrite, rowVars
  <1>6. CASE RollbackDone(t)
    BY <1>6, EndsIncident DEF RollbackDone, history
  <1> QED
    BY <1>1, <1>2, <1>3, <1>4, <1>5, <1>6 DEF StageStep

LEMMA SharedStepHandsOver ==
    ASSUME TypeOK, ControlOK, NEW t \in Task, SharedStep(t)
    PROVE  HandsOver(t)
  <1> USE DEF InProgress
  <1>1. CASE Acquire(t)
    <2>1. /\ inc[t] \in Incident /\ caller[t] \notin { "verifier", "handle_fix" }
          /\ UNCHANGED << inc, caller, abandoned >>
      BY <1>1 DEF Acquire, Goto, ControlOK, LockingCallers, ExecCallers, history
    <2>2. \A j \in Incident \ { inc[t] } : status'[j] = status[j]
      BY <1>1, <2>1 DEF Acquire, SetStatus, TypeOK
    <2> QED  BY <2>1, <2>2 DEF HandsOver
  <1>2. CASE LockTimeout(t)
    <2>0. inc[t] \in Incident
      BY <1>2 DEF LockTimeout, ControlOK
    <2>1. CASE caller[t] = "gate"
      BY <1>2, <2>1, EndsIncident DEF LockTimeout
    <2>2. CASE caller[t] # "gate"
      <3>1. /\ EndExec(t, status[inc[t]], FALSE, "lock_timeout", FALSE)
            /\ abandoned' = IF caller[t] = "apply" THEN abandoned
                              ELSE abandoned \union {inc[t]}
        BY <1>2, <2>2 DEF LockTimeout
      <3> QED  BY <2>0, <3>1, EndExecStatus DEF HandsOver
    <2> QED  BY <2>1, <2>2
  <1>3. CASE CreateTicket(t)
    BY <1>3, LeavesStatus DEF CreateTicket, Goto, history
  <1>4. CASE TicketPushed(t)
    <2>1. CASE caller[t] \in ExecCallers
      BY <1>4, <2>1, EndExecHandsOver DEF TicketPushed, ControlOK, history
    <2>2. CASE caller[t] \notin ExecCallers
      BY <1>4, <2>2, EndsIncident DEF TicketPushed, history
    <2> QED  BY <2>1, <2>2
  <1>5. CASE FixRead(t)
    BY <1>5, LeavesStatus DEF FixRead, Goto
  <1>6. CASE \E o \in Outcomes : FixWrite(t, o)
    BY <1>6, LeavesStatus DEF FixWrite, rowVars
  <1>7. CASE PolicyReplayed(t)
    BY <1>7, EndsIncident DEF PolicyReplayed, history
  <1> QED
    BY <1>1, <1>2, <1>3, <1>4, <1>5, <1>6, <1>7 DEF SharedStep

LEMMA StepHandsOver ==
    ASSUME TypeOK, ControlOK, NEW t \in Task, Step(t)
    PROVE  Alone(t) /\ HandsOver(t)
  BY ExecStepHandsOver, GateStepHandsOver, StageStepHandsOver, SharedStepHandsOver,
     ExecStepLock, GateStepLock, StageStepLock, SharedStepLock DEF Step

\* Whoever starts on an incident answers for it; the verifier leaves it to the others.
LEMMA ArriveHasWorker ==
    ASSUME TypeOK, ControlOK, InProgressHasWorker, NEW i \in Incident, Arrive(i)
    PROVE  InProgressHasWorker'
  <1>a. ASSUME NEW t \in Task, NEW c \in Callers \ { "verifier", "handle_fix" }, NEW m, NEW l,
               StartWork(t, i, c, m, l), NEW s \in Status, SetStatus(i, s)
        PROVE  InProgressHasWorker'
    <2>1. /\ inc[t] = NoIncident /\ inc'[t] = i /\ caller'[t] = c
          /\ \A u \in Task \ {t} : inc'[u] = inc[u] /\ caller'[u] = caller[u]
          /\ abandoned' = abandoned \ {i}
      BY <1>a DEF StartWork, Start, ControlOK, TypeOK
    <2>2. \A j \in Incident \ {i} : status'[j] = status[j]
      BY <1>a DEF SetStatus, TypeOK
    <2>3. t \in Busy(i)'
      BY <1>a, <2>1 DEF Busy
    <2>4. \A j \in Incident : Busy(j) \subseteq Busy(j)'
      BY <2>1, ConstantsAssumption DEF Busy
    <2> QED  BY <2>1, <2>2, <2>3, <2>4 DEF InProgressHasWorker
  <1>b. ASSUME NEW s, s \notin InProgress, SetStatus(i, s), UNCHANGED << inc, caller, abandoned >>
        PROVE  InProgressHasWorker'
    BY <1>b DEF InProgressHasWorker, SetStatus, Busy, TypeOK
  <1> USE DEF Callers, ExecCallers, Status
  <1>1. ASSUME NEW t \in Task, Approve(t, i) \/ RetryRca(t, i) \/ Rollback(t, i)
        PROVE  InProgressHasWorker'
    BY <1>1, <1>a DEF Approve, RetryRca, Rollback
  <1>2. ASSUME NEW t \in Task, GenerateSync(t, i) PROVE InProgressHasWorker'
    <2>1. StartWork(t, i, "generate_sync", "full", "preflight") /\ SetStatus(i, status[i])
      BY <1>2 DEF GenerateSync, SetStatus, TypeOK
    <2> QED  BY <1>a, <2>1 DEF TypeOK
  <1>3. ASSUME NEW t \in Task, Retry(t, i) PROVE InProgressHasWorker'
    BY <1>3, <1>a DEF Retry
  <1>4. ASSUME NEW t \in Task, NEW c \in ExecCallers, Apply(t, i, c)
        PROVE  InProgressHasWorker'
    BY <1>4, <1>a DEF Apply
  <1>5. ASSUME NEW t \in Task, FixerStart(t, i) PROVE InProgressHasWorker'
    <2>1. PICK label \in Labels :
            /\ StartWork(t, i, "fixer", "full", label)
            /\ UNCHANGED status \/ SetStatus(i, "FIX_IN_PROGRESS")
      BY <1>5 DEF FixerStart, Labels
    <2>2. CASE UNCHANGED status
      <3>1. SetStatus(i, status[i]) /\ status[i] \in Status
        BY <2>2 DEF SetStatus, TypeOK
      <3> QED  BY <1>a, <2>1, <3>1
    <2>3. CASE SetStatus(i, "FIX_IN_PROGRESS")
      BY <1>a, <2>1, <2>3
    <2> QED  BY <2>1, <2>2, <2>3
  <1>6. ASSUME NEW t \in Task, VerifierStart(t, i) PROVE InProgressHasWorker'
    <2>1. /\ inc[t] = NoIncident /\ status' = status /\ abandoned' = abandoned
          /\ \A u \in Task \ {t} : inc'[u] = inc[u] /\ caller'[u] = caller[u]
      BY <1>6 DEF VerifierStart, Start, ControlOK, TypeOK, rowVars, history
    <2>2. \A j \in Incident : Busy(j) \subseteq Busy(j)'
      BY <2>1, ConstantsAssumption DEF Busy
    <2> QED  BY <2>1, <2>2 DEF InProgressHasWorker
  <1>7. CASE Reject(i) \/ Resolve(i) \/ FixerAsk(i)
    BY <1>7, <1>b DEF Reject, Resolve, FixerAsk, InProgress, taskVars, history
  <1> QED
    BY <1>1, <1>2, <1>3, <1>4, <1>5, <1>6, <1>7 DEF Arrive

\* An in-progress status is somebody's: a task that will replace it is running, unless
\* one gave up without a word, whatever the entry points, restarts and redeliveries.
THEOREM SomebodyWorks == Spec => []InProgressHasWorker
  <1>1. Init => InProgressHasWorker
    BY DEF Init, InProgressHasWorker, InProgress
  <1>2. ASSUME TypeOK, ControlOK, InProgressHasWorker, [Next]_vars
        PROVE  InProgressHasWorker'
    <2>1. CASE \E t \in Task : Step(t)
      BY <1>2, <2>1, StepHandsOver, HandsOverSafe
    <2>2. CASE \E i \in Incident : Arrive(i)
      BY <1>2, <2>2, ArriveHasWorker
    <2>3. CASE Restart
      BY <2>3 DEF Restart, rowVars, InProgressHasWorker
    <2>4. CASE UNCHANGED vars
      BY <1>2, <2>4 DEF vars, rowVars, taskVars, history, InProgressHasWorker, Busy
    <2> QED  BY <1>2, <2>1, <2>2, <2>3, <2>4 DEF Next
  <1> QED
    BY <1>1, <1>2, TypeCorrect, PTL DEF Spec

-----------------------------------------------------------------------------
(* Where the tasks are *)

LEMMA PlacedGoes ==
    ASSUME TypeOK, Placed, NEW t \in Task, NEW l, l # "rollback",
           l \in { "read", "write" } => caller[t] \in LockingCallers \union { "fixer" },
           pc' = [pc EXCEPT ![t] = l], UNCHANGED caller
    PROVE  Placed'
  BY DEF Placed, TypeOK

LEMMA PlacedEnds ==
    ASSUME TypeOK, Placed, NEW t \in Task, Done(t)
    PROVE  Placed'
  BY DEF Placed, Done, TypeOK

LEMMA PlacedEnters ==
    ASSUME TypeOK, Placed, NEW t \in Task, caller[t] \in LockingCallers,
           EnterOrWait(t), UNCHANGED caller
    PROVE  Placed'
  BY DEF Placed, EnterOrWait, TypeOK

LEMMA PlacedStep ==
    ASSUME TypeOK, ControlOK, Placed, NEW t \in Task, Step(t)
    PROVE  Placed'
  <1>1. CASE ExecStep(t)
    <2> USE DEF Exec, LockingCallers
    <2>1. CASE Done(t)
      BY <2>1, PlacedEnds
    <2>2. CASE ~Done(t) /\ ~Recheck(t)
      <3>1. PICK l \in { "preflight", "recheck", "enrich", "rca", "fixed", "replay",
                         "escalate", "exception" } :
              pc' = [pc EXCEPT ![t] = l] /\ UNCHANGED caller
        BY <1>1, <2>2
        DEF ExecStep, FreshRca, ArtifactMissing, AlreadyHealthy, Preflight, Rca, RcaRaises,
            DeployOnly, ExecFixed, ExecReplayed, ExecEscalated, ExecRaises,
            ExceptionEscalated, EndExec, Goto, AfterDiagnosis
      <3> QED  BY <3>1, PlacedGoes
    <2>3. CASE Recheck(t)
      BY <2>3, PlacedEnters DEF Recheck
    <2> QED  BY <2>1, <2>2, <2>3
  <1>2. CASE GateStep(t)
    <2> USE DEF LockingCallers
    <2>1. CASE Done(t)
      BY <2>1, PlacedEnds
    <2>2. CASE GateRca(t) \/ GateReplayFailed(t)
      <3>1. caller[t] = "gate" /\ UNCHANGED caller
        BY <2>2 DEF GateRca, GateReplayFailed, ControlOK
      <3>2. CASE EnterOrWait(t)
        BY <3>1, <3>2, PlacedEnters
      <3>3. CASE ~EnterOrWait(t)
        BY <2>2, <3>1, <3>3, PlacedGoes DEF GateRca, GateReplayFailed, GateDecision
      <3> QED  BY <3>2, <3>3
    <2>3. CASE GateFixed(t) \/ (HandleFix(t) /\ ~Done(t))
      BY <2>3, PlacedGoes DEF GateFixed, HandleFix, Goto
    <2>4. CASE \E r \in Replay : GateFinish(t, r)
      BY <2>4 DEF GateFinish, Placed, TypeOK
    <2> QED
      BY <1>2, <2>1, <2>2, <2>3, <2>4 DEF GateStep, GateAsk, GateRaises, HandleFixTested
  <1>3. CASE StageStep(t)
    <2>1. CASE Done(t)
      BY <2>1, PlacedEnds
    <2>2. CASE FixerReplayFailed(t) /\ ~Done(t)
      BY <2>2, PlacedGoes DEF FixerReplayFailed, Goto
    <2>3. CASE \E o \in FixOutcome : RollbackWrite(t, o)
      BY <2>3, PlacedGoes DEF RollbackWrite
    <2> QED
      BY <1>3, <2>1, <2>2, <2>3
      DEF StageStep, FixerFixed, FixerRaises, Verified, RollbackDone, FailAndEscalate
  <1>4. CASE SharedStep(t)
    <2>1. CASE Done(t)
      BY <2>1, PlacedEnds
    <2>2. CASE Acquire(t) \/ CreateTicket(t) \/ FixRead(t) \/ \E o \in Outcomes : FixWrite(t, o)
      BY <2>2, PlacedGoes DEF Acquire, CreateTicket, FixRead, FixWrite, Goto, ControlOK, Placed
    <2> QED
      BY <1>4, <2>1, <2>2 DEF SharedStep, LockTimeout, TicketPushed, PolicyReplayed, EndExec
  <1> QED  BY <1>1, <1>2, <1>3, <1>4 DEF Step

LEMMA PlacedArrives ==
    ASSUME TypeOK, ControlOK, Placed, NEW i \in Incident, Arrive(i)
    PROVE  Placed'
  <1>a. ASSUME NEW t \in Task, NEW c \in EntryPoints, NEW m, NEW l, Start(t, i, c, m, l),
               l \in { "read", "write" } => c = "fixer", l = "rollback" => c = "rollback"
        PROVE  Placed'
    BY <1>a DEF Start, Placed, TypeOK
  <1> USE DEF StartWork
  <1>1. ASSUME NEW t \in Task, Approve(t, i) \/ GenerateSync(t, i) \/ RetryRca(t, i)
                                 \/ Rollback(t, i) \/ VerifierStart(t, i)
        PROVE  Placed'
    BY <1>1, <1>a DEF Approve, GenerateSync, RetryRca, Rollback, VerifierStart
  <1>2. ASSUME NEW t \in Task, Retry(t, i) PROVE Placed'
    BY <1>2, <1>a DEF Retry
  <1>3. ASSUME NEW t \in Task, NEW c \in ExecCallers, Apply(t, i, c) PROVE Placed'
    BY <1>3, <1>a DEF Apply
  <1>4. ASSUME NEW t \in Task, FixerStart(t, i) PROVE Placed'
    BY <1>4, <1>a DEF FixerStart
  <1>5. CASE Reject(i) \/ Resolve(i) \/ FixerAsk(i)
    BY <1>5 DEF Reject, Resolve, FixerAsk, taskVars, Placed
  <1> QED  BY <1>1, <1>2, <1>3, <1>4, <1>5 DEF Arrive

\* Nobody runs whom no entry point started, and only those who take the lock and the
\* event-driven fixer get to read and write the artifact.
THEOREM WellPlaced == Spec => []Placed
  <1>1. Init => Placed
    BY DEF Init, Placed
  <1>2. ASSUME TypeOK, ControlOK, Placed, [Next]_vars PROVE Placed'
    <2>1. CASE Restart
      BY <2>1 DEF Restart, Placed
    <2>2. CASE UNCHANGED vars
      BY <1>2, <2>2 DEF vars, taskVars, Placed
    <2> QED  BY <1>2, <2>1, <2>2, PlacedStep, PlacedArrives DEF Next
  <1> QED  BY <1>1, <1>2, TypeCorrect, PTL DEF Spec

-----------------------------------------------------------------------------
(* No lost update.  Where name and design-time id agree and neither the fixer nor a      *)
(* rollback runs, whoever holds a copy of the artifact holds its lock.                    *)

\* Between two uploads to one artifact there is a fresh read, provided the incident's name
\* is the key its fix is locked by and the two entry points that take no lock are closed:
\* NoLostUpdate is what the per-iFlow lock is for, and these are its exact limits.
THEOREM NothingOverwritten ==
    ASSUME Name = Target, EntryPoints \intersect { "fixer", "rollback" } = {}
    PROVE  Spec => []NoLostUpdate
  <1> DEFINE NoneStale == stale = {}
  <1>1. Init => NoneStale
    BY DEF Init
  <1>2. ASSUME TypeOK, ControlOK, Placed, OneFixPerLock, NoneStale, [Next]_vars
        PROVE  NoneStale'
    <2>1. \A t \in Task : caller[t] \notin { "fixer", "rollback" }
      BY <1>2 DEF Placed
    <2>2. \A t \in Task : pc[t] = "write" => InCritical(t) /\ LockKey(t) = Target[inc[t]]
      BY <1>2, <2>1 DEF Placed, InCritical, WorkingOnArtifact, LockKey
    <2>3. ASSUME NEW t \in Task, pc[t] = "write" PROVE Readers(t, Target[inc[t]]) = {}
      BY <1>2, <2>2, <2>3 DEF OneFixPerLock, Readers
    <2>4. \A t \in Task : pc[t] # "rollback"
      BY <1>2, <2>1 DEF Placed
    <2>5. ASSUME NEW t \in Task, Step(t) PROVE stale' = {}
      <3>1. CASE \E o \in Outcomes : FixWrite(t, o)
        BY <1>2, <2>3, <3>1 DEF FixWrite
      <3>2. CASE ExecStep(t)
        BY <1>2, <3>2
        DEF ExecStep, FreshRca, ArtifactMissing, AlreadyHealthy, Preflight, Rca, RcaRaises,
            Recheck, DeployOnly, ExecFixed, ExecReplayed, ExecEscalated, ExecRaises,
            ExceptionEscalated, history
      <3>3. CASE GateStep(t)
        BY <1>2, <3>3
        DEF GateStep, GateRca, GateAsk, GateReplayFailed, GateRaises, GateFixed, GateFinish,
            HandleFix, HandleFixTested, history
      <3>4. CASE StageStep(t)
        BY <1>2, <2>4, <3>4
        DEF StageStep, FixerReplayFailed, FixerFixed, FixerRaises, Verified, RollbackWrite,
            RollbackDone, history
      <3>5. CASE SharedStep(t) /\ ~\E o \in Outcomes : FixWrite(t, o)
        BY <1>2, <3>5
        DEF SharedStep, Acquire, LockTimeout, CreateTicket, TicketPushed, FixRead,
            PolicyReplayed, history
      <3> QED  BY <2>5, <3>1, <3>2, <3>3, <3>4, <3>5 DEF Step
    <2>6. ASSUME NEW i \in Incident, Arrive(i) PROVE stale' = {}
      BY <1>2, <2>6
      DEF Arrive, Approve, GenerateSync, Retry, RetryRca, Apply, FixerStart, VerifierStart,
          Rollback, Reject, FixerAsk, Resolve, StartWork, history
    <2> QED
      BY <1>2, <2>5, <2>6 DEF Next, Restart, vars, history
  <1>3. NoneStale => NoLostUpdate
    BY DEF NoLostUpdate
  <1> HIDE DEF NoneStale
  <1> QED
    BY <1>1, <1>2, <1>3, TypeCorrect, WellPlaced, MutualExclusion, PTL DEF Spec

-----------------------------------------------------------------------------
(* Escalations.  The gate reports failures without escalating them, so it stays out. *)

Escalation == { "TICKET_CREATED", "FIX_FAILED_UPDATE", "FIX_FAILED_DEPLOY" }

\* A task about to report an escalation has its ticket; one that replays has a fix.
Prepared ==
    \A t \in Task :
      /\ pc[t] \in { "push", "escalate", "exception" } => inc[t] \in ticketed
      /\ pc[t] = "replay" => res[t] \in FixSuccess

\* What a step of t does to them.
KeepsBacked(t) ==
    /\ ticketed \subseteq ticketed'
    /\ \A u \in Task \ {t} : pc'[u] = pc[u] /\ inc'[u] = inc[u] /\ res'[u] = res[u]
    /\ pc'[t] \in { "push", "escalate", "exception" } => inc'[t] \in ticketed'
    /\ pc'[t] = "replay" => res'[t] \in FixSuccess
    /\ \A j \in Incident :
         status'[j] \in Escalation => status'[j] = status[j] \/ j \in ticketed'

LEMMA KeepsBackedSafe ==
    ASSUME Prepared, EscalationBacked, NEW t \in Task, KeepsBacked(t)
    PROVE  Prepared' /\ EscalationBacked'
  <1>1. Prepared'
    BY DEF Prepared, KeepsBacked
  <1>2. EscalationBacked'
    BY DEF EscalationBacked, Escalation, KeepsBacked
  <1> QED  BY <1>1, <1>2

\* The last word of a task.
LEMMA EndsBacked ==
    ASSUME TypeOK, NEW t \in Task, Done(t), NEW s, SetStatus(inc[t], s),
           ticketed \subseteq ticketed', s \in Escalation => inc[t] \in ticketed'
    PROVE  KeepsBacked(t)
  BY DEF KeepsBacked, Done, SetStatus, TypeOK

LEMMA EndExecBacked ==
    ASSUME TypeOK, NEW t \in Task, NEW s, NEW ok \in BOOLEAN, NEW stage,
           NEW recorded \in BOOLEAN, EndExec(t, s, ok, stage, recorded),
           ticketed \subseteq ticketed', s \in Escalation => inc[t] \in ticketed'
    PROVE  KeepsBacked(t)
  BY EndsBacked DEF EndExec, Escalation

\* One that goes on.
LEMMA GoesOnBacked ==
    ASSUME TypeOK, NEW t \in Task, NEW l, pc' = [pc EXCEPT ![t] = l], UNCHANGED inc,
           l = "replay" \/ l \in { "push", "escalate", "exception" } => UNCHANGED res,
           \A u \in Task \ {t} : res'[u] = res[u],
           ticketed \subseteq ticketed', NEW s, SetStatus(inc[t], s),
           s \in Escalation => s = status[inc[t]] \/ inc[t] \in ticketed',
           l \in { "push", "escalate", "exception" } => inc[t] \in ticketed',
           l = "replay" => res[t] \in FixSuccess
    PROVE  KeepsBacked(t)
  BY DEF KeepsBacked, SetStatus, TypeOK

LEMMA LeavesBacked ==
    ASSUME TypeOK, NEW t \in Task, NEW l, pc' = [pc EXCEPT ![t] = l],
           UNCHANGED << inc, status >>,
           \A u \in Task \ {t} : res'[u] = res[u],
           ticketed \subseteq ticketed',
           l \in { "push", "escalate", "exception" } => inc[t] \in ticketed',
           l = "replay" => res'[t] \in FixSuccess
    PROVE  KeepsBacked(t)
  BY DEF KeepsBacked, TypeOK

LEMMA ExecStepBacked ==
    ASSUME TicketStoreFails = FALSE, TypeOK, ControlOK, Prepared, NEW t \in Task, ExecStep(t)
    PROVE  KeepsBacked(t)
  <1> USE DEF Exec, Escalation
  <1>1. CASE FreshRca(t) \/ Rca(t)
    BY <1>1, GoesOnBacked DEF FreshRca, Rca, AfterDiagnosis
  <1>2. CASE ArtifactMissing(t)
    BY <1>2, EndExecBacked DEF ArtifactMissing
  <1>3. CASE AlreadyHealthy(t)
    BY <1>3, EndExecBacked DEF AlreadyHealthy
  <1>4. CASE Preflight(t)
    BY <1>4, GoesOnBacked, LeavesBacked DEF Preflight, Goto, AfterDiagnosis
  <1>5. CASE RcaRaises(t)
    <2>1. CASE caller[t] = "generate_sync"
      BY <1>5, <2>1 DEF RcaRaises, KeepsBacked, Done, TypeOK
    <2>2. CASE caller[t] # "generate_sync"
      BY <1>5, <2>2, EndsBacked DEF RcaRaises
    <2> QED  BY <2>1, <2>2
  <1>6. CASE Recheck(t)
    <2>1. /\ \/ SetStatus(inc[t], "FIX_IN_PROGRESS")
             \/ SetStatus(inc[t], status[inc[t]])
          /\ UNCHANGED << inc, res, ticketed >>
      BY <1>6 DEF Recheck
    <2>2. PICK l \in { "read", "wait" } : pc' = [pc EXCEPT ![t] = l]
      BY <1>6 DEF Recheck, EnterOrWait
    <2> QED  BY <2>1, <2>2, GoesOnBacked
  <1>7. CASE \E o \in FixOutcome : DeployOnly(t, o)
    BY <1>7, LeavesBacked DEF DeployOnly, rowVars, TypeOK
  <1>8. CASE ExecFixed(t)
    <2> DEFINE final == PostFixStatus(res[t], FALSE, "none")
    <2>1. final # "TICKET_CREATED"
      BY PostFixStatusEnds DEF TypeOK, Replay
    <2>2. CASE /\ final \in FixFailed => TicketStoreFails
               /\ EndExec(t, final, FALSE, res[t], TRUE) /\ UNCHANGED ticketed
      <3>1. final \notin Escalation
        BY <2>1, <2>2 DEF FixFailed
      <3> QED  BY <2>2, <3>1, EndExecBacked
    <2>3. CASE \/ res[t] \in FixSuccess /\ Goto(t, "replay") /\ UNCHANGED << status, ticketed >>
               \/ /\ ticketed' = ticketed \union { inc[t] } /\ Goto(t, "escalate")
                  /\ UNCHANGED status
      BY <2>3, LeavesBacked DEF Goto
    <2> QED  BY <1>8, <2>2, <2>3 DEF ExecFixed
  <1>9. CASE \E r \in Replay \ {"none"} : ExecReplayed(t, r)
    <2>1. PICK r \in Replay, p \in BOOLEAN :
            /\ pc[t] = "replay" /\ UNCHANGED ticketed
            /\ EndExec(t, IF r = "failed" THEN "FIX_DEPLOYED" ELSE PostFixStatus(res[t], p, r),
                       TRUE, res[t], TRUE)
      BY <1>9 DEF ExecReplayed
    <2>2. PostFixStatus(res[t], p, r) \notin FixFailed \union { "TICKET_CREATED" }
      BY <2>1, PostFixStatusEnds DEF Prepared, TypeOK
    <2>3. (IF r = "failed" THEN "FIX_DEPLOYED" ELSE PostFixStatus(res[t], p, r)) \notin Escalation
      BY <2>2 DEF FixFailed
    <2> QED  BY <2>1, <2>3, EndExecBacked
  <1>10. CASE ExecEscalated(t)
    BY <1>10, EndExecBacked DEF ExecEscalated, Prepared
  <1>11. CASE ExceptionEscalated(t)
    BY <1>11, EndExecBacked DEF ExceptionEscalated, Prepared
  <1>12. CASE ExecRaises(t)
    BY <1>12, GoesOnBacked DEF ExecRaises, Goto
  <1> QED
    BY <1>1, <1>2, <1>3, <1>4, <1>5, <1>6, <1>7, <1>8, <1>9, <1>10, <1>11, <1>12
    DEF ExecStep

LEMMA GateStepBacked ==
    ASSUME TypeOK, ControlOK, Prepared, NEW t \in Task, caller[t] # "gate", GateStep(t)
    PROVE  KeepsBacked(t)
  <1>1. CASE GateAsk(t)
    BY <1>1 DEF GateAsk, ControlOK
  <1>2. CASE HandleFix(t)
    BY <1>2, LeavesBacked DEF HandleFix, Goto, Done, rowVars, KeepsBacked, TypeOK
  <1>3. CASE HandleFixTested(t)
    BY <1>3, EndsBacked DEF HandleFixTested, Escalation
  <1> QED
    BY <1>1, <1>2, <1>3
    DEF GateStep, GateRca, GateReplayFailed, GateRaises, GateFixed, GateFinish, ControlOK

LEMMA StageStepBacked ==
    ASSUME TicketStoreFails = FALSE, TypeOK, ControlOK, Prepared, NEW t \in Task, StageStep(t)
    PROVE  KeepsBacked(t)
  <1> USE DEF Escalation
  <1>a. ASSUME NEW s, FailAndEscalate(t, s) PROVE KeepsBacked(t)
    BY <1>a, EndsBacked DEF FailAndEscalate
  <1>1. CASE FixerReplayFailed(t)
    BY <1>1, LeavesBacked, GoesOnBacked, EndsBacked DEF FixerReplayFailed, Goto
  <1>2. CASE FixerFixed(t)
    <2>1. res[t] \in FixSuccess => PostFixStatus(res[t], FALSE, "none") \notin Escalation
      BY PostFixStatusEnds DEF TypeOK, Replay, FixFailed
    <2> QED  BY <1>2, <1>a, <2>1, EndsBacked DEF FixerFixed
  <1>3. CASE FixerRaises(t)
    BY <1>3, <1>a DEF FixerRaises
  <1>4. CASE Verified(t)
    <2>1. PICK s : SetStatus(inc[t], s) /\ s \in { "FIX_VERIFIED", "FIX_FAILED_RUNTIME", status[inc[t]] }
      BY <1>4 DEF Verified
    <2> QED  BY <1>4, <2>1 DEF Verified, KeepsBacked, Done, SetStatus, TypeOK
  <1>5. CASE \E o \in FixOutcome : RollbackWrite(t, o)
    BY <1>5, LeavesBacked DEF RollbackWrite, rowVars, TypeOK
  <1>6. CASE RollbackDone(t)
    BY <1>6, EndsBacked DEF RollbackDone
  <1> QED
    BY <1>1, <1>2, <1>3, <1>4, <1>5, <1>6 DEF StageStep

LEMMA SharedStepBacked ==
    ASSUME TicketStoreFails = FALSE, TypeOK, ControlOK, Prepared, NEW t \in Task,
           caller[t] # "gate", SharedStep(t)
    PROVE  KeepsBacked(t)
  <1> USE DEF Escalation
  <1>1. CASE Acquire(t)
    <2>1. /\ SetStatus(inc[t], "FIX_IN_PROGRESS") /\ pc' = [pc EXCEPT ![t] = "read"]
          /\ UNCHANGED << inc, res, ticketed >>
      BY <1>1 DEF Acquire, Goto
    <2> QED  BY <2>1 DEF KeepsBacked, SetStatus, TypeOK
  <1>2. CASE LockTimeout(t)
    <2>1. /\ EndExec(t, status[inc[t]], FALSE, "lock_timeout", FALSE)
          /\ UNCHANGED ticketed
      BY <1>2 DEF LockTimeout
    <2>2. \A j \in Incident : status'[j] \in Escalation => status'[j] = status[j]
      BY <2>1 DEF EndExec, SetStatus, TypeOK
    <2> QED  BY <2>1, <2>2 DEF KeepsBacked, EndExec, Done, TypeOK
  <1>3. CASE CreateTicket(t)
    BY <1>3, LeavesBacked DEF CreateTicket, Goto
  <1>4. CASE TicketPushed(t)
    BY <1>4, EndsBacked, EndExecBacked DEF TicketPushed, Prepared
  <1>5. CASE FixRead(t)
    BY <1>5, LeavesBacked DEF FixRead, Goto
  <1>6. CASE \E o \in Outcomes : FixWrite(t, o)
    BY <1>6, LeavesBacked DEF FixWrite, rowVars, TypeOK
  <1>7. CASE PolicyReplayed(t)
    BY <1>7, EndsBacked DEF PolicyReplayed
  <1> QED
    BY <1>1, <1>2, <1>3, <1>4, <1>5, <1>6, <1>7 DEF SharedStep

LEMMA ArriveBacked ==
    ASSUME TypeOK, NEW i \in Incident, Arrive(i), Prepared, EscalationBacked
    PROVE  Prepared' /\ EscalationBacked'
  <1> USE DEF Escalation
  <1>a. ASSUME NEW t \in Task, NEW c, NEW m, NEW l, Start(t, i, c, m, l),
               l \notin { "push", "escalate", "exception", "replay" }, UNCHANGED ticketed,
               \A j \in Incident : status'[j] \in Escalation => status'[j] = status[j]
        PROVE  Prepared' /\ EscalationBacked'
    <2>1. KeepsBacked(t)
      BY <1>a DEF KeepsBacked, Start, TypeOK
    <2> QED  BY <2>1, KeepsBackedSafe
  <1> USE DEF StartWork, SetStatus, TypeOK
  <1>1. ASSUME NEW t \in Task, Approve(t, i) \/ GenerateSync(t, i) \/ RetryRca(t, i)
                                 \/ Rollback(t, i) \/ VerifierStart(t, i)
        PROVE  Prepared' /\ EscalationBacked'
    BY <1>1, <1>a DEF Approve, GenerateSync, RetryRca, Rollback, VerifierStart, rowVars
  <1>2. ASSUME NEW t \in Task, Retry(t, i) PROVE Prepared' /\ EscalationBacked'
    BY <1>2, <1>a DEF Retry
  <1>3. ASSUME NEW t \in Task, NEW c \in ExecCallers, Apply(t, i, c)
        PROVE  Prepared' /\ EscalationBacked'
    BY <1>3, <1>a DEF Apply
  <1>4. ASSUME NEW t \in Task, FixerStart(t, i) PROVE Prepared' /\ EscalationBacked'
    BY <1>4, <1>a DEF FixerStart
  <1>5. CASE Reject(i) \/ Resolve(i) \/ FixerAsk(i)
    BY <1>5 DEF Reject, Resolve, FixerAsk, taskVars, Prepared, EscalationBacked
  <1> QED  BY <1>1, <1>2, <1>3, <1>4, <1>5 DEF Arrive

\* Whichever fix path wrote it, a status that tells the operator of an escalation has its
\* ticket, where tickets can be stored and retry_rca, whose gate reports a failed fix
\* without escalating it, is not used.
THEOREM TicketBehindEscalation ==
    ASSUME "gate" \notin EntryPoints, TicketStoreFails = FALSE
    PROVE  Spec => []EscalationBacked
  <1>1. Init => Prepared /\ EscalationBacked
    BY DEF Init, Prepared, EscalationBacked
  <1>2. ASSUME TypeOK, ControlOK, Placed, Prepared, EscalationBacked, [Next]_vars
        PROVE  Prepared' /\ EscalationBacked'
    <2>1. ASSUME NEW t \in Task, Step(t) PROVE Prepared' /\ EscalationBacked'
      <3>1. caller[t] # "gate"
        BY <1>2 DEF Placed
      <3>2. KeepsBacked(t)
        BY <1>2, <2>1, <3>1, ExecStepBacked, GateStepBacked, StageStepBacked, SharedStepBacked
        DEF Step
      <3> QED  BY <1>2, <3>2, KeepsBackedSafe
    <2>2. CASE Restart
      BY <1>2, <2>2 DEF Restart, rowVars, Prepared, EscalationBacked
    <2>3. CASE UNCHANGED vars
      BY <1>2, <2>3 DEF vars, rowVars, taskVars, Prepared, EscalationBacked
    <2> QED  BY <1>2, <2>1, <2>2, <2>3, ArriveBacked DEF Next
  <1> QED
    BY <1>1, <1>2, TypeCorrect, WellPlaced, PTL DEF Spec

=============================================================================
