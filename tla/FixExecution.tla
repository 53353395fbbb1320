---------------------------- MODULE FixExecution ----------------------------
(***************************************************************************)
(* The ways an incident gets fixed, running side by side in one asyncio    *)
(* process: execute_incident_fix (started by approve, generate_fix,        *)
(* apply_fix and retry_fix), remediation_gate (started by retry_rca), the  *)
(* event-driven fixer and verifier tasks, rollback, and the synchronous    *)
(* reject and resolve endpoints.                                           *)
(*                                                                         *)
(* A task runs without interruption from one await to the next, so every   *)
(* action below is one such segment.  What an LLM, SAP CPI or the ITSM     *)
(* system answers is a nondeterministic choice.                            *)
(***************************************************************************)
EXTENDS IncidentStatus, Naturals

CONSTANTS
    Incident,          \* rows of EM_INCIDENTS
    NoIncident,        \* the incident of a task that is not running
    Task,              \* concurrently running coroutines, a bound of the model
    Key,               \* iFlow identifiers: names and design-time ids
    Name,              \* Name[i]: the incident's iflow_id
    Target,            \* Target[i]: designtime_artifact_id or, without one, iflow_id
    EntryPoints,       \* the ways in that an instance exercises
    Outcomes,          \* what apply_fix may return in an instance
    MaxRetryAttempts,  \* _MAX_RETRY_ATTEMPTS
    Redeliver,         \* whether the broker may deliver a message again
    CanCrash,          \* whether the process may restart
    TicketStoreFails   \* whether creating an escalation ticket may raise

AllEntryPoints ==
    { "approve", "reject", "generate_sync", "apply", "apply_sync", "retry",
      "resolve", "rollback", "gate", "fixer", "verifier" }

ExecCallers == { "approve", "generate_sync", "apply", "apply_sync", "retry" }

ASSUME ConstantsAssumption ==
    /\ NoIncident \notin Incident
    /\ Name \in [Incident -> Key] /\ Target \in [Incident -> Key]
    /\ EntryPoints \subseteq AllEntryPoints
    /\ Outcomes \subseteq FixOutcome
    /\ MaxRetryAttempts \in Nat
    /\ { Redeliver, CanCrash, TicketStoreFails } \subseteq BOOLEAN

VARIABLES
    status,      \* EM_INCIDENTS.status
    actionable,  \* incidents whose root_cause and proposed_fix are both stored
    lastStage,   \* what retry_fix tells apart of last_failed_stage
    retries,     \* retry_count
    ticketed,    \* incidents with a row in EM_ESCALATION_TICKETS
    snapshots,   \* incidents with iflow_snapshot_before
    queue,       \* stage messages the broker may deliver
    pc, caller, inc, mode, res,   \* the tasks: where, for whom, on what, how it went
    act,         \* tasks whose working copy holds an actionable fix
    locked,      \* keys whose asyncio.Lock in _iflow_fix_locks is held
    stale,       \* history: tasks whose XML was overwritten since they read it
    abandoned   \* history: incidents a task gave up on without a final status

rowVars  == << status, actionable, lastStage, retries, ticketed, snapshots >>
taskVars == << pc, caller, inc, mode, act, res >>
history  == << stale, abandoned >>
vars     == << rowVars, queue, taskVars, locked, history >>

Callers == ExecCallers \union { "gate", "fixer", "verifier", "handle_fix", "rollback" }
Modes   == { "full", "deploy_only" }
Stages  == { "deploy", "locked", "rca", "other" }
Labels  == { "idle", "freshrca", "preflight", "rca", "enrich", "push", "recheck",
             "wait", "read", "write", "fixed", "replay", "escalate", "exception",
             "gate_rca", "policy_replay", "verify", "test", "rollback", "restored" }

\* retry_fix only asks whether the stage was "deploy", "locked" or one of these;
\* a success stores NULL, which it reads as "unknown".
StageClass(stage) ==
    CASE stage = "deploy" -> "deploy"
      [] stage = "locked" -> "locked"
      [] stage \in { "update", "agent", "unknown", "ok" } -> "rca"
      [] OTHER -> "other"

TypeOK ==
    /\ status \in [Incident -> Status]
    /\ actionable \subseteq Incident
    /\ lastStage \in [Incident -> Stages]
    /\ retries \in [Incident -> 0 .. MaxRetryAttempts]
    /\ ticketed \subseteq Incident
    /\ snapshots \subseteq Incident
    /\ queue \subseteq { "fixer", "verifier" } \X Incident
    /\ pc \in [Task -> Labels]
    /\ caller \in [Task -> Callers \union { "none" }]
    /\ inc \in [Task -> Incident \union { NoIncident }]
    /\ mode \in [Task -> Modes]
    /\ act \subseteq Task
    /\ res \in [Task -> FixOutcome \union { "none" }]
    /\ locked \subseteq Key
    /\ stale \subseteq Task
    /\ abandoned \subseteq Incident

\* An incident here has been through RCA and its fixer message is on its way.
Init ==
    /\ status = [i \in Incident |-> "RCA_COMPLETE"]
    /\ actionable \in SUBSET Incident
    /\ lastStage = [i \in Incident |-> "rca"]
    /\ retries = [i \in Incident |-> 0]
    /\ ticketed = {}
    /\ snapshots = {}
    /\ queue = { "fixer" } \X Incident
    /\ pc = [t \in Task |-> "idle"]
    /\ caller = [t \in Task |-> "none"]
    /\ inc = [t \in Task |-> NoIncident]
    /\ mode = [t \in Task |-> "full"]
    /\ act = {}
    /\ res = [t \in Task |-> "none"]
    /\ locked = {}
    /\ stale = {} /\ abandoned = {}

-----------------------------------------------------------------------------
(* The tasks *)

Start(t, i, c, m, label) ==
    /\ pc[t] = "idle"
    /\ pc' = [pc EXCEPT ![t] = label]
    /\ caller' = [caller EXCEPT ![t] = c]
    /\ inc' = [inc EXCEPT ![t] = i]
    /\ mode' = [mode EXCEPT ![t] = m]
    /\ act' = IF i \in actionable THEN act \union {t} ELSE act \ {t}
    /\ UNCHANGED res

Goto(t, label) ==
    /\ pc' = [pc EXCEPT ![t] = label]
    /\ UNCHANGED << caller, inc, mode, act, res >>

Done(t) ==
    /\ pc' = [pc EXCEPT ![t] = "idle"]
    /\ caller' = [caller EXCEPT ![t] = "none"]
    /\ inc' = [inc EXCEPT ![t] = NoIncident]
    /\ mode' = [mode EXCEPT ![t] = "full"]
    /\ act' = act \ {t}
    /\ res' = [res EXCEPT ![t] = "none"]

SetStatus(i, s) == status' = [status EXCEPT ![i] = s]

\* The row and the task's working copy take what RCA found: a fix, or not enough.
StoreRca(t) ==
    \/ act' = act \union {t} /\ actionable' = actionable \union { inc[t] }
    \/ act' = act \ {t} /\ actionable' = actionable \ { inc[t] }

-----------------------------------------------------------------------------
(* The per-iFlow locks *)

LockingCallers == ExecCallers \union { "gate" }

\* The gate looks its lock up by iflow_id, execute_incident_fix by design-time id.
LockKey(t) == IF caller[t] = "gate" THEN Name[inc[t]] ELSE Target[inc[t]]

WorkingOnArtifact == { "read", "write", "fixed", "replay", "escalate", "exception" }

\* Between a successful acquire and the release in the finally block.
InCritical(t) == caller[t] \in LockingCallers /\ pc[t] \in WorkingOnArtifact

Waiters(k) == { t \in Task : pc[t] = "wait" /\ LockKey(t) = k }

\* Mutated form: newcomers overtake the tasks that wait.
EnterOrWait_Barging(t) ==
    LET free == LockKey(t) \notin locked
    IN  /\ pc' = [pc EXCEPT ![t] = IF free THEN "read" ELSE "wait"]
        /\ locked' = IF free THEN locked \union { LockKey(t) } ELSE locked

\* Mutated form: _get_iflow_fix_lock hands out a new lock on every call.
EnterOrWait_FreshLock(t) ==
    /\ pc' = [pc EXCEPT ![t] = "read"]
    /\ locked' = locked \union { LockKey(t) }

\* acquire() on a free lock without waiters does not suspend.
EnterOrWait(t) ==
    LET free == LockKey(t) \notin locked /\ Waiters(LockKey(t)) = {}
    IN  /\ pc' = [pc EXCEPT ![t] = IF free THEN "read" ELSE "wait"]
        /\ locked' = IF free THEN locked \union { LockKey(t) } ELSE locked

\* Mutated form: no finally block.
Release_Never(t) == UNCHANGED locked

\* finally: if lock.locked(): lock.release()
Release(t) == locked' = locked \ { LockKey(t) }

-----------------------------------------------------------------------------
(* execute_incident_fix and the endpoints that start it *)

\* A new worker on the incident takes over from one that gave up.
StartWork(t, i, c, m, label) ==
    /\ Start(t, i, c, m, label)
    /\ abandoned' = abandoned \ {i}
    /\ UNCHANGED << stale, locked, actionable, lastStage, ticketed, snapshots >>

\* approve_fix, and generate_fix in the background, which accepts more statuses.
Approve(t, i) ==
    /\ "approve" \in EntryPoints
    /\ status[i] \in Generatable
    /\ StartWork(t, i, "approve", "full", "preflight")
    /\ SetStatus(i, "FIX_IN_PROGRESS")
    /\ UNCHANGED << retries, queue >>

Reject(i) ==
    /\ "reject" \in EntryPoints
    /\ status[i] \in Approvable
    /\ SetStatus(i, "REJECTED")
    /\ UNCHANGED << actionable, lastStage, retries, ticketed, snapshots, queue,
                    taskVars, locked, history >>

\* generate_fix?sync=true awaits the fix in the request and claims no status first.
GenerateSync(t, i) ==
    /\ "generate_sync" \in EntryPoints
    /\ status[i] \in Generatable
    /\ StartWork(t, i, "generate_sync", "full", "preflight")
    /\ UNCHANGED << status, retries, queue >>

\* apply_fix.  A fix in the request body makes up for one the row lacks, but only in
\* the guard: the background task works from the row.  force=true skips AlreadyHealthy,
\* a step that need not be taken anyway.
Apply(t, i, c) ==
    /\ c \in EntryPoints \intersect { "apply", "apply_sync" }
    /\ status[i] \notin ApplyBlocked
    /\ StartWork(t, i, c, "full", "preflight")
    /\ SetStatus(i, "FIX_IN_PROGRESS")
    /\ UNCHANGED << retries, queue >>

\* Mutated form: off by one.
RetryBudget_OneMore(i) == retries[i] <= MaxRetryAttempts

RetryBudget(i) == retries[i] < MaxRetryAttempts

\* retry_fix; a low-confidence one runs RCA first.
Retry(t, i) ==
    /\ "retry" \in EntryPoints
    /\ status[i] \in FixRetryable
    /\ RetryBudget(i)
    /\ lastStage[i] # "locked"
    /\ \E m \in Modes, label \in { "preflight", "freshrca" } :
         /\ m = "deploy_only" <=>
              lastStage[i] = "deploy" \/ status[i] = "FIX_APPLIED_PENDING_VERIFICATION"
         /\ label = "freshrca" => m = "full" /\ lastStage[i] = "rca"
         /\ StartWork(t, i, "retry", m, label)
         /\ SetStatus(i, IF label = "freshrca" THEN "RCA_IN_PROGRESS"
                                               ELSE "FIX_IN_PROGRESS")
    /\ retries' = [retries EXCEPT ![i] = @ + 1]
    /\ UNCHANGED queue

\* The new RCA of a low-confidence retry: RCA_COMPLETE and, at once, FIX_IN_PROGRESS.
FreshRca(t) ==
    /\ pc[t] = "freshrca"
    /\ StoreRca(t)
    /\ SetStatus(inc[t], "FIX_IN_PROGRESS")
    /\ pc' = [pc EXCEPT ![t] = "preflight"]
    /\ UNCHANGED << lastStage, retries, ticketed, snapshots, queue, caller, inc,
                    mode, res, locked, history >>

\* Mutated form: only the caller writes a status when the fix returns.
EndExec_CallerOnly(t, s, ok, stage, recorded) ==
    /\ SetStatus(inc[t], IF caller[t] # "apply" THEN status[inc[t]]
                         ELSE IF ok THEN "AUTO_FIXED" ELSE "FIX_FAILED")
    /\ UNCHANGED lastStage
    /\ Done(t)

(***************************************************************************)
(* execute_incident_fix returns: its own last update of the row (s, and    *)
(* the stage when it records one), then what the caller adds before the    *)
(* next await.  apply_fix's background task overwrites s with AUTO_FIXED   *)
(* or FIX_FAILED; retry_fix only rewrites the stage.                       *)
(***************************************************************************)
EndExec(t, s, ok, stage, recorded) ==
    /\ SetStatus(inc[t], IF caller[t] # "apply" THEN s
                         ELSE IF ok THEN "AUTO_FIXED" ELSE "FIX_FAILED")
    /\ lastStage' = [lastStage EXCEPT ![inc[t]] =
            IF recorded \/ (~ok /\ caller[t] \in { "apply", "retry" })
              THEN StageClass(stage) ELSE @]
    /\ Done(t)

\* That last update also writes back the RCA the fix was made from.
RepeatRca(t) ==
    actionable' = IF t \in act THEN actionable \union { inc[t] } ELSE actionable \ { inc[t] }

Exec(t, label) == caller[t] \in ExecCallers /\ pc[t] = label

\* verify_iflow_exists, before the fix or again right before it is applied.
ArtifactMissing(t) ==
    /\ Exec(t, "preflight") \/ Exec(t, "recheck")
    /\ EndExec(t, "ARTIFACT_MISSING", FALSE, "verification", FALSE)
    /\ UNCHANGED << actionable, retries, ticketed, snapshots, queue, locked, history >>

\* The runtime artifact is Started: "a human has likely fixed it manually".
AlreadyHealthy(t) ==
    /\ Exec(t, "preflight")
    /\ EndExec(t, "FIX_VERIFIED", TRUE, "unknown", FALSE)
    /\ UNCHANGED << actionable, retries, ticketed, snapshots, queue, locked, history >>

\* Unfixable root causes are escalated, except on a deploy-only pass.
AfterDiagnosis(t) == { "recheck" } \union (IF mode[t] = "deploy_only" THEN {} ELSE { "enrich" })

\* Needs a fix: use the stored RCA, a proven pattern's, or run RCA.
Preflight(t) ==
    /\ Exec(t, "preflight")
    /\ \/ /\ t \in act
          /\ \E label \in AfterDiagnosis(t) : Goto(t, label)
          /\ UNCHANGED << status, actionable >>
       \/ /\ t \notin act
          /\ \E label \in AfterDiagnosis(t) : pc' = [pc EXCEPT ![t] = label]
          /\ act' = act \union {t}
          /\ actionable' = actionable \union { inc[t] }
          /\ SetStatus(inc[t], "RCA_COMPLETE")
          /\ UNCHANGED << caller, inc, mode, res >>
       \/ /\ t \notin act
          /\ Goto(t, "rca")
          /\ SetStatus(inc[t], "RCA_IN_PROGRESS")
          /\ UNCHANGED actionable
    /\ UNCHANGED << lastStage, retries, ticketed, snapshots, queue, locked, history >>

Rca(t) ==
    /\ Exec(t, "rca")
    /\ StoreRca(t)
    /\ \E label \in AfterDiagnosis(t) : pc' = [pc EXCEPT ![t] = label]
    /\ SetStatus(inc[t], "RCA_COMPLETE")
    /\ UNCHANGED << lastStage, retries, ticketed, snapshots, queue, caller, inc,
                    mode, res, locked, history >>

\* run_rca raises outside the try block: the caller reports it, except the
\* synchronous generate_fix, which answers HTTP 500 and leaves the row alone.
RcaRaises(t) ==
    /\ Exec(t, "rca") \/ Exec(t, "freshrca")
    /\ IF caller[t] = "generate_sync"
         THEN abandoned' = abandoned \union {inc[t]} /\ UNCHANGED << status, lastStage >>
         ELSE /\ SetStatus(inc[t], "FIX_FAILED")
              /\ lastStage' = [lastStage EXCEPT ![inc[t]] =
                                 IF caller[t] = "approve" THEN @ ELSE "rca"]
              /\ UNCHANGED abandoned
    /\ Done(t)
    /\ UNCHANGED << actionable, retries, ticketed, snapshots, queue, locked, stale >>

\* Ask for the lock; execute_incident_fix claims the incident once it has it.
Recheck(t) ==
    /\ Exec(t, "recheck")
    /\ EnterOrWait(t)
    /\ SetStatus(inc[t], IF pc'[t] = "read" THEN "FIX_IN_PROGRESS" ELSE status[inc[t]])
    /\ UNCHANGED << actionable, lastStage, retries, ticketed, snapshots, queue, caller,
                    inc, mode, act, res, history >>

Acquire(t) ==
    /\ pc[t] = "wait"
    /\ LockKey(t) \notin locked
    /\ locked' = locked \union { LockKey(t) }
    /\ Goto(t, "read")
    /\ SetStatus(inc[t], IF caller[t] = "gate" THEN status[inc[t]] ELSE "FIX_IN_PROGRESS")
    /\ UNCHANGED << actionable, lastStage, retries, ticketed, snapshots, queue, history >>

\* After 60 s execute_incident_fix returns lock_timeout without touching the row;
\* after 2 s the gate hands the incident to a human.
LockTimeout(t) ==
    /\ pc[t] = "wait"
    /\ IF caller[t] = "gate"
         THEN /\ SetStatus(inc[t], "AWAITING_APPROVAL")
              /\ Done(t)
              /\ UNCHANGED << lastStage, abandoned >>
         ELSE /\ EndExec(t, status[inc[t]], FALSE, "lock_timeout", FALSE)
              /\ abandoned' = IF caller[t] = "apply" THEN abandoned
                              ELSE abandoned \union {inc[t]}
    /\ UNCHANGED << actionable, retries, ticketed, snapshots, queue, locked, stale >>

-----------------------------------------------------------------------------
(* Escalation through _create_external_ticket, and the fix itself *)

\* Mutated form: the enrichment raises, the exception is swallowed, nothing is stored.
CreateTicket_Swallowed(t) ==
    /\ pc[t] = "enrich"
    /\ Goto(t, "push")
    /\ UNCHANGED << rowVars, queue, locked, history >>

\* The LLM has enriched the ticket: store it, then push it to the ITSM system.
\* A failure to store it is swallowed.
CreateTicket(t) ==
    /\ pc[t] = "enrich"
    /\ \/ ticketed' = ticketed \union { inc[t] }
       \/ TicketStoreFails /\ UNCHANGED ticketed
    /\ Goto(t, "push")
    /\ UNCHANGED << status, actionable, lastStage, retries, snapshots, queue, locked,
                    history >>

\* Whatever came of the ticket, the incident says it exists.
TicketPushed(t) ==
    /\ pc[t] = "push"
    /\ IF caller[t] \in ExecCallers
         THEN EndExec(t, "TICKET_CREATED", FALSE, "unfixable", FALSE)
         ELSE SetStatus(inc[t], "TICKET_CREATED") /\ Done(t) /\ UNCHANGED lastStage
    /\ UNCHANGED << actionable, retries, ticketed, snapshots, queue, locked, history >>

\* get-iflow; execute_incident_fix also stores what it read as the snapshot.
FixRead(t) ==
    /\ pc[t] = "read" /\ mode[t] # "deploy_only"
    /\ stale' = stale \ {t}
    /\ \/ caller[t] \in ExecCallers /\ snapshots' = snapshots \union { inc[t] }
       \/ UNCHANGED snapshots
    /\ Goto(t, "write")
    /\ UNCHANGED << status, actionable, lastStage, retries, ticketed, queue, locked,
                    abandoned >>

\* The tasks that hold a copy of artifact k which an upload by t makes out of date.
Readers(t, k) == { u \in Task \ {t} : pc[u] = "write" /\ Target[inc[u]] = k }

\* update-iflow, deploy-iflow and the further passes, up to the result o; FixSupervisor
\* has the details.  Other outcomes than these may have uploaded something, too.
FixWrite(t, o) ==
    /\ pc[t] = "write"
    /\ o \in Outcomes
    /\ \E uploaded \in BOOLEAN :
         /\ o \in Uploaded => uploaded
         /\ stale' = (stale \ {t})
                       \union (IF uploaded THEN Readers(t, Target[inc[t]]) ELSE {})
    /\ res' = [res EXCEPT ![t] = o]
    /\ pc' = [pc EXCEPT ![t] = "fixed"]
    /\ UNCHANGED << rowVars, queue, caller, inc, mode, act, locked, abandoned >>

\* ask_deploy_only: its steps never contain an update-iflow, which
\* evaluate_fix_result takes for a failed update; only the poll after a timeout
\* can report success.
DeployOnly(t, o) ==
    /\ pc[t] = "read" /\ mode[t] = "deploy_only"
    /\ o \in { "ok", "update", "pending_deploy", "deploy", "tool_validation" }
    /\ res' = [res EXCEPT ![t] = o]
    /\ pc' = [pc EXCEPT ![t] = "fixed"]
    /\ UNCHANGED << rowVars, queue, caller, inc, mode, act, locked, history >>

-----------------------------------------------------------------------------
(* execute_incident_fix: what follows the fix *)

ExecFixed(t) ==
    LET final == PostFixStatus(res[t], FALSE, "none")
    IN  /\ Exec(t, "fixed")
        /\ \/ /\ res[t] \in FixSuccess
              /\ Goto(t, "replay")
              /\ UNCHANGED << status, actionable, lastStage, ticketed, locked >>
           \/ /\ final \in FixFailed
              /\ ticketed' = ticketed \union { inc[t] }
              /\ Goto(t, "escalate")
              /\ UNCHANGED << status, actionable, lastStage, locked >>
           \/ /\ res[t] \notin FixSuccess
              /\ final \in FixFailed => TicketStoreFails
              /\ EndExec(t, final, FALSE, res[t], TRUE)
              /\ RepeatRca(t)
              /\ Release(t)
              /\ UNCHANGED ticketed
        /\ UNCHANGED << retries, snapshots, queue, history >>

\* A replay that was attempted and failed keeps the fix unverified.
ExecReplayed(t, r) ==
    /\ Exec(t, "replay")
    /\ \E p \in BOOLEAN :
         EndExec(t, IF r = "failed" THEN "FIX_DEPLOYED" ELSE PostFixStatus(res[t], p, r),
                 TRUE, res[t], TRUE)
    /\ RepeatRca(t)
    /\ Release(t)
    /\ UNCHANGED << retries, ticketed, snapshots, queue, history >>

ExecEscalated(t) ==
    /\ Exec(t, "escalate")
    /\ EndExec(t, "TICKET_CREATED", FALSE, res[t], TRUE)
    /\ RepeatRca(t)
    /\ Release(t)
    /\ UNCHANGED << retries, ticketed, snapshots, queue, history >>

\* An exception under the lock is itself escalated.
ExecRaises(t) ==
    /\ \/ Exec(t, "read")
       \/ Exec(t, "write")
       \/ Exec(t, "fixed") /\ res[t] \in UploadedOnly   \* get_deploy_error_details
    /\ stale' = stale \ {t}
    /\ \/ /\ ticketed' = ticketed \union { inc[t] }
          /\ SetStatus(inc[t], "FIX_FAILED")
          /\ lastStage' = [lastStage EXCEPT ![inc[t]] = StageClass("agent")]
          /\ Goto(t, "exception")
          /\ UNCHANGED locked
       \/ /\ TicketStoreFails
          /\ EndExec(t, "FIX_FAILED", FALSE, "agent", TRUE)
          /\ Release(t)
          /\ UNCHANGED ticketed
    /\ UNCHANGED << actionable, retries, snapshots, queue, abandoned >>

ExceptionEscalated(t) ==
    /\ Exec(t, "exception")
    /\ EndExec(t, "TICKET_CREATED", FALSE, "agent", FALSE)
    /\ Release(t)
    /\ UNCHANGED << actionable, retries, ticketed, snapshots, queue, history >>

-----------------------------------------------------------------------------
(* retry_rca and the remediation gate *)

RetryRca(t, i) ==
    /\ "gate" \in EntryPoints
    /\ status[i] \notin RcaRetryBlocked
    /\ StartWork(t, i, "gate", "full", "gate_rca")
    /\ SetStatus(i, "RCA_IN_PROGRESS")
    /\ UNCHANGED << retries, queue >>

\* What the gate decides when it does not ask a human, as far as its next await; s is
\* the status until then.  It fixes without claiming FIX_IN_PROGRESS.
GateDecision(t, s) ==
    \/ /\ SetStatus(inc[t], "RCA_INCONCLUSIVE")
       /\ pc' = [pc EXCEPT ![t] = "enrich"]
       /\ UNCHANGED locked
    \/ /\ t \in act'
       /\ SetStatus(inc[t], s)
       /\ EnterOrWait(t)

GateRca(t) ==
    /\ pc[t] = "gate_rca"
    /\ StoreRca(t)
    /\ \/ GateDecision(t, "RCA_COMPLETE")
       \/ /\ SetStatus(inc[t], "RCA_COMPLETE")
          /\ pc' = [pc EXCEPT ![t] = "policy_replay"]
          /\ UNCHANGED locked
    /\ UNCHANGED << lastStage, retries, ticketed, snapshots, queue, caller, inc, mode,
                    res, history >>

\* The gate leaves the incident to a human.
GateAsk(t) ==
    /\ \/ /\ pc[t] = "gate_rca"
          /\ actionable' \in { actionable \union { inc[t] }, actionable \ { inc[t] } }
       \/ pc[t] = "policy_replay" /\ caller[t] = "gate" /\ UNCHANGED actionable
    /\ SetStatus(inc[t], "AWAITING_APPROVAL")
    /\ Done(t)
    /\ UNCHANGED << lastStage, retries, ticketed, snapshots, queue, locked, history >>

GateReplayFailed(t) ==
    /\ pc[t] = "policy_replay" /\ caller[t] = "gate"
    /\ UNCHANGED act
    /\ GateDecision(t, status[inc[t]])
    /\ UNCHANGED << actionable, lastStage, retries, ticketed, snapshots, queue, caller,
                    inc, mode, res, history >>

\* RCA raises, or the fix does while the gate holds the lock.  The text of the exception
\* becomes the root cause, all that a row with a proposed fix may have lacked.
GateRaises(t) ==
    /\ \/ pc[t] = "gate_rca" /\ UNCHANGED << locked, stale >>
       \/ /\ caller[t] = "gate" /\ pc[t] \in { "read", "write" }
          /\ Release(t)
          /\ stale' = stale \ {t}
    /\ SetStatus(inc[t], "RCA_FAILED")
    /\ actionable' \in { actionable, actionable \union { inc[t] } }
    /\ Done(t)
    /\ UNCHANGED << lastStage, retries, ticketed, snapshots, queue, abandoned >>

\* The replay that a RETRY policy tries before any fix succeeded.
PolicyReplayed(t) ==
    /\ pc[t] = "policy_replay"
    /\ SetStatus(inc[t], "RETRIED")
    /\ Done(t)
    /\ UNCHANGED << actionable, lastStage, retries, ticketed, snapshots, queue, locked,
                    history >>

GateFixed(t) ==
    /\ caller[t] = "gate" /\ pc[t] = "fixed"
    /\ res[t] \in FixSuccess
    /\ Goto(t, "replay")
    /\ UNCHANGED << rowVars, queue, locked, history >>

\* The gate's last update, the release, and the task it creates to verify the fix.
GateFinish(t, r) ==
    /\ caller[t] = "gate"
    /\ \/ pc[t] = "fixed" /\ r = "none"
       \/ pc[t] = "replay" /\ r # "none"
    /\ \E p \in BOOLEAN : SetStatus(inc[t], PostFixStatus(res[t], p, r))
    /\ Release(t)
    /\ pc' = [pc EXCEPT ![t] = "verify"]
    /\ caller' = [caller EXCEPT ![t] = "handle_fix"]
    /\ res' = [res EXCEPT ![t] = "none"]
    /\ UNCHANGED << actionable, lastStage, retries, ticketed, snapshots, queue, inc,
                    mode, act, history >>

\* _handle_fix does not test a fix that was not applied.
HandleFix(t) ==
    /\ pc[t] = "verify"
    /\ IF status[inc[t]] \in FixNotApplied THEN Done(t) ELSE Goto(t, "test")
    /\ UNCHANGED << rowVars, queue, locked, history >>

\* It reads test_passed, a key test_iflow_after_fix never returns: it always fails.
HandleFixTested(t) ==
    /\ pc[t] = "test" /\ caller[t] = "handle_fix"
    /\ SetStatus(inc[t], "FIX_FAILED_RUNTIME")
    /\ Done(t)
    /\ UNCHANGED << actionable, lastStage, retries, ticketed, snapshots, queue, locked,
                    history >>

-----------------------------------------------------------------------------
(* The event-driven fixer and verifier *)

\* The broker delivers a message, and with Redeliver may keep it for another time.
Deliver(stage, i) ==
    /\ << stage, i >> \in queue
    /\ queue' \in { queue \ { << stage, i >> } } \union (IF Redeliver THEN {queue} ELSE {})

\* _run_fixer_task up to its first await: escalate, replay, or fix, without a look at
\* the status the incident has and without the lock.
FixerStart(t, i) ==
    /\ "fixer" \in EntryPoints
    /\ Deliver("fixer", i)
    /\ \/ \E label \in { "enrich", "policy_replay" } :
            StartWork(t, i, "fixer", "full", label) /\ UNCHANGED status
       \/ /\ i \in actionable
          /\ StartWork(t, i, "fixer", "full", "read")
          /\ SetStatus(i, "FIX_IN_PROGRESS")
    /\ UNCHANGED retries

\* Medium confidence: the fixer leaves the incident to a human without ever waiting.
FixerAsk(i) ==
    /\ "fixer" \in EntryPoints
    /\ Deliver("fixer", i)
    /\ SetStatus(i, "AWAITING_APPROVAL")
    /\ UNCHANGED << actionable, lastStage, retries, ticketed, snapshots, taskVars, locked,
                    history >>

\* The same decision after a replay under a RETRY policy did not succeed.
FixerReplayFailed(t) ==
    /\ pc[t] = "policy_replay" /\ caller[t] = "fixer"
    /\ \/ Goto(t, "enrich") /\ UNCHANGED status
       \/ t \in act /\ Goto(t, "read") /\ SetStatus(inc[t], "FIX_IN_PROGRESS")
       \/ Done(t) /\ SetStatus(inc[t], "AWAITING_APPROVAL")
    /\ UNCHANGED << actionable, lastStage, retries, ticketed, snapshots, queue, locked,
                    history >>

\* The status of a fix that failed, and then _auto_create_ticket: one ticket at most,
\* and an incident that has one already keeps the failure status.
FailAndEscalate(t, s) ==
    /\ \/ inc[t] \in ticketed /\ SetStatus(inc[t], s) /\ UNCHANGED ticketed
       \/ TicketStoreFails /\ SetStatus(inc[t], s) /\ UNCHANGED ticketed
       \/ /\ inc[t] \notin ticketed
          /\ SetStatus(inc[t], "TICKET_CREATED")
          /\ ticketed' = ticketed \union { inc[t] }
    /\ Done(t)

FixerFixed(t) ==
    LET final == PostFixStatus(res[t], FALSE, "none")
    IN  /\ caller[t] = "fixer" /\ pc[t] = "fixed"
        /\ IF res[t] \in FixSuccess
             THEN /\ SetStatus(inc[t], final)
                  /\ queue' = queue \union { << "verifier", inc[t] >> }
                  /\ Done(t)
                  /\ UNCHANGED ticketed
             ELSE FailAndEscalate(t, final) /\ UNCHANGED queue
        /\ UNCHANGED << actionable, lastStage, retries, snapshots, locked, history >>

FixerRaises(t) ==
    /\ caller[t] = "fixer" /\ pc[t] \in { "read", "write" }
    /\ FailAndEscalate(t, "FIX_FAILED")
    /\ stale' = stale \ {t}
    /\ UNCHANGED << actionable, lastStage, retries, snapshots, queue, locked, abandoned >>

VerifierStart(t, i) ==
    /\ "verifier" \in EntryPoints
    /\ Deliver("verifier", i)
    /\ Start(t, i, "verifier", "full", "test")
    /\ UNCHANGED << rowVars, locked, history >>

\* Without tools to verify with, the fixer's status stands.
Verified(t) ==
    /\ pc[t] = "test" /\ caller[t] = "verifier"
    /\ \E s \in { "FIX_VERIFIED", "FIX_FAILED_RUNTIME", status[inc[t]] } : SetStatus(inc[t], s)
    /\ Done(t)
    /\ UNCHANGED << actionable, lastStage, retries, ticketed, snapshots, queue, locked,
                    history >>

-----------------------------------------------------------------------------
(* Rollback, manual resolution, restarts *)

\* rollback_fix asks only for a snapshot.
Rollback(t, i) ==
    /\ "rollback" \in EntryPoints
    /\ i \in snapshots
    /\ StartWork(t, i, "rollback", "full", "rollback")
    /\ SetStatus(i, "FIX_IN_PROGRESS")
    /\ UNCHANGED << retries, queue >>

\* The agent uploads the snapshot and deploys it, or fails at either.
RollbackWrite(t, o) ==
    /\ pc[t] = "rollback"
    /\ o \in { "ok", "deploy", "update" }
    /\ stale' = stale \union (IF o \in Uploaded THEN Readers(t, Name[inc[t]]) ELSE {})
    /\ res' = [res EXCEPT ![t] = o]
    /\ pc' = [pc EXCEPT ![t] = "restored"]
    /\ UNCHANGED << rowVars, queue, caller, inc, mode, act, locked, abandoned >>

\* Mutated form: a rollback that fails is only logged.
RollbackDone_Logged(t) ==
    /\ pc[t] = "restored"
    /\ Done(t)
    /\ UNCHANGED << rowVars, queue, locked, history >>

\* The steps handed to evaluate_fix_result have empty outputs, in which it finds no
\* update that succeeded: whatever the agent did, the rollback is recorded as failed.
RollbackDone(t) ==
    /\ pc[t] = "restored"
    /\ SetStatus(inc[t], "FIX_FAILED")
    /\ Done(t)
    /\ UNCHANGED << actionable, lastStage, retries, ticketed, snapshots, queue, locked,
                    history >>

\* resolve_incident
Resolve(i) ==
    /\ "resolve" \in EntryPoints
    /\ status[i] \in Resolvable
    /\ SetStatus(i, "FIX_VERIFIED")
    /\ UNCHANGED << actionable, lastStage, retries, ticketed, snapshots, queue, taskVars,
                    locked, history >>

\* The process restarts: tasks and locks are gone, nothing resumes the incidents.
Restart ==
    /\ CanCrash
    /\ \E t \in Task : pc[t] # "idle"
    /\ pc' = [t \in Task |-> "idle"]
    /\ caller' = [t \in Task |-> "none"]
    /\ inc' = [t \in Task |-> NoIncident]
    /\ mode' = [t \in Task |-> "full"]
    /\ act' = {}
    /\ res' = [t \in Task |-> "none"]
    /\ locked' = {}
    /\ stale' = {}
    /\ abandoned' = abandoned \union { i \in Incident : status[i] \in InProgress }
    /\ UNCHANGED << rowVars, queue >>

-----------------------------------------------------------------------------
ExecStep(t) ==
    \/ FreshRca(t) \/ ArtifactMissing(t) \/ AlreadyHealthy(t) \/ Preflight(t)
    \/ Rca(t) \/ RcaRaises(t) \/ Recheck(t)
    \/ (\E o \in FixOutcome : DeployOnly(t, o))
    \/ ExecFixed(t) \/ (\E r \in Replay \ {"none"} : ExecReplayed(t, r))
    \/ ExecEscalated(t) \/ ExecRaises(t) \/ ExceptionEscalated(t)

GateStep(t) ==
    \/ GateRca(t) \/ GateAsk(t) \/ GateReplayFailed(t) \/ GateRaises(t) \/ GateFixed(t)
    \/ (\E r \in Replay : GateFinish(t, r)) \/ HandleFix(t) \/ HandleFixTested(t)

StageStep(t) ==
    \/ FixerReplayFailed(t) \/ FixerFixed(t) \/ FixerRaises(t) \/ Verified(t)
    \/ (\E o \in FixOutcome : RollbackWrite(t, o)) \/ RollbackDone(t)

SharedStep(t) ==
    \/ Acquire(t) \/ LockTimeout(t) \/ CreateTicket(t) \/ TicketPushed(t)
    \/ FixRead(t) \/ (\E o \in Outcomes : FixWrite(t, o)) \/ PolicyReplayed(t)

\* A running task goes on.
Step(t) == ExecStep(t) \/ GateStep(t) \/ StageStep(t) \/ SharedStep(t)

\* A request or a message arrives for incident i.
Arrive(i) ==
    \/ \E t \in Task :
         \/ Approve(t, i) \/ GenerateSync(t, i) \/ Retry(t, i) \/ RetryRca(t, i)
         \/ (\E c \in ExecCallers : Apply(t, i, c))
         \/ FixerStart(t, i) \/ VerifierStart(t, i) \/ Rollback(t, i)
    \/ Reject(i) \/ FixerAsk(i) \/ Resolve(i)

Next ==
    \/ \E t \in Task : Step(t)
    \/ \E i \in Incident : Arrive(i)
    \/ Restart

Spec == Init /\ [][Next]_vars

\* The event loop runs every task that is ready, and every await ends, if only by
\* its timeout.  Requests and messages need never come.
FairSpec == Spec /\ \A t \in Task : WF_vars(Step(t))

-----------------------------------------------------------------------------
(* Properties *)

\* The per-iFlow mutex works: of the coroutines that take the lock of one key, at most
\* one is between acquire and release, and the lock is held exactly when one is.
OneFixPerLock ==
    /\ \A t, u \in Task : InCritical(t) /\ InCritical(u) /\ LockKey(t) = LockKey(u) => t = u
    /\ \A k \in Key : k \in locked <=> \E t \in Task : InCritical(t) /\ LockKey(t) = k

\* "prevents two concurrent fix pipelines writing to the same SAP CPI artifact": nobody
\* is about to upload XML derived from a version that another upload has replaced.
NoLostUpdate == \A t \in Task : pc[t] = "write" => t \notin stale

Busy(i) == { t \in Task : inc[t] = i /\ caller[t] \notin { "verifier", "handle_fix" } }

Mutex ==
    INSTANCE FixMutex WITH
      holders <- [k \in Key |-> { t \in Task : InCritical(t) /\ LockKey(t) = k }],
      waiters <- [k \in Key |-> Waiters(k)]

\* The locks as the fix path uses them implement FixMutex: nobody enters a key that is
\* held, nobody overtakes a waiter, and whoever leaves had entered.
ImplementsMutex == Mutex!Spec

\* An in-progress status is somebody's: a task that will replace it is running, unless
\* one ended without a word (a lock timeout, a failed synchronous RCA, a restart).
InProgressHasWorker ==
    \A i \in Incident : status[i] \in InProgress => Busy(i) # {} \/ i \in abandoned

\* An incident that shows an escalation, or a fix failure that is always escalated, has
\* a row in EM_ESCALATION_TICKETS, whichever of the fix paths wrote the status.
EscalationBacked ==
    \A i \in Incident :
      status[i] \in { "TICKET_CREATED", "FIX_FAILED_UPDATE", "FIX_FAILED_DEPLOY" } => i \in ticketed

\* Every fix-path coroutine lets go of the lock it holds.
LockEventuallyFree == \A k \in Key : []<>(k \notin locked)

\* No incident shows in progress for ever, but for those a task gave up on.
InProgressResolves ==
    \A i \in Incident : status[i] \in InProgress ~> status[i] \notin InProgress \/ i \in abandoned

\* apply_fix: "reject concurrent fix attempts on the same incident".
NoConcurrentAttempts ==
    \A t, u \in Task :
      t # u /\ caller[t] \in ExecCallers /\ caller[u] \in ExecCallers => inc[t] # inc[u]

\* A rollback that restored and deployed the snapshot ends ROLLED_BACK.
RollbackReported ==
    [][\A t \in Task :
         pc[t] = "restored" /\ res[t] = "ok" /\ pc'[t] = "idle"
           => status'[inc[t]] = "ROLLED_BACK"]_vars

=============================================================================
