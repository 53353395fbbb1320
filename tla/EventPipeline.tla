---------------------------- MODULE EventPipeline ----------------------------
(***************************************************************************)
(* From a failed message to a settled incident: the two webhooks that      *)
(* detect errors, the deduplication and numbering of incidents, and the    *)
(* stages observer, rca, fixer and verifier that hand an incident on       *)
(* through Event Mesh or, when a publish fails, in the same coroutine.     *)
(*                                                                         *)
(* A coroutine runs without interruption from one await to the next: every *)
(* action is one such segment.  What a fix does to the iFlow is            *)
(* FixExecution's subject; here the fixer is one await with an outcome.    *)
(***************************************************************************)
EXTENDS IncidentStatus, Integers, Sequences, FiniteSetsExt, Functions

CONSTANTS
    Event,          \* raw error messages CPI sends, one webhook call each
    Failure,        \* failed messages, the entries of the events
    Entries,        \* Entries[e]: the failures one event reports, a sequence
    Sig,            \* signatures: iFlow and error type
    NoSig,          \* the signature no failure has, and the group key NULL
    Unnamed,        \* the signatures without a usable iFlow name
    SigOf,          \* SigOf[f]
    Task,           \* concurrently running coroutines, a bound of the model
    Configs,        \* environments to explore, see ConfigType
    MaxRows,        \* bound on incidents
    MaxCopies       \* bound on equal messages in a queue

StageName == { "observer", "rca", "fixer", "verifier" }

\* doors: the webhooks in use; mesh: whether publishes go to Event Mesh; retype: whether
\* observer and RCA correct the signature; faults: what goes wrong; spare: how many second
\* deliveries, lost answers and stray messages there may be; sends: what CPI sends; burst:
\* whether BURST_DEDUP_WINDOW_SECONDS, a setting, is more than 0.
ConfigType ==
    [ doors : SUBSET { "agents", "events", "legacy" }, mesh : BOOLEAN, retype : BOOLEAN,
      faults : SUBSET { "restart", "database" }, spare : Nat,
      sends : SUBSET Event, burst : BOOLEAN ]

ASSUME ConstantsAssumption ==
    /\ Entries \in [Event -> Seq(Failure) \ {<< >>}]
    /\ Unnamed \subseteq Sig /\ NoSig \notin Sig
    /\ SigOf \in [Failure -> Sig]
    /\ Configs \subseteq ConfigType
    /\ MaxRows \in Nat /\ MaxCopies \in Nat \ {0}

VARIABLES
    cfg,         \* the environment of this behaviour, never changed
    inbox,       \* events the broker has not delivered
    dups,        \* second deliveries, lost answers and stray messages still to come
    rows,        \* EM_INCIDENTS in order of creation
    queue,       \* queue[<<stage, id>>]: copies of the message in Event Mesh
    task,        \* the coroutines
    \* history
    recorded,    \* how many failures were written to the table
    heard,       \* failures some row counts
    dropped,     \* failures a coroutine ended without recording
    uncounted,   \* failures of an incident on the table whose count the database refused
    stranded,    \* incidents whose coroutine ended without handing them on
    diagnosed, fixed, tested   \* ids of incidents that passed these stages

history == << recorded, heard, dropped, uncounted, stranded, diagnosed, fixed, tested >>
vars == << cfg, inbox, dups, rows, queue, task, history >>

Id      == 0 .. MaxRows
Message == StageName \X (Id \ {0})

\* get_open_incident_by_signature, get_recent_incident_by_group_key: "terminal".
Terminal ==
    { "AUTO_FIXED", "FIX_DEPLOYED", "FIX_VERIFIED", "RETRIED", "REJECTED",
      "TICKET_CREATED", "ARTIFACT_MISSING", "FIX_FAILED_RUNTIME" } \union FixFailed

PipelineStatus ==
    Terminal \union InProgress \union
    { "DETECTED", "CLASSIFIED", "OBSERVED", "RCA_COMPLETE", "RCA_FAILED", "OBS_FAILED",
      "AWAITING_APPROVAL", "FIX_APPLIED_PENDING_VERIFICATION", "PARSE_FAILED" }

\* The statuses of an incident that a stage still has to take further.
Moving == InProgress \union { "DETECTED", "CLASSIFIED", "OBSERVED", "RCA_COMPLETE" }

\* act: root cause and proposed fix are stored; n: occurrence_count; esc: auto_escalated;
\* group: the signature incident_group_key was made of; fresh: inside the burst window.
Row == [ id : Id \ {0}, sig : Sig \union {NoSig}, group : Sig \union {NoSig}, st : PipelineStatus, act : BOOLEAN,
         n : Nat, esc : BOOLEAN, fresh : BOOLEAN ]

Labels == { "idle", "classify", "ticket", "meta", "breaker", "lookup", "publish", "accepted",
            "observe", "rca", "fixticket", "replay", "fix", "verify", "test" }

Idle == [ at |-> "idle", todo |-> << >>, id |-> 0, next |-> "none", act |-> FALSE ]

TypeOK ==
    /\ cfg \in Configs
    /\ inbox \subseteq Event
    /\ dups \in 0 .. cfg.spare
    /\ rows \in Seq(Row) /\ Len(rows) <= MaxRows
    /\ queue \in [Message -> 0 .. MaxCopies]
    /\ task \in [Task -> [ at : Labels, todo : Seq(Failure), id : Id,
                           next : StageName \union {"none"}, act : BOOLEAN ]]
    /\ recorded \in Nat
    /\ heard \union dropped \union uncounted \subseteq Failure
    /\ stranded \union diagnosed \union fixed \union tested \subseteq Id

Init ==
    /\ cfg \in Configs
    /\ inbox = cfg.sends
    /\ dups = cfg.spare
    /\ rows = << >>
    /\ queue = [m \in Message |-> 0]
    /\ task = [t \in Task |-> Idle]
    /\ recorded = 0 /\ heard = {} /\ dropped = {} /\ uncounted = {} /\ stranded = {}
    /\ diagnosed = {} /\ fixed = {} /\ tested = {}

-----------------------------------------------------------------------------
(* The incident table: no primary key, so two rows may share an id *)

RowIds(rs) == { rs[k].id : k \in DOMAIN rs }

\* Mutated form: the highest number in use is handed out again.
NextId_Max(rs) == IF rs = << >> THEN 1 ELSE Max(RowIds(rs))

\* Mutated form: the first number is 0.
NextId_Zero(rs) == IF rs = << >> THEN 0 ELSE 1 + Max(RowIds(rs))

\* generate_orbit_id: MAX(incident_id) + 1.
NextId(rs) == IF rs = << >> THEN 1 ELSE 1 + Max(RowIds(rs))

\* With the database out of reach it falls back to the day's first number.
Numbers(rs) == { NextId(rs) } \union (IF "database" \in cfg.faults THEN {1} ELSE {})

NewRow(i, s, st) ==
    [ id |-> i, sig |-> s, group |-> s, st |-> st, act |-> FALSE, n |-> 1,
      esc |-> FALSE, fresh |-> cfg.burst ]

\* UPDATE ... WHERE incident_id = ? reaches every row with that id.
SetWhere(rs, i, Op(_)) == [k \in DOMAIN rs |-> IF rs[k].id = i THEN Op(rs[k]) ELSE rs[k]]

SetStatus(rs, i, st) == SetWhere(rs, i, LAMBDA r : [r EXCEPT !.st = st])

\* The last resort of an incident: a ticket, and no more automatic fixes.
Escalated(rs, i) ==
    SetWhere(rs, i, LAMBDA r : [r EXCEPT !.st = "TICKET_CREATED", !.esc = TRUE])

OpenBySignature(rs, s) == { k \in DOMAIN rs : rs[k].sig = s /\ rs[k].st \notin Terminal }

RecentByGroup(rs, s) ==
    { k \in DOMAIN rs : rs[k].group = s /\ rs[k].fresh /\ rs[k].st \notin Terminal }

\* increment_incident_occurrence reads one of the rows with that id and updates them all,
\* when no statement fails.
Counted(rs, k) == SetWhere(rs, rs[k].id, LAMBDA r : [r EXCEPT !.n = rs[k].n + 1])

\* ORDER BY created_at DESC LIMIT 1.
Newest(S) == Max(S)

-----------------------------------------------------------------------------
(* Handing on *)

\* A coroutine that works through a list of entries goes on with the next one.
Finish(t) ==
    task' = [task EXCEPT ![t] = IF Len(@.todo) <= 1 THEN Idle
                                ELSE [Idle EXCEPT !.at = "meta", !.todo = Tail(task[t].todo)]]

At(t, label, i) == task' = [task EXCEPT ![t].at = label, ![t].id = i]

\* The first segment of a stage's handler, run on the table as rs.
EnterObserver(t, rs, i) ==
    /\ rows' = SetStatus(rs, i, "OBSERVED")
    /\ At(t, "observe", i)

EnterRca(t, rs, i) ==
    /\ rows' = SetStatus(rs, i, "RCA_IN_PROGRESS")
    /\ At(t, "rca", i)

\* Mutated form: auto-fix without a look at the diagnosis.
Decide_Blind(t, rs, i, act) ==
    /\ At(t, "fix", i)
    /\ rows' = SetStatus(rs, i, "FIX_IN_PROGRESS")

\* The decision of the fixer for an incident that has an actionable fix, or has not.
Decide(t, rs, i, act) ==
    \/ At(t, "fixticket", i) /\ rows' = rs
    \/ Finish(t) /\ rows' = SetStatus(rs, i, "AWAITING_APPROVAL")
    \/ /\ act
       /\ At(t, "fix", i)
       /\ rows' = SetStatus(rs, i, "FIX_IN_PROGRESS")

\* get_incident_by_id returns any of the rows with that id.
EnterFixer(t, rs, i) ==
    \E k \in { j \in DOMAIN rs : rs[j].id = i } :
      \/ /\ rows' = rs
         /\ task' = [task EXCEPT ![t].at = "replay", ![t].id = i, ![t].act = rs[k].act]
      \/ Decide(t, rs, i, rs[k].act)

EnterVerifier(t, rs, i) == rows' = rs /\ At(t, "verify", i)

Enter(t, rs, stage, i) ==
    \/ stage = "observer" /\ EnterObserver(t, rs, i)
    \/ stage = "rca" /\ EnterRca(t, rs, i)
    \/ stage = "fixer" /\ EnterFixer(t, rs, i)
    \/ stage = "verifier" /\ EnterVerifier(t, rs, i)

\* publish_to_next: without Event Mesh the next handler runs at once in this coroutine.
Forward(t, rs, stage, i) ==
    IF cfg.mesh
      THEN /\ rows' = rs
           /\ task' = [task EXCEPT ![t].at = "publish", ![t].id = i, ![t].next = stage]
      ELSE Enter(t, rs, stage, i)

\* A lookup swallows an error of the database and finds nothing.
Blind == "database" \in cfg.faults

\* get_incident_by_id finds nothing for a stage: it logs that and ends.
NotFound(t, rs, kept, i) ==
    /\ Blind
    /\ rows' = rs
    /\ Finish(t)
    /\ stranded' = kept \union {i}

\* Handing on, the incidents in kept left behind so far.
HandOn(t, rs, kept, stage, i) ==
    \/ Forward(t, rs, stage, i) /\ stranded' = kept
    \/ ~cfg.mesh /\ NotFound(t, rs, kept, i)

\* A stage begins, on the table as it is.
Begin(t) ==
    \/ Enter(t, rows, task[t].next, task[t].id) /\ UNCHANGED stranded
    \/ NotFound(t, rows, stranded, task[t].id)

Accept(stage, i) ==
    queue' = [queue EXCEPT ![<< stage, i >>] = IF @ < MaxCopies THEN @ + 1 ELSE @]

\* The broker took the message and said so.
PublishOk(t) ==
    /\ task[t].at = "publish"
    /\ Accept(task[t].next, task[t].id)
    /\ Finish(t)
    /\ UNCHANGED << cfg, inbox, dups, rows, history >>

\* Mutated form: a failed publish is only logged.
PublishFails_Logged(t) ==
    /\ task[t].at = "publish"
    /\ Finish(t)
    /\ UNCHANGED << cfg, inbox, dups, rows, queue, history >>

\* No token, an HTTP error, a timeout: in-process dispatch instead.  When only the answer
\* was lost the broker delivers the message as well.
PublishFails(t) ==
    /\ task[t].at = "publish"
    /\ Begin(t)
    /\ \/ UNCHANGED << dups, queue >>
       \/ dups > 0 /\ dups' = dups - 1 /\ Accept(task[t].next, task[t].id)
    /\ UNCHANGED << cfg, inbox, recorded, heard, dropped, uncounted, diagnosed, fixed, tested >>

\* A stage's webhook answers at once; the handler runs in a task of its own.  The broker
\* may deliver a message a second time.
Deliver(t, stage, i) ==
    LET m == << stage, i >>
    IN  /\ task[t].at = "idle"
        /\ queue[m] > 0
        /\ \/ queue' = [queue EXCEPT ![m] = @ - 1] /\ UNCHANGED dups
           \/ dups > 0 /\ dups' = dups - 1 /\ UNCHANGED queue
        /\ task' = [task EXCEPT ![t] = [Idle EXCEPT !.at = "accepted", !.id = i, !.next = stage]]
        /\ UNCHANGED << cfg, inbox, rows, history >>

StartStage(t) ==
    /\ task[t].at = "accepted"
    /\ Begin(t)
    /\ UNCHANGED << cfg, inbox, dups, queue, recorded, heard, dropped, uncounted, diagnosed, fixed, tested >>

-----------------------------------------------------------------------------
(* Recurring incidents *)

\* resume_correlated_incident: the row k of rs.
Resume(t, rs, k) ==
    LET r == rs[k]
    IN  IF r.st \in InProgress \union { "AWAITING_APPROVAL" }
          THEN rows' = rs /\ Finish(t) /\ UNCHANGED stranded
          ELSE HandOn(t, rs, stranded \ { r.id },
                      IF r.st \in { "DETECTED", "RCA_FAILED" } \/ ~r.act THEN "rca" ELSE "fixer",
                      r.id)

Record(f) ==
    /\ recorded' = recorded + 1
    /\ heard' = heard \union {f}
    /\ UNCHANGED uncounted

\* increment_incident_occurrence swallows a failing statement, and its caller goes on.
Miscount(f) ==
    /\ Blind
    /\ uncounted' = uncounted \union {f}
    /\ UNCHANGED << recorded, heard >>

\* Counting f for the row k: the table afterwards.
Count(f, k, rs) ==
    \/ rs = Counted(rows, k) /\ Record(f)
    \/ rs = rows /\ Miscount(f)

\* Both doors: an incident is open for this signature.
Correlates(f) == SigOf[f] \notin Unnamed /\ OpenBySignature(rows, SigOf[f]) # {}

\* Both doors: none is found, but one of the same group was created a moment ago.
Bursts(f) == (~Correlates(f) \/ Blind) /\ RecentByGroup(rows, SigOf[f]) # {}

\* Both doors: neither is found.
Unseen(f) == (~Correlates(f) /\ ~Bursts(f)) \/ Blind

Correlate(t, f) ==
    LET k == Newest(OpenBySignature(rows, SigOf[f]))
    IN  /\ Correlates(f)
        /\ \E rs \in { Counted(rows, k), rows } : Count(f, k, rs) /\ Resume(t, rs, k)

Absorb(t, f) ==
    /\ Bursts(f)
    /\ Count(f, Newest(RecentByGroup(rows, SigOf[f])), rows')
    /\ Finish(t)
    /\ UNCHANGED stranded

-----------------------------------------------------------------------------
(* /agents/orchestrator *)

Take(e) ==
    \/ e \in inbox /\ inbox' = inbox \ {e} /\ UNCHANGED dups
    \/ e \in cfg.sends \ inbox /\ dups > 0 /\ dups' = dups - 1 /\ UNCHANGED inbox

\* _normalize_event_message keeps the first entry of a list.
AgentsEvent(t, e) ==
    /\ "agents" \in cfg.doors
    /\ task[t].at = "idle"
    /\ Take(e)
    /\ task' = [task EXCEPT ![t] = [Idle EXCEPT !.at = "classify",
                                                !.todo = << Head(Entries[e]) >>]]
    /\ dropped' = dropped \union Range(Tail(Entries[e]))
    /\ UNCHANGED << cfg, rows, queue, recorded, heard, uncounted, stranded, diagnosed,
                    fixed, tested >>

\* Not fixable in the iFlow, by classification and policy, or else to the observer.
CreateClassified(t, f) ==
    /\ Len(rows) < MaxRows
    /\ \E i \in Numbers(rows) :
         LET rs == Append(rows, NewRow(i, SigOf[f], "CLASSIFIED"))
         IN  \/ At(t, "ticket", i) /\ rows' = rs /\ UNCHANGED stranded
             \/ HandOn(t, rs, stranded, "observer", i)

\* _run_orchestrator_task after the classification: no await between the look for an open
\* incident, the number and the insert.
AgentsDetect(t) ==
    LET f == Head(task[t].todo)
    IN  /\ task[t].at = "classify"
        /\ \/ Correlate(t, f)
           \/ Absorb(t, f)
           \/ Unseen(f) /\ CreateClassified(t, f) /\ Record(f)
        /\ UNCHANGED << cfg, inbox, dups, queue, dropped, diagnosed, fixed, tested >>

AgentsTicket(t) ==
    /\ task[t].at = "ticket"
    /\ rows' = SetStatus(rows, task[t].id, "TICKET_CREATED")
    /\ Finish(t)
    /\ UNCHANGED << cfg, inbox, dups, queue, history >>

\* The insert or an update raises: the error is logged and that is all.
AgentsRaises(t) ==
    /\ "database" \in cfg.faults
    /\ task[t].at \in { "classify", "ticket" }
    /\ IF task[t].at = "classify"
         THEN dropped' = dropped \union Range(task[t].todo) /\ UNCHANGED stranded
         ELSE stranded' = stranded \union { task[t].id } /\ UNCHANGED dropped
    /\ task' = [task EXCEPT ![t] = Idle]
    /\ UNCHANGED << cfg, inbox, dups, rows, queue, recorded, heard, uncounted, diagnosed, fixed,
                    tested >>

-----------------------------------------------------------------------------
(* /event-mesh/events *)

\* Mutated form: the first entry only, as on the other door.
EventsEvent_First(t, e) ==
    /\ "events" \in cfg.doors
    /\ task[t].at = "idle"
    /\ Take(e)
    /\ task' = [task EXCEPT ![t] = [Idle EXCEPT !.at = "meta", !.todo = << Head(Entries[e]) >>]]
    /\ UNCHANGED << cfg, rows, queue, history >>

\* _route_stage walks through all failed entries of the message, one after the other.
EventsEvent(t, e) ==
    /\ "events" \in cfg.doors
    /\ task[t].at = "idle"
    /\ Take(e)
    /\ task' = [task EXCEPT ![t] = [Idle EXCEPT !.at = "meta", !.todo = Entries[e]]]
    /\ UNCHANGED << cfg, rows, queue, history >>

\* Mutated form: the failure is counted before the breaker is looked at.
CircuitBreaker_Counts(t, k) ==
    /\ rows' = Counted(rows, k)
    /\ IF rows[k].esc THEN Finish(t) ELSE At(t, "breaker", rows[k].id)

\* An incident whose fixes failed too often in a row, which execute_incident_fix counts,
\* is escalated; one that was escalated before is left alone.  Neither counts the failure.
CircuitBreaker(t, k) ==
    /\ UNCHANGED rows
    /\ IF rows[k].esc THEN Finish(t) ELSE At(t, "breaker", rows[k].id)

\* process_detected_error after enrichment and classification: no await up to here.  A new
\* incident gets its number now and its row after two more awaits.
EventsDetect(t) ==
    LET f == Head(task[t].todo)
    IN  /\ task[t].at = "meta"
        /\ \/ /\ Correlates(f)
              /\ CircuitBreaker(t, Newest(OpenBySignature(rows, SigOf[f])))
              /\ dropped' = dropped \union {f}
              /\ UNCHANGED << recorded, heard, uncounted, stranded >>
           \/ /\ Correlates(f)
              /\ ~rows[Newest(OpenBySignature(rows, SigOf[f]))].esc
              /\ Correlate(t, f)
              /\ UNCHANGED dropped
           \/ Absorb(t, f) /\ UNCHANGED dropped
           \/ /\ Unseen(f)
              /\ \E i \in Numbers(rows) : i <= MaxRows /\ At(t, "lookup", i)
              /\ UNCHANGED << rows, recorded, heard, uncounted, stranded, dropped >>
        /\ UNCHANGED << cfg, inbox, dups, queue, diagnosed, fixed, tested >>

\* _create_external_ticket does not raise; the row is escalated in any case.
BreakerTicket(t) ==
    /\ task[t].at = "breaker"
    /\ rows' = Escalated(rows, task[t].id)
    /\ Finish(t)
    /\ UNCHANGED << cfg, inbox, dups, queue, history >>

\* The artifact does not exist, or the incident goes to the observer.
EventsCreate(t) ==
    LET f == Head(task[t].todo)
        i == task[t].id
    IN  /\ task[t].at = "lookup"
        /\ Len(rows) < MaxRows
        /\ \/ /\ rows' = Append(rows, NewRow(i, SigOf[f], "ARTIFACT_MISSING"))
              /\ Finish(t)
              /\ UNCHANGED stranded
           \/ HandOn(t, Append(rows, NewRow(i, SigOf[f], "DETECTED")), stranded, "observer", i)
        /\ Record(f)
        /\ UNCHANGED << cfg, inbox, dups, queue, dropped, diagnosed, fixed, tested >>

\* A statement raises: the rest of the message is given up and an incident PARSE_FAILED
\* stands for it, unless that cannot be inserted either.
EventsRaises(t) ==
    /\ "database" \in cfg.faults
    /\ task[t].at \in { "meta", "breaker", "lookup" }
    /\ \/ /\ Len(rows) < MaxRows
          /\ \E i \in Numbers(rows) : rows' = Append(rows, NewRow(i, NoSig, "PARSE_FAILED"))
          /\ recorded' = recorded + 1
       \/ UNCHANGED << rows, recorded >>
    /\ dropped' = dropped \union Range(task[t].todo)
    /\ task' = [task EXCEPT ![t] = Idle]
    /\ UNCHANGED << cfg, inbox, dups, queue, heard, uncounted, stranded, diagnosed, fixed,
                    tested >>

\* The handlers for messages that name an older stage: classified and rca hand the incident
\* on, fix verifies it.
LegacyStage(t, i, stage) ==
    /\ "legacy" \in cfg.doors /\ dups > 0
    /\ task[t].at = "idle"
    /\ i \in RowIds(rows)
    /\ dups' = dups - 1
    /\ \/ stage = "classified" /\ HandOn(t, SetStatus(rows, i, "CLASSIFIED"), stranded, "rca", i)
       \/ stage = "rca" /\ HandOn(t, rows, stranded, "fixer", i)
       \/ /\ stage = "fix"
          /\ \E k \in DOMAIN rows : rows[k].id = i /\
               rows[k].st \notin FixFailed \union { "ARTIFACT_MISSING", "TICKET_CREATED" }
          /\ At(t, "test", i)
          /\ UNCHANGED << rows, stranded >>
    /\ UNCHANGED << cfg, inbox, queue, recorded, heard, dropped, uncounted, diagnosed, fixed, tested >>

\* _handle_fix: the test never reports a pass under the name it looks for.  When the
\* summary classifies as another error, _maybe_requeue_runtime_failure inserts an incident
\* for it, which nothing publishes.
HandleFix(t) ==
    LET i == task[t].id
        rs == SetStatus(rows, i, "FIX_FAILED_RUNTIME")
    IN  /\ task[t].at = "test"
        /\ \/ rows' = rs /\ UNCHANGED << recorded, stranded >>
           \/ /\ Len(rows) < MaxRows
              /\ \E s \in Sig, j \in Numbers(rs) :
                   /\ rows' = Append(rs, [NewRow(j, s, "CLASSIFIED") EXCEPT !.group = NoSig])
                   /\ stranded' = stranded \union {j}
              /\ recorded' = recorded + 1
        /\ Finish(t)
        /\ UNCHANGED << cfg, inbox, dups, queue, heard, dropped, uncounted, diagnosed, fixed, tested >>

-----------------------------------------------------------------------------
(* The stages after their first await *)

\* Observer and RCA may correct the iFlow or the error type.
Retyped(rs, i, s) == SetWhere(rs, i, LAMBDA r : [r EXCEPT !.sig = s])

SameOrRetyped(i) ==
    { rows } \union (IF cfg.retype THEN { Retyped(rows, i, s) : s \in Sig } ELSE {})

ObserverDone(t) ==
    /\ task[t].at = "observe"
    /\ \E rs \in SameOrRetyped(task[t].id) : HandOn(t, rs, stranded, "rca", task[t].id)
    /\ UNCHANGED << cfg, inbox, dups, queue, recorded, heard, dropped, uncounted, diagnosed, fixed,
                    tested >>

\* Mutated form: the status is not set.
ObserverRaises_Silent(t) ==
    /\ "database" \in cfg.faults
    /\ task[t].at = "observe"
    /\ Finish(t)
    /\ UNCHANGED << cfg, inbox, dups, rows, queue, history >>

\* The except clause of a stage: the status of the failure, unless that update raises too.
GiveUp(t, st) ==
    /\ \/ rows' = SetStatus(rows, task[t].id, st) /\ UNCHANGED stranded
       \/ /\ "database" \in cfg.faults
          /\ stranded' = stranded \union { task[t].id }
          /\ UNCHANGED rows
    /\ Finish(t)
    /\ UNCHANGED << cfg, inbox, dups, queue, recorded, heard, dropped, uncounted, diagnosed, fixed,
                    tested >>

\* An update of the row raises.
ObserverRaises(t) ==
    /\ "database" \in cfg.faults
    /\ task[t].at = "observe"
    /\ GiveUp(t, "OBS_FAILED")

Diagnose(rs, i, act) ==
    SetWhere(rs, i, LAMBDA r : [r EXCEPT !.st = "RCA_COMPLETE", !.act = act])

RcaDone(t) ==
    /\ task[t].at = "rca"
    /\ \E rs \in SameOrRetyped(task[t].id), act \in BOOLEAN :
         HandOn(t, Diagnose(rs, task[t].id, act), stranded, "fixer", task[t].id)
    /\ diagnosed' = diagnosed \union { task[t].id }
    /\ UNCHANGED << cfg, inbox, dups, queue, recorded, heard, dropped, uncounted, fixed, tested >>

\* The agent or an update of the row raises.
RcaRaises(t) == task[t].at = "rca" /\ GiveUp(t, "RCA_FAILED")

FixTicket(t) ==
    /\ task[t].at = "fixticket"
    /\ rows' = SetStatus(rows, task[t].id, "TICKET_CREATED")
    /\ Finish(t)
    /\ UNCHANGED << cfg, inbox, dups, queue, history >>

\* The replay under a RETRY policy: done, or decide as without it.
Replayed(t) ==
    /\ task[t].at = "replay"
    /\ \/ rows' = SetStatus(rows, task[t].id, "RETRIED") /\ Finish(t)
       \/ Decide(t, rows, task[t].id, task[t].act)
    /\ UNCHANGED << cfg, inbox, dups, queue, history >>

FixSucceeded(t) ==
    /\ task[t].at = "fix"
    /\ \E st \in { PostFixStatus(o, FALSE, "none") : o \in FixSuccess } :
         HandOn(t, SetStatus(rows, task[t].id, st), stranded, "verifier", task[t].id)
    /\ fixed' = fixed \union { task[t].id }
    /\ UNCHANGED << cfg, inbox, dups, queue, recorded, heard, dropped, uncounted, diagnosed,
                    tested >>

\* The status of the failure, and a ticket unless there is one or it cannot be stored.
FixFails(t) ==
    /\ task[t].at = "fix"
    /\ \/ \E st \in { PostFixStatus(o, FALSE, "none") : o \in FixOutcome \ FixSuccess } :
            rows' = SetStatus(rows, task[t].id, st)
       \/ rows' = Escalated(rows, task[t].id)
    /\ Finish(t)
    /\ UNCHANGED << cfg, inbox, dups, queue, history >>

\* An update of the row raises, whatever the fixer was doing.
FixRaises(t) ==
    /\ "database" \in cfg.faults
    /\ task[t].at \in { "fixticket", "replay", "fix" }
    /\ GiveUp(t, "FIX_FAILED")

\* Passed, failed or not possible.
Verified(t) ==
    /\ task[t].at = "verify"
    /\ \/ \E st \in { "FIX_VERIFIED", "FIX_FAILED_RUNTIME" } :
            rows' = SetStatus(rows, task[t].id, st)
       \/ UNCHANGED rows
    /\ Finish(t)
    /\ tested' = tested \union { task[t].id }
    /\ UNCHANGED << cfg, inbox, dups, queue, recorded, heard, dropped, uncounted, stranded,
                    diagnosed, fixed >>

-----------------------------------------------------------------------------
(* The surroundings *)

\* BURST_DEDUP_WINDOW_SECONDS have passed since the row was created.
WindowPasses(k) ==
    /\ rows[k].fresh
    /\ rows' = [rows EXCEPT ![k].fresh = FALSE]
    /\ UNCHANGED << cfg, inbox, dups, queue, task, history >>

\* Failures a coroutine has taken and no row counts yet.
Pending(t) ==
    IF task[t].at \in { "classify", "meta", "lookup" } THEN Range(task[t].todo)
    ELSE IF task[t].todo = << >> THEN {} ELSE Range(Tail(task[t].todo))

\* The incident a coroutine is to take further.
Carried(t) ==
    IF task[t].at \in { "idle", "classify", "meta", "breaker", "lookup" } THEN {} ELSE { task[t].id }

\* The webhooks have answered: what the coroutines were doing is lost.
Restart ==
    /\ "restart" \in cfg.faults
    /\ \E t \in Task : task[t].at # "idle"
    /\ task' = [t \in Task |-> Idle]
    /\ dropped' = dropped \union UNION { Pending(t) : t \in Task }
    /\ stranded' = stranded \union UNION { Carried(t) : t \in Task }
    /\ UNCHANGED << cfg, inbox, dups, rows, queue, recorded, heard, uncounted, diagnosed, fixed,
                    tested >>

-----------------------------------------------------------------------------
DoorStep(t) ==
    \/ AgentsDetect(t) \/ AgentsTicket(t) \/ AgentsRaises(t)
    \/ EventsDetect(t) \/ BreakerTicket(t) \/ EventsCreate(t) \/ EventsRaises(t)

StageStep(t) ==
    \/ PublishOk(t) \/ PublishFails(t) \/ StartStage(t)
    \/ ObserverDone(t) \/ ObserverRaises(t) \/ RcaDone(t) \/ RcaRaises(t)
    \/ FixTicket(t) \/ Replayed(t) \/ FixSucceeded(t) \/ FixFails(t) \/ FixRaises(t) \/ Verified(t)
    \/ HandleFix(t)

Step(t) == DoorStep(t) \/ StageStep(t)

DeliverSome == \E t \in Task, m \in Message : Deliver(t, m[1], m[2])

Next ==
    \/ \E t \in Task : Step(t)
    \/ \E t \in Task, e \in Event : AgentsEvent(t, e) \/ EventsEvent(t, e)
    \/ DeliverSome
    \/ \E t \in Task, i \in Id, stage \in { "classified", "rca", "fix" } : LegacyStage(t, i, stage)
    \/ \E k \in DOMAIN rows : WindowPasses(k)
    \/ Restart

Spec == Init /\ [][Next]_vars

\* Coroutines run on, every await ends, and the broker delivers what it holds as long as a
\* coroutine can be started.  Nothing is assumed of CPI.
FairSpec ==
    /\ Spec
    /\ \A t \in Task : WF_vars(Step(t))
    /\ WF_vars(DeliverSome)

-----------------------------------------------------------------------------
(* Properties *)

\* No incident is forgotten: one that is not at rest is in a coroutine or in a message,
\* unless a restart or a failing database cut the coroutine short, or it was inserted by
\* _maybe_requeue_runtime_failure, which publishes nothing.
NoIncidentForgotten ==
    \A k \in DOMAIN rows : rows[k].st \in Moving =>
      \/ \E t \in Task : rows[k].id \in Carried(t)
      \/ \E stage \in StageName : queue[<< stage, rows[k].id >>] > 0
      \/ rows[k].id \in stranded

UniqueIds == \A j, k \in DOMAIN rows : rows[j].id = rows[k].id => j = k

\* The occurrence counts of rs, as the set of what they count.
Occurrences(rs) == UNION { {k} \X (1 .. rs[k].n) : k \in DOMAIN rs }

\* As long as ids tell the incidents apart, the occurrence counts add up to the failures
\* recorded: none is counted twice or overwritten by a concurrent count.
CountsAddUp == UniqueIds => recorded = Cardinality(Occurrences(rows))

\* There is an incident of the signature of f.
HasIncident(f) == \E k \in DOMAIN rows : rows[k].sig = SigOf[f]

\* A failure of an event that was delivered is still being worked on, or was dropped: as a
\* later entry on the agents door, by the circuit breaker, or with the coroutine.  Otherwise it
\* was counted, or its count was lost to the database, and even then an incident of its
\* signature is on the table, unless the stages corrected the signature.
FailureAccounted ==
    \A e \in cfg.sends \ inbox : \A f \in Range(Entries[e]) :
      \/ f \in dropped
      \/ \E t \in Task : f \in Pending(t)
      \/ /\ f \in heard \/ (Blind /\ f \in uncounted)
         /\ cfg.retype \/ HasIncident(f)

\* /agents/orchestrator looks, numbers and inserts without an await: through this door alone
\* ids are unique and, while no message is doubled and no signature corrected, an incident
\* that is open beside a newer one of its signature was resumed by a recurring failure: the
\* coroutine that was still on it reopened it after the newer one was created.
AgentsDoorIsAtomic ==
    cfg.doors = {"agents"} /\ cfg.faults = {} =>
      /\ UniqueIds
      /\ (~cfg.retype /\ dups = cfg.spare) =>
           \A j, k \in DOMAIN rows :
             j < k /\ rows[j].sig = rows[k].sig /\ rows[j].sig \notin Unnamed =>
               rows[j].st \in Terminal \/ rows[j].n > 1

\* What the stages promise together, see PipelineContract.
Contract == INSTANCE PipelineContract WITH Incident <- Id

HonoursContract == Contract!Spec

\* Every incident comes to rest, except one a fault left behind.
Settles ==
    \A i \in Id \ {0} :
      (\E k \in DOMAIN rows : rows[k].id = i /\ rows[k].st \in Moving)
        ~> \/ \A k \in DOMAIN rows : rows[k].id = i => rows[k].st \notin Moving
           \/ i \in stranded
=============================================================================
