# Orbit: a TLA+ model of the auto-remediation core

Orbit watches SAP Cloud Integration (CPI) for failed messages, classifies them, has an LLM find
the root cause, patches the integration flow (iFlow), deploys it, replays the message and
escalates to an ITSM ticket what it cannot fix. It is one FastAPI process on one asyncio loop,
with SAP HANA behind it and SAP CPI, an LLM service, SAP Event Mesh and an ITSM system around it.

What makes it hard is not any single function: an incident is worked on by several coroutines
that were started by different doors (HTTP endpoints, background tasks, webhooks, a poller), each
of which decides from a database row, awaits for minutes, and writes that row again. This
directory models those coroutines await by await, checks them with TLC and proves the central
facts with TLAPS.

Contents: [inventory](#1-inventory) · [modules](#2-modules) · [runs](#3-runs-bounds-and-what-they-show) ·
[disagreements](#4-where-code-and-comments-disagree) · [fairness](#5-fairness) ·
[proofs](#6-proofs) · [abstractions](#7-abstractions-and-limits) · [plan](#8-plan)

## 1. Inventory

| Component (source) | State it keeps | Operations | What is hard | What makes it correct |
|---|---|---|---|---|
| Fix execution (`agents/orchestrator_agent.py`, `execute_incident_fix`) | row status, RCA, last failed stage, retry count, snapshot; `_iflow_fix_locks` | verify, preflight, RCA, proven pattern, escalate, lock, get-iflow, fix, replay, final status | many awaits between a read of the row and the write that rests on it; several attempts on one iFlow | uploads to one iFlow are serialised; the lock is let go; a status in progress has a worker |
| Remediation gate (same file) | the same | decide, ask, escalate, replay, fix under lock, verify in a task of its own | 2 s lock timeout; never claims a status | the same |
| Fix endpoints (`main.py`, `smart_monitoring.py`) | the row | approve, reject, generate, retry RCA, apply, retry, resolve, roll back | guards on a status other coroutines rewrite | retry budget; no second attempt beside a running one |
| Event-driven fixer, verifier (`main.py`) | stage messages | fix, escalate, replay, verify | at-least-once delivery, no look at the status, no lock | the same guarantees as the other doors |
| Fix attempt (`agents/fix_agent.py`, `fix_supervisor.py`, `fix_applier.py`) | the iFlow's design-time and running XML, strategies tried | plan, attempt, restore, rotate, give up; diagnose timeouts, re-validate, unlock, correct | a failed attempt may have uploaded anything; the result outlives the restore | no attempt builds on another's debris; what is reported is what is there; it ends |
| Event pipeline and bus (`main.py`, `event_mesh/event_bus.py`) | messages of five stages | publish, webhook, in-process fallback | lost answers mean double processing; webhooks acknowledge first | no incident is lost or fixed twice |
| Detection and dedup (`main.py`, `orchestrator_agent.py`, `db/database.py`) | incidents, occurrence counts | detect, correlate, number, re-queue | check, await, insert | one open incident per failure, unique ids |
| ITSM (`integrations/itsm_client.py`, `jobs/itsm_poller.py`) | escalation tickets | create, push, poll, resolve, learn | two tables changed in two steps | ticket and incident agree in the end; one external ticket |
| CPI monitor (`cpi_monitor/`) | in-memory dedup with TTL | poll, fetch, publish | window, page and loop period; restart | no failure is missed |
| Database access (`db/database.py`) | pool of connections | borrow, return | a raise between the two | connections come back |
| Runtime settings, progress table (`core/`) | cached settings, bounded table | read, write | limits | the limits hold |
| RCA agent (`agents/rca_agent.py`) | fields shared by all runs; confidence, proposed fixes | reclassify, prefetch, ask with retries, check values, correct, boost, cap | concurrent runs overwrite the fields; floor, boosts and cap in an order | a doubtful diagnosis stays doubtful; notes belong to the error |
| Validator and store of originals (`core/validators.py`, `core/mcp_manager.py`, `agents/fix_generator.py`, `agents/fix_agent.py`) | the original of each iFlow being fixed | remember, compare, refuse, forget | a process-wide store emptied on some exits only | what is uploaded is no worse than the original |
| Fix patterns (`db/database.py`) | success and failure counts per fix | read, update or insert | read and write in two statements, one caller in a thread | the counters are the calls' |
| Tool calls (`core/mcp_manager.py`) | the settings of retries | discover, call, retry, give up | a call that timed out may still be carried out | what is reported is what was done |
| Token caches (`event_mesh/event_bus.py`, `cpi_monitor/`, `integrations/itsm_client.py`) | token and expiry | read, fetch, store | several coroutines fetch at once | no stale token is used |
| Bulk load, table copy (`scripts/initial_load.py`, `scripts/migrate_hana_table.py`) | page position; batches | page, publish; copy, retry, resume | the list moves; a lost commit | nothing missed, nothing doubled |
| Observer, classifier rules, planner and generator prompts | (almost) none | text work, LLM conversations | | their answers are choices of the models |
| Dashboards, vector store, object storage, other scripts, frontend | I/O | | | not modelled |

How they interact: the CPI monitor publishes to Event Mesh; webhooks hand each stage (orchestrator,
observer, RCA, fixer, verifier) to an in-process task; alternatively `remediation_gate` or an
endpoint starts the fix directly. All of them share the incident row, the iFlow in SAP CPI and the
dictionary of per-iFlow `asyncio.Lock`s. The services around them (tokens, pool, settings, tool calls,
tables in memory, ITSM poller, monitor) are used by those coroutines but share no state with one
another.

The hazards of all components, each at its line, are in `PROJECT.json` ("hazards"); those without
a property say what they wait for.

## 2. Modules

| Module | Models | Main correspondences |
|---|---|---|
| `IncidentStatus` | the vocabulary of `EM_INCIDENTS.status`; which statuses each endpoint accepts; the outcomes of a fix; `determine_post_fix_status` | `Approvable`, `Generatable`, `ApplyBlocked`, `FixRetryable`, `Resolvable` are the endpoints' guards; `PostFixStatus` is the function |
| `FixExecution` | every coroutine that fixes, replays, rolls back or escalates an incident | one action per segment between two awaits; `pc[t]`, `caller[t]`, `inc[t]` say where a coroutine is, who started it, for what; `act`, `res` are its locals |
| `FixMutex` | what the per-iFlow locks promise: exclusion, and no newcomer before a waiter | abstract; `FixExecution!Mutex` instantiates it with a refinement mapping |
| `FixSupervisor` | one call of `ask_fix_and_deploy`, from planning to the last correction pass | `pc` walks the loop of `supervise` and the review after it; `design` and `running` are the XML in SAP CPI, known by whose changes it has |
| `EventPipeline` | from a failed message to a settled incident: the three doors that detect (`/agents/orchestrator`, `/events`, the legacy webhook), dedup by signature and burst, numbering, the circuit breaker, the stages observer, RCA, fixer, verifier, publishing with its in-process fallback, second deliveries, restarts, a failing database | one action per segment between two awaits; `rows` is `EM_INCIDENTS` in order of insertion, without a key as in the schema; `queue` holds copies of stage messages; `task[t].at` is the await a coroutine is in |
| `PipelineContract` | what the stages promise together: fix only what is diagnosed, test only what was fixed | abstract; `EventPipeline!Contract` instantiates it with the ids that passed each stage |
| `ItsmSync` | escalation tickets and their copies in the ITSM tool | `push` is a coroutine in `_create_external_ticket` or `retry_itsm_push`; `poll` one in `poll_itsm_tickets_once`; `patches` the PATCHes under way |
| `CpiMonitor` | the loop and the manual cycle that publish failed messages, and `_published` with its expiry | `Query` is the OData query with window and page; `Pick`, `Accept`, `Mark` are check, publish and mark with the awaits between them |
| `TokenCache` | the shape shared by the four token helpers | `Read` is the clock and the cache check, `Issue` the await, `Store` the assignment after it |
| `DbPool` | the pool of `db/database.py` and the call sites that lose a connection when a statement raises | `pool` is the queue with the state of each connection |
| `RuntimeSettings` | `PATCH`, reset, load at start, the flag that repeats the master switch | `overrides` and `autoFix` are memory, `saved` the table |
| `ToolClient` | `MultiMCP.execute` and `execute_integration_tool` around `update-iflow` | `Send`, `Answer`, `NoAnswer`, `Late`: what client and server know of one request |
| `CappedTable` | the progress table and the chat sessions | `entries[e]` is when it was last written |
| `RcaRun` | `run_rca`, several runs on one agent | `rca[r].at` is the await; `current` the shared fields; confidences in percent |
| `IflowValidator` | the seven checks and the store of originals they compare with | a document is what the checks tell apart: parses, mapping, undeclared prefixes, other flaws, versions |
| `FixPatterns` | `upsert_fix_pattern` for one signature | a reader and a writer per call, with the statement boundary between |
| `BulkLoad`, `TableMigration` | the scripts | pages with `$skip` over a list that moves; batches are sets of keys, the `First` so many in key order, written in transactions with retries |
| `BackgroundServices`, `DiagnosisServices` | extend seven and five of these, which share no state | a behaviour belongs to one of them (`service`, `part`), chosen in `Init`; the product of their states would say nothing more |
| `MCFixExecution`, `MCFixSupervisor`, `MCEventPipeline`, `MCBackgroundServices`, `MCDiagnosisServices` | instances for TLC | |
| `…Proofs` | theorems, see [proofs](#6-proofs) | |

`FixExecution` sees a call of `ask_fix_and_deploy` as `FixRead` (get-iflow), `FixWrite` (everything
up to the outcome) and the outcome's name; `FixSupervisor` opens that box. Both take the names of
outcomes from `IncidentStatus`.

`EventPipeline` in turn sees the whole fix as one await with an outcome, and shares
`IncidentStatus` with the fix path.

Some correspondences a reader will look for:

- *A lock that is free and has no waiters does not suspend.* So `EnterOrWait` is part of the action
  before it, and `Acquire` exists only for tasks that wait. `asyncio` wakes the first waiter; the
  model lets any waiter go first, which is weaker.
- *`finally: lock.release()`* is `Release` in every action that leaves the lock; an attempt that
  raises inside it leaves by `ExecRaises` or `GateRaises`.
- *`apply_fix` writes AUTO_FIXED or FIX_FAILED after the fix has written its own status*, without an
  await in between: `EndExec` is one action with the caller's last word.
- *The gate finishes by creating a task for the verification*: the model's task goes on as
  `"handle_fix"`.
- *`rollback_fix` and `ask_deploy_only` hand `evaluate_fix_result` steps in which it can find no
  successful update*: `RollbackDone` writes FIX_FAILED, `DeployOnly` reports `"update"`; both as the
  code does, not as its comments say.
- *`/agents/orchestrator` detects without an await between the look for an open incident and the
  insert; `/events` awaits the artifact in between.* So the first door's segments are one action and the
  second's three, and `AgentsDoorIsAtomic` speaks of the first alone.
- *`publish` falls back to calling the handler in-process when it sees no answer.* The message may
  have arrived: the model keeps both, for as many times as `spare` allows.
- *The helpers of `db/database.py` swallow errors.* In an environment whose database fails (`Blind`) each lookup
  may find nothing and each count may be lost, and the caller goes on as the code does: an open incident is missed
  and a duplicate created (`Unseen`), a recurring failure resumes an incident without being counted (`Count`,
  `Miscount`), a stage ends at `get_incident_by_id` (`NotFound` in `Begin` and `HandOn`) and leaves its incident
  `stranded`.
- *`_maybe_requeue_runtime_failure` inserts an incident and publishes nothing*: it is in `stranded`.
- *The poller marks the ticket first and the incident after it*, each in a statement of its own:
  the difference is `torn` only where a fault fell between them.
- *A failing statement's `except` clause logs and returns without `close()`*: `DbPool`'s caller keeps
  the connection for ever, and `PoolAccounts` says nothing else loses one.
- *`execute_integration_tool` takes any text for success that does not begin with `ERROR:` or `VALIDATION FAILED`*:
  in `Answer` the server does the update, or refuses it in words, and the refusal is a success or an error by its
  first word alone.
- *`_create_external_ticket` asks nothing of the incident*: `Escalate` has no guard but an idle pusher, so a resolved
  incident can be escalated again, and `Insert` then fails on the ticket's key as the table does.
- *`validate_before_update_iflow` finds the original by the submitted path*: by the iFlow's id in front of it (a form whose
  comparison of paths then fails) or by equality with a stored path (`Matching`). A path that no entry has is not looked at
  (`Admits`). `_extract_iflow_file` may have stored another iFlow's file under its path (`Extracted`, `Foreign`). The
  agent's tool `validate_iflow_xml` compares with the first entry instead, whosever it is (`Draft`).
- *`upsert_fix_pattern` without fixes of its own writes back those it read*, and so may erase what another call stored in
  between (`Updated`).
- *`run_rca` boosts, caps, corrects, fills in and boosts again*: `Concluded` is the tail in that
  order; `Boosted` is used twice because the code does.
- *`supervise`, head of the loop*: `NextAttempt`; its tail: `Rotate`, `Exhausted`; after it:
  `GiveUp`. A rotation to `component_replace` or `structured` has no operations, so `ByAgent` sends
  it to the free-XML agent, as the generator does.

## 3. Runs, bounds and what they show

| Run | Instance | Shows |
|---|---|---|
| `fix_requests` | 1 incident, 2 tasks; approve, generate (sync), retry, reject, resolve; one retry; fair | `TypeOK` with the retry budget; `NoLostUpdate`: nobody uploads XML read before another's upload; `EscalationBacked`: TICKET_CREATED and the always-escalated failures have a ticket row; `LockEventuallyFree`; `InProgressResolves` |
| `fix_pipelines` | 1 incident, 2 tasks; apply (background), roll back, gate, fixer, verifier; redelivery, restarts, failing ticket inserts | `OneFixPerLock`; `ImplementsMutex`; `InProgressHasWorker` |
| `supervisor_rotation` | the code's own bounds: 3 attempts, 3 correction passes; fair | `TypeOK`: the budgets hold and the outcome is known to the callers; `NeverPoisoned`; `Terminates` |
| `event_pipeline` | 2 coroutines, 3 events with 4 failures of 2 signatures, one unnamed, in 9 environments: each door alone, two together, with a doubled message, a corrected signature, three failures of one signature outside the burst window, a restart, a database that fails at any insert, count or lookup (two events, and one event with two entries); fair | `NoIncidentForgotten`, `CountsAddUp`, `FailureAccounted`, `AgentsDoorIsAtomic`; `HonoursContract` (refinement of `PipelineContract`); `Settles` |
| `background_services` | each of the seven services: 1 ticket with 2 pushers and 2 pollers; 2 messages, page 1, two cycles, 3 ticks; 2 coroutines on one token; 2 on a pool of 3 with 3 faults; 2 settings; 2 tool calls with up to 2 tries; 4 entries over a capacity of 2 | `NoOrphan`, `ResolvedTogether`, `LearnedOnce`, `ClosedStaysClosed`, `ResolutionArrives`; `NoDuplicate`, `MarkedIsDelivered`; `CachedTokenIsFresh`; `PoolAccounts`; `MemoryMatchesTable`; `ReportedAsAnswered`: success is an answer, never silence; `TableKeepsNewest` |
| `diagnosis_services` | each of the five: 2 runs of RCA with sure, exact, invented and blank answers; 2 fixes over 2 iFlows, one with 4 kinds of draft, submitted under its own path, the other iFlow's, an unknown one or one with the id in front, one that is only read; 5 answers of get-iflow, of which two lead to a file that is not the iFlow's or to none; an edit from outside; 2 recorders with 2 fixes; 4 messages in pages of 2 with 2 changes; 3 rows in batches of 2 with 2 faults and 2 runs | `DoubtIsCapped`, `NotesAreOwn`, `RcaEnds`; `ComparedWithOwn`: when the door of update-iflow does not look, `AcceptedIsNoWorse`: what it lets through; `PatternsAddUp`; `LoadIsComplete`; `CopyIsComplete` |
| `fix_lost_update`, `fix_concurrent`, `fix_rollback`, `supervisor_reported_fix`, `supervisor_merged_patch`, `settings_switch` | as small as the counterexample allows | section 4 |

Why the bounds are enough for what they claim. Two tasks are the least that race, and every
property of the fix path relates one coroutine to one other or to the row; a third only repeats
one of the two roles, and the safety ones about the lock are proved for any number. The callers are
divided over the two passing runs, because what separates them is their interleaving with
the same kind of attempt. One incident with one artifact makes all tasks meet on one lock and one
row, the worst case for both; incidents that share an artifact are in `fix_lost_update`. One retry
lets `retry_fix` reach its budget. In each run the outcomes are the few that the callers in it tell
apart (`locked` and `pending_deploy` for retry, a success and a failure for the pipelines);
`FixSupervisor` produces all of them.

In the pipeline, two coroutines and two signatures are the least in which a detection meets an
open incident, a duplicate of its own or one of another iFlow, and two rows are the least that can
share an id; the environments are separate so that each hazard is met with the others absent and the
state space stays in reach. Nine environments rather than one with everything: a property that
excepts faults would otherwise be excused nearly everywhere. `Recurring` is the one that needs three events: the second
failure resumes the first one's incident, the third opens a newer one after it was closed, and the resumed
coroutine reopens the older; `AgentsDoorIsAtomic` therefore allows an incident open beside a newer one of its signature
exactly if it has recurred (`n > 1`), and no other. For the services two actors make every
race there is between a check and the write after it; the clocks run as far as an expiry and a
renewed entry, the pool has one connection more than its users so that a leak can be told from a use, and
the capacity is half the number of entries. At the upload door the drafts have between them
each kind of thing the checks find (a repeated header, a lost mapping, a router without default, versions, no XML at all);
the second iFlow is there for its entry and its path, and drafts of its own would only repeat the first one's. Every exception a property allows (`orphans`, `torn`, `again`,
`drifted`, `stranded`, `dropped`, `uncounted`, `refused`, `left`, `loose`, `crossed`, `unsent`) is a history variable set in the one
action where the code gives cause for it, so that a violation needs a cause the module does not name.

Deadlock is not checked: an incident no endpoint accepts any more, with idle tasks and no message,
and a finished call, are ends the system is meant to reach.

`InProgressHasWorker` and `InProgressResolves` except `abandoned` incidents: those whose task ended
without a final status. There are three ways to get there, all in the code: a lock timeout
(`orchestrator_agent.py:1241`), an RCA that raises in the synchronous `generate_fix`
(`main.py:969`), and a restart, after which nothing resumes an incident (the sweeper that might
ends in an ImportError at `main.py:233`). The properties say there is no fourth.

Every property of a passing run has a mutant in `PROJECT.json`: a change of one mapped definition
that a slip in the code would make and that TLC catches: a lock per call instead of per iFlow, a
newcomer that overtakes, no `finally`, a status only the caller writes, a swallowed ticket, a retry
budget or an attempt too many, a restore left out, a pass not counted.

## 4. Where code and comments disagree

1. `fix_lost_update`. The comment on the mutex promises that two pipelines never write to one
   artifact; the event-driven fixer and the rollback do not take it.
2. `fix_concurrent`. `apply_fix` rejects "concurrent fix attempts on the same incident" by status;
   a running attempt sets that status back to RCA_COMPLETE while it works.
3. `fix_rollback`. A rollback that worked is recorded as FIX_FAILED.
4. `supervisor_reported_fix`. The supervisor restores the original and hands on its last attempt's
   result, which the review after it still turns into "updated and deployed successfully" or into
   "Fixed XML was uploaded …, use Deploy Only".
5. `supervisor_merged_patch`. A patch merged by `direct_patch` or `component_replace` is always
   refused by `pre_validate`: its operation has no `target_component`.
6. `settings_switch`. After a restart the setting AUTO_FIX_ALL_CPI_ERRORS says that automatic fixing is off and the
   flag that the gate reads says it is on: only the setting is loaded from its table, the flag starts from the
   environment variable AUTO_FIX_ENABLED.

Met on the way, without a run of their own: a successful deploy-only pass is reported as a failed
update (`fix_agent.py:865`); `_handle_fix` reads a key the verifier never returns, so every gate fix
ends FIX_FAILED_RUNTIME; TICKET_CREATED is written even if the ticket was not stored
(`orchestrator_agent.py:521`); `apply_fix` overwrites TICKET_CREATED, ARTIFACT_MISSING and
FIX_APPLIED_PENDING_VERIFICATION with FIX_FAILED (`smart_monitoring.py:1562`); a second attempt
overwrites the snapshot with the modified iFlow (`fix_agent.py:971`: an upload whose deployment is pending,
a deploy-only retry that fails, a full retry).
The sweeper of pending verifications ends in an ImportError (`main.py:233` asks `db/database.py`
for `update_incident_status`, which it does not define), after it has redeployed the iFlow and before any status is
changed, on every sweep. The gate compares the confidence with SUGGEST_FIX_CONFIDENCE
(`orchestrator_agent.py:333`), while `README.md:583` names a minimum of 0.90 for an automatic fix.
In `run_rca` the second boost lifts a confidence above the cap of 0.75 that was to mark a doubtful
fix (`rca_agent.py:884`), a complete fix is boosted twice, and the retry that corrects the values keeps
the old root cause and drops the classifier's floor. `SUPERVISOR_STRATEGY` is overwritten by the last
caller, so that concurrent fixes credit their success to one another's strategy.
`upsert_fix_pattern` writes the counters it read; if its first SELECT failed and the plain one worked
it has read none, and sets APPLIED_COUNT back while SUCCESS_COUNT stands (`database.py:1265`), so that a
pattern can claim more successes than applications. A recurring failure resumes an incident while its first
coroutine still works on it; the first closes it, a third failure finds none open and creates a newer incident, and the
resumed coroutine then reopens the older one, so that two are open for one signature (`orchestrator_agent.py:736`).
`get_patterns_by_error_type` (`database.py:1390`) does not select the column `fixes_json` that its
caller reads. A draft that removes the namespace mapping is accepted when the prefixes it covered
were already reported for the original. An upload submitted under a path that no stored original has passes the
door unseen (`validators.py:759`). A refusal that the server words without a leading `ERROR:` is reported as a successful update
(`mcp_manager.py:624`). `increment_incident_occurrence` and the lookups of incidents swallow errors of the database, so that a
recurring failure may go uncounted, or get an incident of its own beside the open one (`database.py:1153`, `:1172`).

## 5. Fairness

`FixExecution!FairSpec` has weak fairness of each task's `Step`: the event loop runs every ready
coroutine, and every await on the fix path ends, if only by its timeout (agents, MCP calls, polls and
lock waits all have one). Nothing is assumed of arrivals: requests and messages may never come, and
no waiter is promised the lock, only that it gets it or gives up. `FixSupervisor!FairSpec` is weak
fairness of the one call. `EventPipeline!FairSpec` has weak fairness of each coroutine's step, for the
same reason, and of `DeliverSome`: Event Mesh delivers what is in a queue sooner or later; which message
is left open. In `BackgroundServices` only the ITSM poller is fair, an endless loop of the process
whose requests have timeouts; in `DiagnosisServices` the awaits of a run of RCA (`AwaitEnds`), each of
which has a timeout of its own or its client's. No property needs strong fairness.

## 6. Proofs

All are checked by `tlapm` from nothing, for every value of the constants. Each module states what it
assumes of them where it declares them, and TLC evaluates it on every run. These assumptions say that numbers
are numbers, that tables are functions on the right sets and that null values are none of the real ones. A few say
more: `RcaConstants` and `MigrationConstants` that there are finitely many runs and keys; `BulkLoad!LoadConstants`
that the list starts without duplicates; `ValidatorConstants` that the fingerprint of an undeclared prefix is that
of no other kind of flaw; `ItsmConstants` that an environment said to have at most one fault (`once`) has at
most one; `ToolClient!RetriesAreIntegers` nothing else, so that a limit of retries below one is included. Two theorems of
`FixStatusProofs` have further hypotheses, named in their rows.

| Theorem | States | Argument |
|---|---|---|
| `FixExecutionProofs!TypeCorrect` | `Spec => [](TypeOK /\ ControlOK)` | `ControlOK` (whoever runs has an incident; only lock-takers wait; only the gate is in its RCA; only `retry` in the fresh one) makes `TypeOK` inductive: without it `status[inc[t]]` may be applied outside its domain. One lemma per group of actions, one step per action |
| `FixExecutionProofs!MutualExclusion` | `Spec => []OneFixPerLock` | every step by a task is one of a few kinds with respect to the locks (`LockStep`: asks, enters, waits, acquires, gives up, leaves, goes on). Lemmas classify the actions; `LockStepSafe` shows each kind keeps the invariant, which is inductive given the types |
| `FixExecutionProofs!Refinement` | `Spec => ImplementsMutex` | the same kinds map to the actions of `FixMutex` or to stuttering, `Restart` to `Restart` |
| `FixStatusProofs!SomebodyWorks` | `Spec => []InProgressHasWorker` | each action is one of the kinds of `HandsOver`: it leaves the incident out of progress, gives it up, keeps it with the same task, or belongs to a verifier that leaves the status alone. `HandsOverSafe` does the rest once, with `Alone` from the lock proof |
| `FixStatusProofs!WellPlaced` | `Spec => []Placed` | only callers of open entry points run, and only the lock-takers and the fixer read and write |
| `FixStatusProofs!NothingOverwritten` | `Spec => []NoLostUpdate`, if names and design-time ids agree and neither the fixer nor a rollback runs | by `Placed` a writer is between acquire and release of its artifact's lock, so by `OneFixPerLock` it has no `Readers`: nothing is ever stale. The hypotheses are the limits of the lock; `fix_lost_update` violates one of them |
| `FixStatusProofs!TicketBehindEscalation` | `Spec => []EscalationBacked`, if tickets can be stored and the gate does not run | `Prepared` (who is about to report an escalation has its ticket, who replays has a fix) makes it inductive; `KeepsBacked` is what each action does |
| `FixSupervisorProofs!TypeCorrect` | `Spec => []TypeOK` | `ControlOK` relates `pc` to the counters and to the stages that can arrive there |
| `FixSupervisorProofs!Clean` | `Spec => []NeverPoisoned` | `CleanOK` adds that planning finds the original and that what is rotated or given up has failed; lemmas bound what an agent run, a patch and an evaluation leave behind |
| `EventPipelineProofs!TypeCorrect` | `Spec => []TypeOK` | `Typed`: types, `Shape` (what a coroutine holds at each await: the id of a row that exists, the rest of an event) and `Dense` (ids are at most the number of rows, so that the next one is still an id). One lemma per action says what it does to rows, queue, coroutine and histories; the proofs after it rest on these |
| `EventPipelineProofs!NoneForgotten` | `Spec => []NoIncidentForgotten` | `Worked`: each unsettled id is `Covered` by the coroutine or the message that carries it |
| `EventPipelineProofs!ContractHonoured` | `Spec => HonoursContract` | `Licensed`: a message of a stage is about an id that passed the stage before it; `ContractStep` maps each kind of action to one of `PipelineContract` or to stuttering |
| `EventPipelineProofs!AllAccounted` | `Spec => []FailureAccounted` | `Accounted`: each action moves a failure between `Pending`, `heard`, `dropped` and, where the database fails, `uncounted`, and never takes it out of all four; `Known`: what was counted or was to be has an incident of its signature on the table, because a count, lost or not, starts from a row that was found, and no row is ever deleted |
| `EventPipelineProofs!DoorAtomic` | `Spec => []AgentsDoorIsAtomic` | `Atomic`: ids are distinct (`Doored`); an id has one carrier, message or coroutine (`Tokens`); an older row of a signature is final or counted more than once (`Older`) |
| `EventPipelineProofs!CountsExact` | `Spec => []CountsAddUp` | `Tallied`, over the set of pairs (row, occurrence): every action adds none or one to it, and to `recorded` as many |
| `ItsmSyncProofs!ItsmTyped`, `Owned` | `ItsmSpec => []ItsmTypeOK`, `[]NoOrphan` | `ItsmInv` says that whoever holds a ticket's id holds an existing one (`Pointing`); `OrphanInv` follows a ticket of the ITSM tool from the POST to the row that names it |
| `ItsmSyncProofs!Together`, `StayClosed` | `ItsmSpec => []ResolvedTogether`, `ClosedStaysClosed` | `TablesStep` names the ways in which an action touches the two tables; each keeps a closed ticket closed, and the incident behind it resolved unless the cause is recorded in `torn` |
| `ItsmSyncProofs!CountedOnce` | `ItsmSpec => []LearnedOnce` | `OnceInv`: with one poller and at most one fault, a fix that was counted is marked in the table or its ticket is closed, and whoever has a list of tickets knows |
| `CpiMonitorProofs!OncePublished`, `NeverHidden` | `CpiSpec => []NoDuplicate`, `[]MarkedIsDelivered` | `CInv`: a message in a cycle's hands was either never delivered, or has an entry that outlives the window, or a cause in `again` |
| `ServiceProofs!Fresh` | `TokenSpec => []CachedTokenIsFresh` | `TokenInv`: whatever a coroutine holds or the cache stores expires no later than the service says, because the clock it is counted from was read before the request |
| `ServiceProofs!Matches` | `SettingsSpec => []MemoryMatchesTable` | inductive with the types of the two maps; a restart is the interesting case |
| `ServiceProofs!AnsweredAsReported` | `ToolSpec => []ReportedAsAnswered` | `ToolInv` counts requests: sent plus left never exceeds the retries, and what the server has done, still holds or has refused never exceeds what was sent; a result is final, so that whoever has one sends nothing more |
| `ServiceProofs!NoneLent` | `PoolSpec => []PoolAccounts` | `PoolInv`: the connections in use are a finite set, which each action changes by one at most, in step with the queue or with a fault |
| `ServiceProofs!NewestKept` | `TableSpec => []TableKeepsNewest` | `TableInv` bounds the table; `Keeps` is the property of a step: what goes had expired, or `Capacity` entries were no older |
| `ServiceProofs!ServicesTyped`, `ServicesSafe`, `ServicesNeverUndo` | the same properties of `BackgroundServices` | `ServicesInv`: every service satisfies its own invariant, because a step of the process is a step of one and a stutter of the rest |
| `DiagnosisProofs!Capped75`, `Notes` | `RcaSpec => []DoubtIsCapped`, `[]NotesAreOwn` | `RInv` bounds the confidence at each await by whether the fixes are doubtful, and places the run that holds the shared fields at the end of `began` |
| `DiagnosisProofs!Own`, `NoWorse` | `ValidatorSpec => []ComparedWithOwn`, `AcceptedIsNoWorse` | `ValidatorInv`: the store has one entry per iFlow (`Single`), and whoever is fixing one finds its entry there with the path it has read (`Backed`), or is in `loose`. So an upload under that path matches an entry, the least of which `NothingNew` compares; the submitted path may be any |
| `DiagnosisProofs!AddUp` | `PatternSpec => []PatternsAddUp` | `PatternInv` with `Alone`: while no calls have crossed, what a call has read is still what is there. Each counter is bounded by what was recorded even when they cross, because a call never writes more than one over what it read (`Honest`, `Remembers`). `Budget`, that rows and calls under way never exceed the calls made, gives the bounds of the type invariant |
| `DiagnosisProofs!Copied` | `MigrationSpec => []CopyIsComplete` | `Copying`: what the cursor still has, what waits to be written and what is committed make up the source, and an open transaction is within the batch |
| `DiagnosisProofs!LoadedInFull` | `LoadSpec => []LoadIsComplete` | `Paging` counts: what the pages so far have missed is at most what left the list, and what they can still repeat is paid for by what entered it. `Gathered` and `Publishing` carry that over to what is sent |
| `DiagnosisProofs!DiagnosisTyped`, `DiagnosisSafe`, `DiagnosisNoWorse` | the same properties of `DiagnosisServices` | as for `BackgroundServices` |

The lock theorems need no bound on tasks, incidents or keys, cover `Name` and `Target` that differ
(two locks for one artifact), and include restarts and redelivery; so does `SomebodyWorks`.

Every invariant and action property that a passing run checks is proved. Two of them were false, beyond the bounds
that the runs had then, and the proofs found it: `AgentsDoorIsAtomic` used to say that a signature has at most one open
incident, which takes three failures of one signature to refute (hence the environment `Recurring`), and
`PatternsAddUp` that successes never exceed applications, which a late write without the counters breaks. Both now
say what the code does, and section 4 lists the two behaviours. Counts (`CountsAddUp`, `LoadIsComplete`) are
stated as cardinalities of sets rather than as folds over a sequence: what a fold computes could
only be proved by induction over data.

Only model-checked:

- what needs fairness, which is beyond the prover: `LockEventuallyFree`, `InProgressResolves`, `Terminates`, `Settles`,
  `ResolutionArrives`, `RcaEnds`;
- the properties of the violation runs, which are false.

`NoLostUpdate` and `EscalationBacked` are proved within the hypotheses of their theorems, which the run
`fix_requests` satisfies; outside of them nothing is claimed, and with the fixer the first is false (`fix_lost_update`).

## 7. Abstractions and limits

- LLM answers, SAP CPI, ITSM and runtime states are nondeterministic choices, taken where the code
  awaits them. Confidence, policy and error type are left open: the model may take any branch they
  could lead to. `force=true` only skips a step that need not be taken.
- Database calls are synchronous and part of the action that makes them. In `EventPipeline` inserts, counts and lookups may
  fail; in `FixExecution` inserting a ticket may. What does not fail in either is `update_incident`: that the statement
  raises after a count was committed, or leaves a status behind, is not modelled.
- `get-iflow` for the snapshot and for the fix is one read, and a fix's upload, deploy and further
  passes are one write: what happens between them inside one coroutine is `FixSupervisor`'s.
- An XML version is known by whose changes it has (`original`, `fixed`, `mixed`, `corrected`). What an
  agent run without evaluation has done is any of: nothing, an upload, an upload and a deploy that
  worked or failed.
- The order in which strategies are tried, by past success, is open: any untried one.
- The blind redeploy in `ask_fix_and_deploy` is not modelled: `get_deploy_error_details` never
  returns an empty text, so it is dead code.
- One incident row's text fields are reduced to whether an actionable fix is stored (`actionable`),
  whether a snapshot is (`snapshots`) and the class of the last failed stage (`lastStage`).
- Coroutines of one process cannot be interrupted between awaits, so no
  finer interleaving exists. Several processes are outside the design: the locks are in memory.
- The services of `BackgroundServices` and `DiagnosisServices` are not composed with the pipeline: they
  share no state with it that a property here speaks of. What they tell it (a token, a row, a setting,
  an answer, a diagnosis) is a choice there. In `RuntimeSettings` the gate is one step.
- `EventPipeline` counts incidents up to `MaxRows` and copies of a message up to `MaxCopies`; an event that
  would need more is not delivered. The clock of the burst window is a flag of the row that may go out.
- `TokenCache` is one cache; dropping a refused token is the ITSM client's alone and allowed always.
- `DbPool` distinguishes connections that work from those that do not. Rows, transactions and locks of the database
  are not modelled but in `FixPatterns` and `TableMigration`, where statements of two callers interleave.
- `IflowValidator` reduces XML to what the seven checks tell apart; paths and prefixes are values.

Not modelled, and why: the sweeper, whose only effect is a redeploy before its ImportError; the dashboards (read-only queries);
the vector store, object storage and the prompts (I/O and text); discovery of MCP tools and the construction of agents
(I/O at start); schema creation; the scraper, the vectoriser and the demo seed (linear scripts without
state of this system); the browser user interface; the classifier's rules (regular expressions over error texts, whose
result is an input of `RcaRun` and `EventPipeline`).

## 8. Plan

Done: the fix path and the fix attempt, the event pipeline with detection, the services around it, and their
proofs as far as section 6 says. In order of importance, next:

1. An instance of `FixExecution` in which name and design-time id differ: two locks for one artifact.
2. The content of the snapshot in `FixExecution`: what a rollback after two attempts restores.
3. What `apply_fix` may overwrite: an ordering of the statuses that a later write must respect.
4. An abstract specification of `ItsmSync` (a ticket is escalated once and resolved once) for it to refine.
5. Composition of `ItsmSync` with `FixExecution` over the status of the incident, once two writers of it
   (poller and fix path) are worth a run of their own.
