--------------------------- MODULE FixSupervisor ---------------------------
(***************************************************************************)
(* One call of FixAgent.ask_fix_and_deploy: FixSupervisor.supervise tries  *)
(* strategies on one iFlow and puts the original XML back between them;    *)
(* ask_fix_and_deploy then reviews the result, with further agent runs of  *)
(* its own.  FixExecution sees all of this as its steps FixRead and        *)
(* FixWrite and the outcome that IncidentStatus names.                     *)
(*                                                                         *)
(* An XML version is known by whose changes it has, a patch by how it is   *)
(* made; what the LLM agents and SAP CPI do is a nondeterministic choice.  *)
(***************************************************************************)
EXTENDS IncidentStatus, Naturals

CONSTANTS
    MaxAttempts,   \* _MAX_ATTEMPTS
    MaxPasses      \* correction passes after a failed deployment

ASSUME BoundsAssumption == MaxAttempts \in Nat \ {0} /\ MaxPasses \in Nat \ {0}

VARIABLES
    pc,         \* where the call is
    directFix,  \* the changes that RCA names exist in the XML
    strategy,   \* the strategy of the current attempt ...
    planned,    \* ... and whether the planner made it, with operations
    tried, attempts, passes,
    ok, applied, stage,   \* the result so far: success, fix_applied, failed_stage
    design,     \* the XML in the design-time artifact
    running,    \* the XML that runs, or "error" after a deployment that failed
    unrestored  \* history: the last upload of the original XML failed

result   == << ok, applied, stage >>
plan     == << directFix, strategy, planned, tried, attempts >>
artifact == << design, running >>
vars     == << pc, plan, passes, result, artifact, unrestored >>

Strategy == { "direct_patch", "component_replace", "structured", "free_xml" }

\* The XML the call began with; one attempt's fix of it; a fix made on top of another
\* attempt's; a correction of deploy errors without the fix.
Version == { "original", "fixed", "mixed", "corrected" }

HasFix == { "fixed", "mixed" }

\* failed_stage "timeout", told apart by what _diagnose_timeout reads in the steps: whether
\* the agent got as far as a deploy-iflow or an update-iflow.
Timeout == { "timeout_deploy", "timeout_update", "timeout_agent" }

NonRecoverable == Timeout \union { "locked", "agent", "no_tool_calls", "validation_blocked" }

\* What failed_stage may be on the way.
Stage == FixOutcome \union Timeout \union { "none", "raised" }

TypeOK ==
    /\ pc \in { "start", "plan", "attempt", "rotate", "restore", "give_up", "supervised",
                "fallback", "fallen_back", "revalidate", "unlock", "deployed", "correct", "done" }
    /\ directFix \in BOOLEAN
    /\ strategy \in Strategy /\ planned \in BOOLEAN
    /\ tried \subseteq Strategy
    /\ attempts \in 0 .. MaxAttempts
    /\ passes \in 0 .. MaxPasses
    /\ ok \in BOOLEAN /\ applied \in BOOLEAN
    /\ stage \in IF pc = "done" THEN FixOutcome \union { "raised" } ELSE Stage
    /\ design \in Version
    /\ running \in Version \union { "error" }
    /\ unrestored \in BOOLEAN

Init ==
    /\ pc = "start"
    /\ directFix \in BOOLEAN
    /\ strategy = "free_xml" /\ planned = FALSE
    /\ tried = {} /\ attempts = 0 /\ passes = 0
    /\ ok = FALSE /\ applied = FALSE /\ stage = "none"
    /\ design = "original" /\ running = "original"
    /\ unrestored = FALSE

Result(success, fixApplied, failedStage) ==
    ok' = success /\ applied' = fixApplied /\ stage' = failedStage

-----------------------------------------------------------------------------
(* What uploads and agent runs do *)

\* An agent's fix of the XML it is given.
Fix(version) == IF version = "original" THEN "fixed" ELSE "mixed"

\* Deploy errors corrected in the XML that get-iflow returns.
Correct(version) == IF version = "original" THEN "corrected" ELSE version

\* An agent that ends without an evaluation may have uploaded and deployed before.
MayTouch(versions) ==
    /\ design' \in {design} \union versions
    /\ running' \in { running, design', "error" }

\* evaluate_fix_result on the steps of an agent that uploads one of these versions.
Evaluated(versions, successStages) ==
    \/ /\ MayTouch(versions)
       /\ \E s \in { "update", "locked" } : Result(FALSE, FALSE, s)
    \/ /\ design' \in versions
       /\ running' \in { running, design', "error" }
       /\ Result(FALSE, TRUE, "deploy")
    \/ /\ design' \in versions
       /\ running' \in { design', "error" }
       /\ \/ Result(FALSE, FALSE, "validation_error")
          \/ \E s \in successStages : Result(TRUE, TRUE, s)

\* A run whose evaluation the caller discards.
Discarded(versions) == MayTouch(versions) /\ UNCHANGED result

\* _run_free_xml_agent and _evaluate_free_xml; the agent works on the XML in its prompt or
\* on what it downloads.  After a deploy, _poll_for_started takes any silence for success.
FreeXml ==
    LET versions == { "fixed", Fix(design) }
    IN  \/ Evaluated(versions, { "ok" })
        \/ /\ MayTouch(versions)
           /\ \E s \in { "timeout_update", "timeout_agent", "recursion_limit", "agent",
                        "validation_blocked" } : Result(FALSE, FALSE, s)
        \/ /\ design' \in versions   \* it deploys what it has uploaded
           /\ running' \in { running, design', "error" }
           /\ Result(FALSE, FALSE, "timeout_deploy")
        \/ Result(FALSE, FALSE, "no_tool_calls") /\ UNCHANGED artifact

\* pre_validate refuses the patch, so nothing is sent.
Rejected == Result(FALSE, FALSE, "validation") /\ UNCHANGED artifact

\* _apply_structured: the operations are applied to the original, whatever is there.
Structured ==
    \/ Rejected
    \/ Result(FALSE, FALSE, "locked") /\ UNCHANGED artifact
    \/ /\ design' \in { design, "fixed" } /\ UNCHANGED running
       /\ Result(FALSE, FALSE, "update")
    \/ /\ design' = "fixed"
       /\ running' \in { running, "fixed", "error" }
       /\ Result(FALSE, TRUE, "deploy")
    \/ /\ design' = "fixed"
       /\ running' \in { "fixed", "error" }
       /\ Result(TRUE, TRUE, "ok")

\* A merged XML travels as an operation without target_component, which
\* apply_fix_operations refuses.  A strategy without operations falls back to the agent.
Merged(s, p) == p /\ s \in { "direct_patch", "component_replace" }

ByAgent(s, p) == s = "free_xml" \/ ~p

\* FixGenerator.generate, FixValidator.pre_validate and FixApplier.apply.
GenerateAndApply(s, p) ==
    \/ Merged(s, p) /\ Rejected
    \/ p /\ s = "structured" /\ Structured
    \/ ByAgent(s, p) /\ FreeXml

-----------------------------------------------------------------------------
(* supervise *)

\* The planner takes RCA's changes if they can be made, whenever it is asked.
PlannerChoice == IF directFix THEN { "direct_patch" } ELSE Strategy \ { "direct_patch" }

\* The iFlow is downloaded first: without tools or a main XML the call ends, without an
\* answer the planner raises, with and without the supervisor.
Prefetch ==
    /\ pc = "start"
    /\ \/ pc' = "plan" /\ UNCHANGED result
       \/ /\ pc' = "done"
          /\ \E s \in { "tool_validation", "get", "raised" } : Result(FALSE, FALSE, s)
    /\ UNCHANGED << plan, passes, artifact, unrestored >>

Plan ==
    /\ pc = "plan"
    /\ strategy' \in PlannerChoice
    /\ planned' = TRUE
    /\ tried' = { strategy' }
    /\ attempts' = 1
    /\ pc' = "attempt"
    /\ UNCHANGED << directFix, passes, result, artifact, unrestored >>

Attempt ==
    /\ pc = "attempt"
    /\ GenerateAndApply(strategy, planned)
    /\ pc' = IF ok' \/ stage' = "validation_blocked" THEN "supervised"
             ELSE IF stage' \in NonRecoverable THEN "give_up" ELSE "rotate"
    /\ UNCHANGED << plan, passes, unrestored >>

\* Mutated form: the restore is left out.
Restored_Skipped == UNCHANGED << design, unrestored >>

\* update-iflow with the original XML; a failure is only logged.
Restored ==
    \/ design' = "original" /\ unrestored' = FALSE
    \/ UNCHANGED design /\ unrestored' = TRUE

\* Mutated form: off by one.
LastAttempt_OneMore == attempts > MaxAttempts

LastAttempt == attempts = MaxAttempts

\* The next strategy not tried yet, in the order of their past successes.  A failed
\* deployment is rolled back at once; direct_patch is planned anew, and the planner may
\* answer with a strategy that has been tried.
Rotate ==
    /\ pc = "rotate"
    /\ \E next \in Strategy \ tried :
         IF next = "direct_patch"
           THEN /\ strategy' \in PlannerChoice
                /\ planned' = TRUE
                /\ tried' = tried \union { "direct_patch" }
           ELSE strategy' = next /\ planned' = FALSE /\ UNCHANGED tried
    /\ IF applied /\ stage = "deploy" THEN Restored ELSE UNCHANGED << design, unrestored >>
    /\ pc' = IF LastAttempt THEN "give_up" ELSE "restore"
    /\ UNCHANGED << directFix, attempts, passes, result, running >>

Exhausted ==
    /\ pc = "rotate"
    /\ tried = Strategy
    /\ pc' = "give_up"
    /\ UNCHANGED << plan, passes, result, artifact, unrestored >>

\* The head of the loop.
NextAttempt ==
    /\ pc = "restore"
    /\ Restored
    /\ tried' = tried \union { strategy }
    /\ attempts' = attempts + 1
    /\ pc' = "attempt"
    /\ UNCHANGED << directFix, strategy, planned, passes, result, running >>

\* Escalate, with the original XML restored first.  The result keeps what the last
\* attempt said of itself.
GiveUp ==
    /\ pc = "give_up"
    /\ Restored
    /\ pc' = "supervised"
    /\ UNCHANGED << plan, passes, result, running >>

\* The supervisor raises on an answer of the agent that is not text, and the linear
\* pipeline starts over on whatever the attempt left.
SupervisorRaises ==
    /\ pc = "attempt"
    /\ ByAgent(strategy, planned)
    /\ MayTouch({ "fixed", Fix(design) })
    /\ pc' = "fallback"
    /\ UNCHANGED << plan, passes, result, unrestored >>

Fallback ==
    /\ pc = "fallback"
    /\ strategy' \in PlannerChoice /\ planned' = TRUE
    /\ \/ GenerateAndApply(strategy', TRUE) /\ pc' = "fallen_back"
       \/ /\ ByAgent(strategy', TRUE)
          /\ MayTouch({ "fixed", Fix(design) })
          /\ Result(FALSE, FALSE, "raised")
          /\ pc' = "done"
    /\ UNCHANGED << directFix, tried, attempts, passes, unrestored >>

-----------------------------------------------------------------------------
(* What ask_fix_and_deploy makes of the result *)

Reviewing == pc \in { "supervised", "fallen_back" }

ReturnResult ==
    /\ Reviewing
    /\ ok \/ stage = "validation_blocked"
    /\ pc' = "done"
    /\ UNCHANGED << plan, passes, result, artifact, unrestored >>

\* _poll_deploy_status looks whether the artifact is started, in whichever version.
Started == running # "error"

\* After a timeout: the diagnosis, and for a deployment under way a look at the runtime.
DiagnoseTimeout ==
    /\ Reviewing
    /\ \/ stage = "timeout_update" /\ Result(FALSE, FALSE, "update")
       \/ stage = "timeout_agent" /\ Result(FALSE, FALSE, "agent")
       \/ /\ stage = "timeout_deploy"
          /\ \/ Started /\ Result(TRUE, TRUE, "ok")
             \/ Result(FALSE, TRUE, "deploy")
    /\ pc' = "done"
    /\ UNCHANGED << plan, passes, artifact, unrestored >>

\* A failed attempt in which validate_iflow_xml was not called, or complained, is
\* followed by one more agent run.  A patch without agent never calls it.
Review ==
    /\ Reviewing
    /\ ~ok /\ stage \notin Timeout \union { "validation_blocked" }
    /\ \/ stage = "locked" /\ pc' = "unlock"
       \/ stage # "locked" /\ pc' = "revalidate"
       \/ stage # "locked" /\ ByAgent(strategy, planned) /\ pc' = "deployed"
    /\ UNCHANGED << plan, passes, result, artifact, unrestored >>

\* The run counts only if it uploaded something, or gives up on a structural regression.
Revalidate ==
    /\ pc = "revalidate"
    /\ \/ Evaluated({ Fix(design) }, FixSuccess) /\ applied'
       \/ MayTouch({ Fix(design) }) /\ Result(FALSE, FALSE, "validation_blocked")
       \/ Discarded({ Fix(design) })
    /\ pc' = "deployed"
    /\ UNCHANGED << plan, passes, unrestored >>

\* One more run if the checkout could be cancelled.
Unlock ==
    /\ pc = "unlock"
    /\ \/ Evaluated({ "fixed", Fix(design) }, FixSuccess)
       \/ Discarded({ "fixed", Fix(design) })
    /\ pc' = "deployed"
    /\ UNCHANGED << plan, passes, unrestored >>

\* Uploaded but not deployed: look at the runtime, then at the deploy error, which
\* always has a text, if only that there is none.
CheckDeployment ==
    /\ pc = "deployed"
    /\ IF applied /\ ~ok /\ stage = "deploy"
         THEN \/ Started /\ Result(TRUE, TRUE, "ok") /\ pc' = "done"
              \/ pc' = "correct" /\ UNCHANGED result
              \/ Result(FALSE, FALSE, "raised") /\ pc' = "done"
         ELSE pc' = "done" /\ UNCHANGED result
    /\ UNCHANGED << plan, passes, artifact, unrestored >>

\* Mutated form: failed passes are not counted.
CorrectionFails_Uncounted ==
    /\ pc = "correct"
    /\ MayTouch({ Correct(design) })
    /\ Result(FALSE, TRUE, "deploy_validation")
    /\ UNCHANGED << pc, plan, passes, unrestored >>

\* A pass that fails; the last one, or one that raises, leaves the fix pending.
CorrectionFails ==
    /\ pc = "correct"
    /\ MayTouch({ Correct(design) })
    /\ passes' = passes + 1
    /\ \/ passes' < MaxPasses /\ Result(FALSE, TRUE, "deploy_validation") /\ UNCHANGED pc
       \/ Result(FALSE, TRUE, "pending_deploy") /\ pc' = "done"
    /\ UNCHANGED << plan, unrestored >>

CorrectionSucceeds ==
    /\ pc = "correct"
    /\ design' = Correct(design)
    /\ running' \in { design', "error" }
    /\ \E s \in FixSuccess : Result(TRUE, TRUE, s)
    /\ pc' = "done"
    /\ UNCHANGED << plan, passes, unrestored >>

Next ==
    \/ Prefetch \/ Plan \/ Attempt \/ Rotate \/ Exhausted \/ NextAttempt \/ GiveUp
    \/ SupervisorRaises \/ Fallback
    \/ ReturnResult \/ DiagnoseTimeout \/ Review \/ Revalidate \/ Unlock
    \/ CheckDeployment \/ CorrectionFails \/ CorrectionSucceeds

Spec == Init /\ [][Next]_vars

\* Every agent run and every poll has a timeout.
FairSpec == Spec /\ WF_vars(Next)

-----------------------------------------------------------------------------
(* Properties *)

\* "the original iFlow XML is restored before retry so a bad attempt never poisons the
\* next one": each attempt of the supervisor begins with the original XML, so does whoever
\* follows a supervisor that gave up, and a success is one attempt's fix of the original,
\* unless the last upload that restores it failed.
NeverPoisoned ==
    /\ pc = "attempt" \/ (pc = "supervised" /\ ~ok /\ stage # "validation_blocked")
         => design = "original" \/ unrestored
    /\ pc = "supervised" /\ ok => design = "fixed" \/ unrestored

\* The call ends, whatever strategies, plans and correction passes fail.
Terminates == <>(pc = "done")

\* "Fixed XML was uploaded ... Use 'Deploy Only'" and "updated and deployed
\* successfully" are said only when the design-time artifact has the fix.
ReportedFixPresent ==
    pc = "done" /\ (ok \/ stage = "pending_deploy") => design \in HasFix

\* "direct_patch applies RCA fixes[] list directly to iFlow XML": an XML merged by the
\* planner gets as far as SAP CPI.
MergedPatchSent ==
    [][pc = "attempt" /\ Merged(strategy, planned) => stage' # "validation"]_vars
=============================================================================
