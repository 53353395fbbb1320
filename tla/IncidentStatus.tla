--------------------------- MODULE IncidentStatus ---------------------------
(***************************************************************************)
(* The vocabulary of EM_INCIDENTS.status and the pure decisions the code   *)
(* takes on it: which statuses each HTTP endpoint accepts, and the status  *)
(* a finished fix attempt is given.  No state: every other module of the   *)
(* fix path EXTENDS this one.                                              *)
(***************************************************************************)

\* Statuses the fix path reads or writes.
Status ==
    { "RCA_IN_PROGRESS", "RCA_COMPLETE", "RCA_FAILED", "RCA_INCONCLUSIVE",
      "AWAITING_APPROVAL", "REJECTED", "RETRIED",
      "FIX_IN_PROGRESS", "FIX_APPLIED_PENDING_VERIFICATION", "FIX_DEPLOYED",
      "FIX_VERIFIED", "AUTO_FIXED", "ROLLED_BACK",
      "FIX_FAILED", "FIX_FAILED_UPDATE", "FIX_FAILED_DEPLOY",
      "FIX_FAILED_RUNTIME", "ARTIFACT_MISSING", "TICKET_CREATED" }

\* The two statuses that claim a worker is busy on the incident.
InProgress == { "RCA_IN_PROGRESS", "FIX_IN_PROGRESS" }

FixFailed == { "FIX_FAILED", "FIX_FAILED_UPDATE", "FIX_FAILED_DEPLOY" }

\* approve_fix: anything else is answered with HTTP 400.
Approvable == { "AWAITING_APPROVAL", "RCA_COMPLETE" }

\* generate_fix_for_incident.
Generatable == Approvable \union FixFailed \union { "FIX_FAILED_RUNTIME" }

\* apply_fix: "Guard: reject concurrent fix attempts on the same incident".
ApplyBlocked == InProgress \union { "FIX_APPLIED_PENDING_VERIFICATION" }

\* retry_fix.
FixRetryable ==
    FixFailed \union { "FIX_FAILED_RUNTIME", "FIX_APPLIED_PENDING_VERIFICATION" }

\* retry_rca; HUMAN_INITIATED_FIX is never written on the modelled paths.
RcaRetryBlocked == { "FIX_VERIFIED", "RETRIED", "REJECTED", "TICKET_CREATED" }

\* resolve_incident; VERIFICATION_UNAVAILABLE is never written by this code.
Resolvable == FixFailed \union { "FIX_FAILED_RUNTIME" }

\* OrchestratorAgent._handle_fix: the statuses under which it does not test.
FixNotApplied == FixFailed \union { "ARTIFACT_MISSING", "TICKET_CREATED" }

-----------------------------------------------------------------------------
(***************************************************************************)
(* What FixAgent.apply_fix and ask_deploy_only return, named by            *)
(* failed_stage; "ok" is a success without a stage, "validation_warning" a *)
(* success whose XML validation was incomplete.                            *)
(***************************************************************************)
UpdateStage == { "update", "get", "locked", "patcher", "validation",
                 "validation_blocked" }

FixSuccess == { "ok", "validation_warning" }

FixOutcome == FixSuccess \union UpdateStage
                \union { "pending_deploy", "deploy", "deploy_validation",
                         "agent", "tool_validation", "validation_error",
                         "no_tool_calls", "recursion_limit" }

\* The outcomes whose XML is uploaded and not running.
UploadedOnly == { "pending_deploy", "deploy", "deploy_validation" }

\* The outcomes of an attempt that has uploaded XML: "validation_error" is reported when
\* the agent deployed XML the validator had refused.
Uploaded == FixSuccess \union UploadedOnly \union { "validation_error" }

\* retry_failed_message: not attempted, replayed, replay failed, no tool for it.
Replay == { "none", "success", "failed", "skipped" }

\* FixAgent.determine_post_fix_status.
PostFixStatus(outcome, retryPolicy, replay) ==
    CASE outcome = "pending_deploy" -> "FIX_APPLIED_PENDING_VERIFICATION"
      [] outcome \in { "deploy", "deploy_validation" } -> "FIX_FAILED_DEPLOY"
      [] outcome \in UpdateStage -> "FIX_FAILED_UPDATE"
      [] outcome = "validation_warning" -> "FIX_DEPLOYED"
      [] outcome = "ok" ->
            IF retryPolicy /\ replay = "failed" THEN "FIX_DEPLOYED"
                                                ELSE "FIX_VERIFIED"
      [] OTHER -> "FIX_FAILED"
=============================================================================
