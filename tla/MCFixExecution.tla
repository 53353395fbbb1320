--------------------------- MODULE MCFixExecution ---------------------------
(***************************************************************************)
(* Instances of FixExecution for TLC: which artifacts the incidents name,  *)
(* and which endpoints and outcomes a run exercises.                       *)
(***************************************************************************)
EXTENDS FixExecution, TLC

CONSTANT artifact   \* the iFlow, by its MPL name and by its design-time id

Symmetry == Permutations(Task)

\* MPL name and design-time id agree, and all incidents are about one iFlow.
OneName == [i \in Incident |-> artifact]

Requests  == { "approve", "generate_sync", "reject", "retry", "resolve" }
Approvals == { "approve", "apply_sync" }
Rollbacks == { "approve", "rollback" }
Overlapping == { "approve", "fixer" }

Pipelines == { "apply", "rollback", "gate", "fixer", "verifier" }

\* What retry_fix treats in its own way: a locked artifact and an upload that is not
\* running yet; a deploy-only pass on the latter may succeed.
SomeOutcomes == { "locked", "pending_deploy" }
\* A fix that succeeds and one that fails.
FewOutcomes  == { "ok", "update" }
=============================================================================
