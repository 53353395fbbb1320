-------------------------- MODULE PipelineContract --------------------------
(***************************************************************************)
(* What the stages of the pipeline promise whatever the order, number and  *)
(* loss of messages: an iFlow is changed only for an incident with a       *)
(* diagnosis, and the verifier tests only what was changed.                *)
(***************************************************************************)
CONSTANT Incident

VARIABLES diagnosed, fixed, tested   \* incidents that have been through a stage

vars == << diagnosed, fixed, tested >>

Init == diagnosed = {} /\ fixed = {} /\ tested = {}

Diagnose(i) == diagnosed' = diagnosed \union {i} /\ UNCHANGED << fixed, tested >>

Fix(i) ==
    /\ i \in diagnosed
    /\ fixed' = fixed \union {i}
    /\ UNCHANGED << diagnosed, tested >>

Test(i) ==
    /\ i \in fixed
    /\ tested' = tested \union {i}
    /\ UNCHANGED << diagnosed, fixed >>

Next == \E i \in Incident : Diagnose(i) \/ Fix(i) \/ Test(i)

Spec == Init /\ [][Next]_vars
=============================================================================
