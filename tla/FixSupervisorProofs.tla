------------------------ MODULE FixSupervisorProofs ------------------------
(***************************************************************************)
(* Proofs about FixSupervisor, for any number of attempts and correction   *)
(* passes: its types, the outcomes it may return, and that no attempt of   *)
(* the supervisor is built on what another one left behind.                *)
(***************************************************************************)
EXTENDS FixSupervisor, TLAPS

\* What TypeOK says of one point of the call rests on the points before it.
ControlOK ==
    /\ ok => stage \in FixSuccess
    /\ pc \in { "rotate", "give_up", "supervised", "fallen_back" }
         => stage \in FixOutcome \union Timeout
    /\ pc \in { "revalidate", "unlock", "deployed", "correct" } => stage \in FixOutcome
    /\ pc = "restore" => attempts < MaxAttempts
    /\ pc \notin { "correct", "done" } => passes = 0
    /\ pc = "correct" => passes < MaxPasses

\* The inductive strengthening of NeverPoisoned: the first attempt finds the original,
\* and only a failed attempt is given up.
CleanOK ==
    /\ NeverPoisoned
    /\ pc \in { "start", "plan" } => design = "original"
    /\ pc \in { "rotate", "give_up" } => ~ok

IInv == TypeOK /\ ControlOK /\ CleanOK

-----------------------------------------------------------------------------
(* What the runs of an agent and the patches do to the artifact and the result *)

LEMMA FixType ==
  ASSUME design \in Version
  PROVE  /\ { "fixed", Fix(design) } \subseteq Version
         /\ { Fix(design) } \subseteq Version
         /\ { Correct(design) } \subseteq Version
         /\ design = "original" => Fix(design) = "fixed"
  BY DEF Fix, Correct, Version

LEMMA MayTouchType ==
  ASSUME TypeOK, NEW versions \in SUBSET Version, MayTouch(versions)
  PROVE  design' \in Version /\ running' \in Version \union { "error" }
  BY DEF TypeOK, MayTouch

LEMMA EvaluatedType ==
  ASSUME TypeOK, NEW versions \in SUBSET Version, NEW successStages \in SUBSET FixSuccess,
         Evaluated(versions, successStages)
  PROVE  /\ design' \in Version /\ running' \in Version \union { "error" }
         /\ ok' \in BOOLEAN /\ applied' \in BOOLEAN /\ stage' \in FixOutcome
         /\ ok' => stage' \in successStages /\ design' \in versions
  <1>1. CASE /\ MayTouch(versions)
             /\ \E s \in { "update", "locked" } : Result(FALSE, FALSE, s)
    BY <1>1, MayTouchType DEF Result, FixOutcome, UpdateStage
  <1>2. CASE /\ design' \in versions
             /\ running' \in { running, design', "error" }
             /\ Result(FALSE, TRUE, "deploy")
    BY <1>2 DEF TypeOK, Result, FixOutcome
  <1>3. CASE /\ design' \in versions
             /\ running' \in { design', "error" }
             /\ \/ Result(FALSE, FALSE, "validation_error")
                \/ \E s \in successStages : Result(TRUE, TRUE, s)
    BY <1>3 DEF Result, FixOutcome
  <1> QED  BY <1>1, <1>2, <1>3 DEF Evaluated

LEMMA FreeXmlType ==
  ASSUME TypeOK, FreeXml
  PROVE  /\ design' \in Version /\ running' \in Version \union { "error" }
         /\ ok' \in BOOLEAN /\ applied' \in BOOLEAN
         /\ stage' \in FixOutcome \union Timeout
         /\ ok' => stage' \in FixSuccess /\ design' \in { "fixed", Fix(design) }
  <1> DEFINE versions == { "fixed", Fix(design) }
  <1>1. versions \in SUBSET Version  BY FixType DEF TypeOK
  <1>2. CASE Evaluated(versions, { "ok" })
    <2>1. { "ok" } \in SUBSET FixSuccess  BY DEF FixSuccess
    <2> QED  BY <1>1, <1>2, <2>1, EvaluatedType
  <1>3. CASE /\ MayTouch(versions)
             /\ \E s \in { "timeout_update", "timeout_agent", "recursion_limit", "agent",
                           "validation_blocked" } : Result(FALSE, FALSE, s)
    BY <1>1, <1>3, MayTouchType DEF Result, FixOutcome, Timeout, UpdateStage
  <1>4. CASE /\ design' \in versions
             /\ running' \in { running, design', "error" }
             /\ Result(FALSE, FALSE, "timeout_deploy")
    BY <1>1, <1>4 DEF TypeOK, Result, Timeout
  <1>5. CASE Result(FALSE, FALSE, "no_tool_calls") /\ UNCHANGED artifact
    BY <1>5 DEF TypeOK, Result, artifact, FixOutcome
  <1> QED  BY <1>2, <1>3, <1>4, <1>5 DEF FreeXml

LEMMA StructuredType ==
  ASSUME TypeOK, Structured
  PROVE  /\ design' \in Version /\ running' \in Version \union { "error" }
         /\ ok' \in BOOLEAN /\ applied' \in BOOLEAN /\ stage' \in FixOutcome
         /\ ok' => stage' \in FixSuccess /\ design' = "fixed"
  <1>1. CASE Rejected
    BY <1>1 DEF Rejected, Result, artifact, TypeOK, FixOutcome, UpdateStage
  <1>2. CASE Result(FALSE, FALSE, "locked") /\ UNCHANGED artifact
    BY <1>2 DEF Result, artifact, TypeOK, FixOutcome, UpdateStage
  <1>3. CASE design' \in { design, "fixed" } /\ UNCHANGED running /\ Result(FALSE, FALSE, "update")
    BY <1>3 DEF Result, TypeOK, FixOutcome, UpdateStage, Version
  <1>4. CASE /\ design' = "fixed" /\ running' \in { running, "fixed", "error" }
             /\ Result(FALSE, TRUE, "deploy")
    BY <1>4 DEF Result, TypeOK, FixOutcome, Version
  <1>5. CASE /\ design' = "fixed" /\ running' \in { "fixed", "error" }
             /\ Result(TRUE, TRUE, "ok")
    BY <1>5 DEF Result, FixOutcome, FixSuccess, Version
  <1> QED  BY <1>1, <1>2, <1>3, <1>4, <1>5 DEF Structured

LEMMA GenerateAndApplyType ==
  ASSUME TypeOK, NEW s, NEW p, GenerateAndApply(s, p)
  PROVE  /\ design' \in Version /\ running' \in Version \union { "error" }
         /\ ok' \in BOOLEAN /\ applied' \in BOOLEAN
         /\ stage' \in FixOutcome \union Timeout
         /\ ok' => stage' \in FixSuccess /\ design' \in { "fixed", Fix(design) }
  <1>1. CASE Rejected
    BY <1>1 DEF Rejected, Result, artifact, TypeOK, FixOutcome, UpdateStage
  <1>2. CASE Structured  BY <1>2, StructuredType
  <1>3. CASE FreeXml  BY <1>3, FreeXmlType
  <1> QED  BY <1>1, <1>2, <1>3 DEF GenerateAndApply

-----------------------------------------------------------------------------
(* IInv is inductive *)

LEMMA IInvInit == Init => IInv
  <1> SUFFICES ASSUME Init PROVE IInv
    OBVIOUS
  <1> USE DEF Init
  <1>0. ok \in BOOLEAN /\ applied \in BOOLEAN /\ planned \in BOOLEAN /\ unrestored \in BOOLEAN
    BY Zenon
  <1>1. TypeOK
    BY <1>0, BoundsAssumption DEF TypeOK, Strategy, Version, Stage
  <1>2. ControlOK  BY DEF ControlOK
  <1>3. CleanOK    BY DEF CleanOK, NeverPoisoned
  <1> QED  BY <1>1, <1>2, <1>3 DEF IInv

LEMMA AttemptInv ==
  ASSUME IInv, Attempt  PROVE IInv'
  <1> USE DEF Attempt, plan, IInv
  <1>1. /\ design' \in Version /\ running' \in Version \union { "error" }
        /\ ok' \in BOOLEAN /\ applied' \in BOOLEAN
        /\ stage' \in FixOutcome \union Timeout
        /\ ok' => stage' \in FixSuccess /\ design' \in { "fixed", Fix(design) }
    BY GenerateAndApplyType
  <1>2. TypeOK'     BY <1>1 DEF TypeOK, Stage
  <1>3. ControlOK'  BY <1>1 DEF ControlOK
  <1>4. CleanOK'
    <2>1. design = "original" \/ unrestored  BY DEF CleanOK, NeverPoisoned
    <2>2. pc' \in { "rotate", "give_up" } => ~ok'  BY <1>1 DEF TypeOK
    <2>3. NeverPoisoned'  BY <1>1, <2>1, FixType DEF TypeOK, NeverPoisoned
    <2> QED  BY <2>2, <2>3 DEF CleanOK
  <1> QED  BY <1>2, <1>3, <1>4

LEMMA RestoredType ==
  ASSUME TypeOK, Restored
  PROVE  /\ design' \in Version /\ unrestored' \in BOOLEAN
         /\ design' = "original" \/ unrestored'
  BY DEF TypeOK, Restored, Version

LEMMA PlannerChoiceType == PlannerChoice \subseteq Strategy
  BY DEF PlannerChoice, Strategy

\* The steps of supervise other than an attempt.
LEMMA SuperviseInv ==
  ASSUME IInv, Prefetch \/ Plan \/ Rotate \/ Exhausted \/ NextAttempt \/ GiveUp \/ SupervisorRaises
  PROVE  IInv'
  <1> USE DEF IInv, plan, result, artifact
  <1>1. CASE Prefetch
    <2> USE <1>1 DEF Prefetch, Result
    <2>1. TypeOK'     BY DEF TypeOK, Stage, FixOutcome, UpdateStage
    <2>2. ControlOK'  BY DEF ControlOK
    <2>3. CleanOK'    BY DEF CleanOK, NeverPoisoned
    <2> QED  BY <2>1, <2>2, <2>3
  <1>2. CASE Plan
    <2> USE <1>2 DEF Plan
    <2>1. TypeOK'     BY PlannerChoiceType, BoundsAssumption DEF TypeOK
    <2>2. ControlOK'  BY DEF ControlOK
    <2>3. CleanOK'    BY DEF CleanOK, NeverPoisoned
    <2> QED  BY <2>1, <2>2, <2>3
  <1>3. CASE Rotate
    <2> USE <1>3 DEF Rotate
    <2>1. /\ design' \in Version /\ unrestored' \in BOOLEAN
      BY RestoredType DEF TypeOK
    <2>2. /\ strategy' \in Strategy /\ planned' \in BOOLEAN /\ tried' \subseteq Strategy
      BY PlannerChoiceType DEF TypeOK
    <2>3. TypeOK'
      BY <2>1, <2>2 DEF TypeOK
    <2>4. pc' = "restore" => attempts' < MaxAttempts
      BY BoundsAssumption DEF TypeOK, LastAttempt
    <2>5. ControlOK'  BY <2>4 DEF ControlOK
    <2>6. CleanOK'    BY DEF CleanOK, NeverPoisoned
    <2> QED  BY <2>3, <2>5, <2>6
  <1>4. CASE Exhausted
    <2> USE <1>4 DEF Exhausted
    <2>1. TypeOK'     BY DEF TypeOK
    <2>2. ControlOK'  BY DEF ControlOK
    <2>3. CleanOK'    BY DEF CleanOK, NeverPoisoned
    <2> QED  BY <2>1, <2>2, <2>3
  <1>5. CASE NextAttempt
    <2> USE <1>5 DEF NextAttempt
    <2>1. attempts' \in 0 .. MaxAttempts
      BY BoundsAssumption DEF TypeOK, ControlOK
    <2>2. TypeOK'     BY <2>1, RestoredType DEF TypeOK
    <2>3. ControlOK'  BY DEF ControlOK
    <2>4. CleanOK'    BY RestoredType DEF CleanOK, NeverPoisoned
    <2> QED  BY <2>2, <2>3, <2>4
  <1>6. CASE GiveUp
    <2> USE <1>6 DEF GiveUp
    <2>1. TypeOK'     BY RestoredType DEF TypeOK
    <2>2. ControlOK'  BY DEF ControlOK
    <2>3. CleanOK'    BY RestoredType DEF CleanOK, NeverPoisoned
    <2> QED  BY <2>1, <2>2, <2>3
  <1>7. CASE SupervisorRaises
    <2> USE <1>7 DEF SupervisorRaises
    <2>1. { "fixed", Fix(design) } \in SUBSET Version  BY FixType DEF TypeOK
    <2>2. design' \in Version /\ running' \in Version \union { "error" }
      BY <2>1, MayTouchType
    <2>3. TypeOK'     BY <2>2 DEF TypeOK
    <2>4. ControlOK'  BY DEF ControlOK
    <2>5. CleanOK'    BY DEF CleanOK, NeverPoisoned
    <2> QED  BY <2>3, <2>4, <2>5
  <1> QED  BY <1>1, <1>2, <1>3, <1>4, <1>5, <1>6, <1>7

\* The linear pipeline and what follows the supervisor: CleanOK says nothing of them.
LEMMA ReviewInv ==
  ASSUME IInv, Fallback \/ ReturnResult \/ DiagnoseTimeout \/ Review \/ Revalidate \/ Unlock
               \/ CheckDeployment \/ CorrectionFails \/ CorrectionSucceeds
  PROVE  IInv'
  <1>a. /\ { Fix(design) } \in SUBSET Version /\ { "fixed", Fix(design) } \in SUBSET Version
        /\ { Correct(design) } \in SUBSET Version /\ FixSuccess \in SUBSET FixSuccess
    BY FixType DEF IInv, TypeOK
  <1>b. FixSuccess \subseteq FixOutcome  BY DEF FixSuccess, FixOutcome
  <1>c. FixOutcome \subseteq Stage /\ Timeout \subseteq Stage /\ "raised" \in Stage
    BY DEF Stage
  <1>1. pc' \in { "fallen_back", "revalidate", "unlock", "deployed", "correct", "done" }
    BY DEF Fallback, ReturnResult, DiagnoseTimeout, Review, Revalidate, Unlock,
           CheckDeployment, CorrectionFails, CorrectionSucceeds
  <1>2. CleanOK'  BY <1>1 DEF CleanOK, NeverPoisoned
  <1> USE DEF IInv, plan, result, artifact
  <1>3. CASE Fallback
    <2>0. /\ pc' = "fallen_back" \/ pc' = "done"
          /\ strategy' \in PlannerChoice /\ planned' \in BOOLEAN
          /\ UNCHANGED << directFix, tried, attempts, passes, unrestored >>
          /\ pc = "fallback"
      BY <1>3, Zenon DEF Fallback
    <2>1. /\ design' \in Version /\ running' \in Version \union { "error" }
          /\ ok' \in BOOLEAN /\ applied' \in BOOLEAN
          /\ ok' => stage' \in FixSuccess
          /\ pc' = "fallen_back" => stage' \in FixOutcome \union Timeout
          /\ pc' = "done" => stage' = "raised"
      <3>1. CASE GenerateAndApply(strategy', TRUE) /\ pc' = "fallen_back"
        BY <3>1, GenerateAndApplyType DEF FixOutcome
      <3>2. CASE /\ MayTouch({ "fixed", Fix(design) })
                 /\ Result(FALSE, FALSE, "raised") /\ pc' = "done"
        BY <1>a, <3>2, MayTouchType DEF Result
      <3> QED  BY <1>3, <3>1, <3>2 DEF Fallback
    <2>2. TypeOK'     BY <1>c, <2>0, <2>1, PlannerChoiceType DEF TypeOK
    <2>3. ControlOK'  BY <2>0, <2>1 DEF ControlOK
    <2> QED  BY <1>2, <2>2, <2>3
  <1>4. CASE ReturnResult
    <2> USE <1>4 DEF ReturnResult, Reviewing
    <2>1. stage \in FixOutcome  BY <1>b DEF ControlOK, FixOutcome, UpdateStage
    <2>2. TypeOK'     BY <2>1 DEF TypeOK
    <2>3. ControlOK'  BY DEF ControlOK
    <2> QED  BY <1>2, <2>2, <2>3
  <1>5. CASE DiagnoseTimeout
    <2> USE <1>5 DEF DiagnoseTimeout, Reviewing, Result
    <2>1. /\ ok' \in BOOLEAN /\ applied' \in BOOLEAN /\ stage' \in FixOutcome
          /\ ok' => stage' \in FixSuccess
      BY DEF FixOutcome, FixSuccess, UpdateStage
    <2>2. TypeOK'     BY <2>1 DEF TypeOK
    <2>3. ControlOK'  BY <2>1 DEF ControlOK
    <2> QED  BY <1>2, <2>2, <2>3
  <1>6. CASE Review
    <2> USE <1>6 DEF Review, Reviewing
    <2>1. stage \in FixOutcome  BY DEF ControlOK
    <2>2. TypeOK'     BY <1>c, <2>1 DEF TypeOK
    <2>3. ControlOK'  BY <2>1 DEF ControlOK
    <2> QED  BY <1>2, <2>2, <2>3
  <1>7. CASE Revalidate \/ Unlock
    <2> USE <1>7 DEF Revalidate, Unlock
    <2>1. /\ design' \in Version /\ running' \in Version \union { "error" }
          /\ ok' \in BOOLEAN /\ applied' \in BOOLEAN /\ stage' \in FixOutcome
          /\ ok' => stage' \in FixSuccess
      <3>1. CASE \/ Evaluated({ Fix(design) }, FixSuccess)
                 \/ Evaluated({ "fixed", Fix(design) }, FixSuccess)
        BY <1>a, <3>1, EvaluatedType
      <3>2. CASE MayTouch({ Fix(design) }) /\ Result(FALSE, FALSE, "validation_blocked")
        BY <1>a, <3>2, MayTouchType DEF Result, FixOutcome, UpdateStage
      <3>3. CASE Discarded({ Fix(design) }) \/ Discarded({ "fixed", Fix(design) })
        <4>1. design' \in Version /\ running' \in Version \union { "error" }
          BY <1>a, <3>3, MayTouchType DEF Discarded
        <4>2. UNCHANGED << ok, applied, stage >>  BY <3>3 DEF Discarded
        <4>3. stage \in FixOutcome  BY <1>7 DEF ControlOK
        <4> QED  BY <4>1, <4>2, <4>3 DEF TypeOK, ControlOK
      <3> QED  BY <1>7, <3>1, <3>2, <3>3 DEF Revalidate, Unlock
    <2>2. TypeOK'     BY <1>c, <2>1 DEF TypeOK
    <2>3. ControlOK'  BY <2>1 DEF ControlOK
    <2> QED  BY <1>2, <2>2, <2>3
  <1>8. CASE CheckDeployment
    <2>0. /\ pc = "deployed" /\ pc' \in { "correct", "done" }
          /\ UNCHANGED << plan, passes, artifact, unrestored >>
      BY <1>8 DEF CheckDeployment
    <2>1. /\ ok' \in BOOLEAN /\ applied' \in BOOLEAN
          /\ stage' \in FixOutcome \union { "raised" }
          /\ ok' => stage' \in FixSuccess
          /\ pc' = "correct" => stage' \in FixOutcome
      BY <1>8 DEF CheckDeployment, Result, TypeOK, ControlOK, FixOutcome, FixSuccess
    <2>2. TypeOK'     BY <1>c, <2>0, <2>1 DEF TypeOK
    <2>3. ControlOK'
      BY <2>0, <2>1, BoundsAssumption DEF ControlOK
    <2> QED  BY <1>2, <2>2, <2>3
  <1>9. CASE CorrectionFails
    <2> USE <1>9 DEF CorrectionFails, Result
    <2>1. design' \in Version /\ running' \in Version \union { "error" }
      BY <1>a, MayTouchType
    <2>2. stage' \in FixOutcome  BY DEF FixOutcome, UpdateStage
    <2>3. passes' \in 0 .. MaxPasses  BY BoundsAssumption DEF TypeOK, ControlOK
    <2>4. TypeOK'     BY <1>c, <2>1, <2>2, <2>3 DEF TypeOK
    <2>5. ControlOK'  BY <2>2 DEF ControlOK
    <2> QED  BY <1>2, <2>4, <2>5
  <1>10. CASE CorrectionSucceeds
    <2> USE <1>10 DEF CorrectionSucceeds, Result
    <2>1. design' \in Version /\ stage' \in FixSuccess  BY <1>a
    <2>2. TypeOK'     BY <1>b, <1>c, <2>1 DEF TypeOK
    <2>3. ControlOK'  BY <2>1 DEF ControlOK
    <2> QED  BY <1>2, <2>2, <2>3
  <1> QED  BY <1>3, <1>4, <1>5, <1>6, <1>7, <1>8, <1>9, <1>10

LEMMA IInvStep == IInv /\ [Next]_vars => IInv'
  <1> SUFFICES ASSUME IInv, [Next]_vars PROVE IInv'
    OBVIOUS
  <1>1. CASE Next
    BY <1>1, AttemptInv, SuperviseInv, ReviewInv DEF Next
  <1>2. CASE UNCHANGED vars
    <2> USE <1>2 DEF vars, plan, result, artifact
    <2>1. TypeOK'     BY DEF IInv, TypeOK
    <2>2. ControlOK'  BY DEF IInv, ControlOK
    <2>3. CleanOK'    BY DEF IInv, CleanOK, NeverPoisoned
    <2> QED  BY <2>1, <2>2, <2>3 DEF IInv
  <1> QED  BY <1>1, <1>2

LEMMA Inductive == Spec => []IInv
  BY IInvInit, IInvStep, PTL DEF Spec

-----------------------------------------------------------------------------

\* However many attempts and correction passes are allowed, supervise never exceeds them
\* and ask_fix_and_deploy returns an outcome its callers know, or raises.
THEOREM TypeCorrect == Spec => []TypeOK
  <1>1. IInv => TypeOK  BY DEF IInv
  <1> QED  BY <1>1, Inductive, PTL

\* The restore in supervise does what its comment promises: no attempt starts from, and no
\* success contains, the changes of a failed one, unless the upload that restores failed.
THEOREM Clean == Spec => []NeverPoisoned
  <1>1. IInv => NeverPoisoned  BY DEF IInv, CleanOK
  <1> QED  BY <1>1, Inductive, PTL
=============================================================================
