--------------------------- MODULE DiagnosisProofs ---------------------------
(***************************************************************************)
(* What TLAPS proves of the services around a diagnosis, part by part and  *)
(* then of the five together. For any number of diagnoses on one agent and *)
(* any confidences: a diagnosis in doubt is never returned as a sure one,  *)
(* and foreign notes come from later runs only. For any fixes, files and   *)
(* documents: what is compared is the own original, and what is accepted   *)
(* is no worse. For any recorders and calls: the counters of a fix add up. *)
(* For any list, page size and number of changes, any rows, batch size and *)
(* number of faults: the load and the copy are complete, except for what   *)
(* the modules name.                                                       *)
(***************************************************************************)
EXTENDS DiagnosisServices, FiniteSetTheorems, SequenceTheorems, WellFoundedInduction, TLAPS

RunState ==
    [ at : { "idle", "reclassify", "agent", "prefetch", "ask", "correct", "returned", "raised" },
      attempt : 1 .. Attempts, raw : { "none", "xml", "error" }, rule : RuleConfidence \union {0},
      conf : Nat, fixes : SUBSET FixKind ]

\* What a run's local state says of its confidence: capped while it is being corrected,
\* at most one boost over the cap when it returns values that are not in the iFlow.
Doubtful(x) ==
    /\ x.at = "correct" => x.conf <= CapAt
    /\ x.at = "returned" /\ x.raw # "none" /\ Mismatched(x.fixes) => x.conf <= CapAt + Boost

\* The agent's fields are those of the run that began last, and every run under way began.
Order ==
    /\ began # << >> => current = began[Len(began)]
    /\ \A r \in Run : rca[r].at # "idle" => \E i \in 1 .. Len(began) : began[i] = r

RInv ==
    /\ rca \in [Run -> RunState]
    /\ began \in Seq(Run)
    /\ notesOf \in [Run -> SUBSET (Run \union {NoRun})]
    /\ current \in Run \union {NoRun}
    /\ \A r \in Run : Doubtful(rca[r])
    /\ Order
    /\ NotesAreOwn

-----------------------------------------------------------------------------
(* The answer *)

LEMMA RuleNatural == \A n \in RuleConfidence \union {0} : n \in Nat
  BY RcaConstants

LEMMA BoostBounds ==
  ASSUME NEW conf \in Nat, NEW fixes
  PROVE  /\ Boosted(conf, fixes) \in Nat
         /\ conf <= CapAt => Boosted(conf, fixes) <= CapAt + Boost
  BY DEF Boosted, Greater, Lesser, Boost, Top, CapAt

LEMMA CapBounds ==
  ASSUME NEW conf \in Nat
  PROVE  Capped(conf) \in Nat /\ Capped(conf) <= CapAt
  BY DEF Capped, Lesser, CapAt

\* Filling values in never makes a fix name a value the iFlow does not have.
LEMMA FillingInvents ==
  ASSUME NEW fixes \in SUBSET FixKind, NEW raw, NEW filled \in FilledIn(fixes, raw)
  PROVE  filled \in SUBSET FixKind /\ (Mismatched(filled) => Mismatched(fixes))
  BY DEF FilledIn, FixKind, Mismatched

LEMMA SeenKinds ==
  ASSUME NEW fixes \in SUBSET FixKind, NEW raw
  PROVE  /\ FixesSeen(fixes, raw) \in SUBSET FixKind
         /\ Mismatched(fixes) => Mismatched(FixesSeen(fixes, raw))
  BY DEF FixesSeen, FixKind, Mismatched

LEMMA ReturnedState ==
  ASSUME NEW raw \in { "none", "xml", "error" }, NEW fixes \in SUBSET FixKind, NEW conf \in Nat,
         raw # "none" /\ Mismatched(fixes) => conf <= CapAt + Boost
  PROVE  LET x == Returned(raw, fixes, conf)
         IN  x \in RunState /\ x.at # "idle" /\ Doubtful(x)
  <1> DEFINE x == [ at |-> "returned", attempt |-> 1, raw |-> raw, rule |-> 0, conf |-> conf, fixes |-> fixes ]
  <1>1. Returned(raw, fixes, conf) = x  BY DEF Returned, State
  <1>2. x \in RunState  BY DEF RunState, Attempts
  <1>3. x.at # "idle" /\ Doubtful(x)  BY DEF Doubtful
  <1> QED  BY <1>1, <1>2, <1>3

-----------------------------------------------------------------------------
(* The steps *)

\* Within a run: no field of the agent, no notes.
LEMMA LocalInv ==
  ASSUME RInv, NEW r \in Run, rca[r].at # "idle", NEW x \in RunState, x.at # "idle", Doubtful(x),
         rca' = [ rca EXCEPT ![r] = x ], UNCHANGED << current, began, notesOf >>
  PROVE  RInv'
  <1>1. rca' \in [Run -> RunState]  BY DEF RInv
  <1>2. \A q \in Run : Doubtful(rca'[q])  BY DEF RInv
  <1>3. \A q \in Run : rca'[q].at # "idle" => rca[q].at # "idle"  BY DEF RInv
  <1>4. Order'  BY <1>3 DEF RInv, Order
  <1>5. NotesAreOwn'  BY DEF RInv, NotesAreOwn
  <1> QED  BY <1>1, <1>2, <1>4, <1>5 DEF RInv, Doubtful

LEMMA BeginInv ==
  ASSUME RInv, NEW r \in Run, NEW rule \in RuleConfidence, BeginRca(r, rule)
  PROVE  RInv'
  <1> USE DEF BeginRca, Shared
  <1>1. PICK at \in { "agent", "reclassify" } :
             rca' = [ rca EXCEPT ![r] = State(at, "none", rule, 0, {}) ]
    OBVIOUS
  <1> DEFINE x == [ at |-> at, attempt |-> 1, raw |-> "none", rule |-> rule, conf |-> 0, fixes |-> {} ]
  <1>2. rca' = [ rca EXCEPT ![r] = x ]  BY <1>1 DEF State
  <1>3. x \in RunState /\ Doubtful(x)  BY RcaConstants DEF RunState, Attempts, Doubtful
  <1> HIDE DEF x
  <1>4. rca' \in [Run -> RunState] /\ \A q \in Run : Doubtful(rca'[q])
    BY <1>2, <1>3 DEF RInv
  <1>5. /\ began' \in Seq(Run) /\ Len(began') = Len(began) + 1 /\ Len(began) \in Nat
        /\ began'[Len(began')] = r
        /\ \A i \in 1 .. Len(began) : began'[i] = began[i]
    BY DEF RInv
  <1>6. current' = began'[Len(began')]  BY <1>5
  <1>7. ASSUME NEW q \in Run, rca'[q].at # "idle"
        PROVE  \E i \in 1 .. Len(began') : began'[i] = q
    <2>1. CASE q = r  BY <1>5, <2>1
    <2>2. CASE q # r
      <3>1. rca[q].at # "idle"  BY <1>2, <1>7, <2>2 DEF RInv
      <3>2. PICK i \in 1 .. Len(began) : began[i] = q  BY <3>1 DEF RInv, Order
      <3> QED  BY <1>5, <3>2
    <2> QED  BY <2>1, <2>2
  <1>8. Order'  BY <1>6, <1>7 DEF Order
  <1>9. NotesAreOwn'
    <2> SUFFICES ASSUME NEW p \in Run, NEW q \in notesOf[p] \ {p}
                 PROVE  \E i, j \in 1 .. Len(began') : i < j /\ began'[i] = p /\ began'[j] = q
      BY DEF NotesAreOwn
    <2>1. PICK i, j \in 1 .. Len(began) : i < j /\ began[i] = p /\ began[j] = q
      BY DEF RInv, NotesAreOwn
    <2>2. i \in 1 .. Len(began') /\ j \in 1 .. Len(began')  BY <1>5
    <2> QED  BY <1>5, <2>1, <2>2
  <1> QED  BY <1>4, <1>5, <1>8, <1>9 DEF RInv, Doubtful

LEMMA NotesInv ==
  ASSUME RInv, NEW r \in Run, ReadNotes(r)
  PROVE  RInv'
  <1> USE DEF ReadNotes
  <1>1. notesOf' \in [Run -> SUBSET (Run \union {NoRun})]  BY DEF RInv
  <1>2. Len(began) \in Nat /\ began \in Seq(Run)  BY DEF RInv
  <1>3. PICK i \in 1 .. Len(began) : began[i] = r  BY DEF RInv, Order
  <1>4. Len(began) \in 1 .. Len(began) /\ current = began[Len(began)]
    BY <1>2, <1>3 DEF RInv, Order
  <1>5. NotesAreOwn'
    <2> SUFFICES ASSUME NEW p \in Run, NEW q \in notesOf'[p] \ {p}
                 PROVE  \E k, j \in 1 .. Len(began) : k < j /\ began[k] = p /\ began[j] = q
      BY DEF NotesAreOwn
    <2>1. CASE q \in notesOf[p]  BY <2>1 DEF RInv, NotesAreOwn
    <2>2. CASE q \notin notesOf[p]
      <3>1. p = r /\ q = current  BY <2>2 DEF RInv
      <3>2. i < Len(began)  BY <1>2, <1>3, <1>4, <3>1
      <3> QED  BY <1>3, <1>4, <3>1, <3>2
    <2> QED  BY <2>1, <2>2
  <1> QED  BY <1>1, <1>5 DEF RInv, Order, Doubtful

LEMMA AwaitInv ==
  ASSUME RInv, NEW r \in Run, Reclassified(r) \/ NeedAgent(r) \/ Prefetched(r)
  PROVE  RInv'
  <1>1. rca[r] \in RunState /\ rca[r].at # "idle" /\ UNCHANGED << current, began, notesOf >>
    BY DEF RInv, Reclassified, NeedAgent, Prefetched
  <1>2. CASE rca' = [ rca EXCEPT ![r] = Raised ]
    <2> DEFINE x == [ at |-> "raised", attempt |-> 1, raw |-> "none", rule |-> 0, conf |-> 0, fixes |-> {} ]
    <2>1. rca' = [ rca EXCEPT ![r] = x ]  BY <1>2 DEF Raised, State
    <2>2. x \in RunState /\ Doubtful(x) /\ x.at # "idle"  BY DEF RunState, Attempts, Doubtful
    <2> HIDE DEF x
    <2> QED  BY <1>1, <2>1, <2>2, LocalInv
  <1>3. CASE \E at \in { "agent", "prefetch" } : rca' = [ rca EXCEPT ![r].at = at ]
    <2>1. PICK at \in { "agent", "prefetch" } : rca' = [ rca EXCEPT ![r].at = at ]  BY <1>3
    <2> DEFINE x == [ rca[r] EXCEPT !.at = at ]
    <2>2. rca' = [ rca EXCEPT ![r] = x ]  BY <2>1
    <2>3. x \in RunState /\ x.at = at  BY <1>1 DEF RunState
    <2>4. Doubtful(x)  BY <2>3 DEF Doubtful
    <2> HIDE DEF x
    <2> QED  BY <1>1, <2>2, <2>3, <2>4, LocalInv
  <1>4. CASE \E raw \in { "none", "xml" } : rca' = [ rca EXCEPT ![r].at = "ask", ![r].raw = raw ]
    <2>1. PICK raw \in { "none", "xml" } : rca' = [ rca EXCEPT ![r].at = "ask", ![r].raw = raw ]  BY <1>4
    <2> DEFINE x == [ rca[r] EXCEPT !.at = "ask", !.raw = raw ]
    <2>2. rca' = [ rca EXCEPT ![r] = x ]  BY <2>1
    <2>3. x \in RunState /\ x.at = "ask"  BY <1>1 DEF RunState
    <2>4. Doubtful(x)  BY <2>3 DEF Doubtful
    <2> HIDE DEF x
    <2> QED  BY <1>1, <2>2, <2>3, <2>4, LocalInv
  <1> QED  BY <1>2, <1>3, <1>4 DEF Reclassified, NeedAgent, Prefetched

LEMMA FailsInv ==
  ASSUME RInv, NEW r \in Run, AttemptFails(r) \/ Unusable(r)
  PROVE  RInv'
  <1>1. /\ rca[r] \in RunState /\ rca[r].at = "ask" /\ UNCHANGED << current, began, notesOf >>
        /\ rca[r].rule \in Nat /\ rca[r].attempt \in 1 .. Attempts
    BY RcaConstants DEF RInv, AttemptFails, Unusable, RunState
  <1>2. CASE rca[r].attempt < Attempts /\ rca' = [ rca EXCEPT ![r].attempt = NextAttempt(@) ]
    <2> DEFINE x == [ rca[r] EXCEPT !.attempt = rca[r].attempt + 1 ]
    <2>1. rca' = [ rca EXCEPT ![r] = x ]  BY <1>2 DEF NextAttempt, RInv
    <2>2. rca[r].attempt + 1 \in 1 .. Attempts  BY <1>1, <1>2 DEF Attempts
    <2>3. x \in RunState /\ x.at = "ask"  BY <1>1, <2>2 DEF RunState
    <2>4. Doubtful(x)  BY <2>3 DEF Doubtful
    <2> HIDE DEF x
    <2> QED  BY <1>1, <2>1, <2>3, <2>4, LocalInv
  <1>3. CASE \E conf \in { Lesser(rca[r].rule, Fallback), 0 } :
                rca' = [ rca EXCEPT ![r] = Returned("none", {}, conf) ]
    <2>1. PICK conf \in { Lesser(rca[r].rule, Fallback), 0 } :
               rca' = [ rca EXCEPT ![r] = Returned("none", {}, conf) ]
      BY <1>3
    <2>2. conf \in Nat  BY <1>1 DEF Lesser, Fallback
    <2> DEFINE x == Returned("none", {}, conf)
    <2>3. x \in RunState /\ x.at # "idle" /\ Doubtful(x)  BY <2>2, ReturnedState
    <2> HIDE DEF x
    <2>4. rca' = [ rca EXCEPT ![r] = x ]  BY <2>1 DEF x
    <2> QED  BY <1>1, <2>3, <2>4, LocalInv
  <1>4. CASE rca' = [ rca EXCEPT ![r] = Raised ]
    <2> DEFINE x == [ at |-> "raised", attempt |-> 1, raw |-> "none", rule |-> 0, conf |-> 0, fixes |-> {} ]
    <2>1. rca' = [ rca EXCEPT ![r] = x ]  BY <1>4 DEF Raised, State
    <2>2. x \in RunState /\ Doubtful(x) /\ x.at # "idle"  BY DEF RunState, Attempts, Doubtful
    <2> HIDE DEF x
    <2> QED  BY <1>1, <2>1, <2>2, LocalInv
  <1> QED  BY <1>2, <1>3, <1>4 DEF AttemptFails, Unusable

LEMMA AnsweredInv ==
  ASSUME RInv, NEW r \in Run, NEW conf \in LlmConfidence, NEW fixes \in Answers,
         Answered(r, conf, fixes)
  PROVE  RInv'
  <1> DEFINE boosted == Boosted(Floored(r, conf), fixes)
  <1>1. /\ rca[r] \in RunState /\ rca[r].at = "ask" /\ UNCHANGED << current, began, notesOf >>
        /\ rca[r].rule \in Nat /\ rca[r].raw \in { "none", "xml", "error" }
    <2>1. rca[r] \in RunState  BY DEF RInv
    <2>2. rca[r].at = "ask" /\ UNCHANGED << current, began, notesOf >>  BY DEF Answered
    <2>3. rca[r].rule \in RuleConfidence \union {0} /\ rca[r].raw \in { "none", "xml", "error" }
      BY <2>1 DEF RunState
    <2>4. rca[r].rule \in Nat  BY <2>3, RuleNatural
    <2> QED  BY <2>1, <2>2, <2>3, <2>4
  <1>2. fixes \in SUBSET FixKind /\ Floored(r, conf) \in Nat
    BY <1>1, RcaConstants DEF Floored, Greater
  <1>3. boosted \in Nat  BY <1>2, BoostBounds
  <1> HIDE DEF boosted
  <1>4. PICK raw \in RawOf(r) :
             IF raw # "none" /\ Mismatched(FixesSeen(fixes, raw))
             THEN rca' = [ rca EXCEPT ![r] = State("correct", raw, 0, Capped(boosted), FixesSeen(fixes, raw)) ]
             ELSE \E filled \in FilledIn(fixes, raw) :
                    rca' = [ rca EXCEPT ![r] = Returned(raw, filled, Boosted(boosted, filled)) ]
    BY DEF Answered, boosted
  <1>5. raw \in { "none", "xml", "error" }  BY <1>1 DEF RawOf
  <1>6. CASE raw # "none" /\ Mismatched(FixesSeen(fixes, raw))
    <2> DEFINE x == [ at |-> "correct", attempt |-> 1, raw |-> raw, rule |-> 0, conf |-> Capped(boosted),
                      fixes |-> FixesSeen(fixes, raw) ]
    <2>1. rca' = [ rca EXCEPT ![r] = x ]  BY <1>4, <1>6 DEF State
    <2>2. Capped(boosted) \in Nat /\ Capped(boosted) <= CapAt  BY <1>3, CapBounds
    <2>3. FixesSeen(fixes, raw) \in SUBSET FixKind  BY <1>2, SeenKinds
    <2>4. x \in RunState /\ Doubtful(x) /\ x.at # "idle"
      BY <1>5, <2>2, <2>3 DEF RunState, Attempts, Doubtful
    <2> HIDE DEF x
    <2> QED  BY <1>1, <2>1, <2>4, LocalInv
  <1>7. CASE ~ (raw # "none" /\ Mismatched(FixesSeen(fixes, raw)))
    <2>1. PICK filled \in FilledIn(fixes, raw) :
               rca' = [ rca EXCEPT ![r] = Returned(raw, filled, Boosted(boosted, filled)) ]
      BY <1>4, <1>7
    <2>2. filled \in SUBSET FixKind /\ (Mismatched(filled) => Mismatched(fixes))
      BY <1>2, FillingInvents
    <2>3. ~ (raw # "none" /\ Mismatched(filled))  BY <1>2, <1>7, <2>2, SeenKinds
    <2>4. Boosted(boosted, filled) \in Nat  BY <1>3, BoostBounds
    <2> DEFINE x == Returned(raw, filled, Boosted(boosted, filled))
    <2>5. x \in RunState /\ x.at # "idle" /\ Doubtful(x)
      BY <1>5, <2>2, <2>3, <2>4, ReturnedState
    <2> HIDE DEF x
    <2>6. rca' = [ rca EXCEPT ![r] = x ]  BY <2>1 DEF x
    <2> QED  BY <1>1, <2>5, <2>6, LocalInv
  <1> QED  BY <1>6, <1>7

\* However the correction ends, the run concludes with fixes and a confidence that are
\* either free of doubt or capped.
LEMMA ConcludedInv ==
  ASSUME RInv, NEW r \in Run, rca[r].at = "correct", NEW fixes \in SUBSET FixKind, NEW conf \in Nat,
         ~ Mismatched(fixes) \/ conf <= CapAt,
         Concluded(r, fixes, conf), UNCHANGED << current, began, notesOf >>
  PROVE  RInv'
  <1>1. PICK filled \in FilledIn(fixes, rca[r].raw) :
             rca' = [ rca EXCEPT ![r] = Returned(rca[r].raw, filled, Boosted(conf, filled)) ]
    BY DEF Concluded
  <1>2. filled \in SUBSET FixKind /\ (Mismatched(filled) => Mismatched(fixes))
    BY FillingInvents
  <1>3. Boosted(conf, filled) \in Nat /\ (conf <= CapAt => Boosted(conf, filled) <= CapAt + Boost)
    BY BoostBounds
  <1>4. rca[r].raw \in { "none", "xml", "error" }  BY DEF RInv, RunState
  <1> DEFINE x == Returned(rca[r].raw, filled, Boosted(conf, filled))
  <1>5. x \in RunState /\ x.at # "idle" /\ Doubtful(x)
    BY <1>2, <1>3, <1>4, ReturnedState
  <1> HIDE DEF x
  <1>6. rca' = [ rca EXCEPT ![r] = x ]  BY <1>1 DEF x
  <1> QED  BY <1>5, <1>6, LocalInv

LEMMA CorrectionInv ==
  ASSUME RInv, NEW r \in Run,
         \/ NotCorrected(r)
         \/ \E conf \in LlmConfidence : \E fixes \in Answers : Corrected(r, conf, fixes)
  PROVE  RInv'
  <1>1. /\ rca[r].at = "correct" /\ UNCHANGED << current, began, notesOf >>
        /\ rca[r].conf \in Nat /\ rca[r].fixes \in SUBSET FixKind /\ rca[r].conf <= CapAt
    BY DEF RInv, NotCorrected, Corrected, RunState, Doubtful
  <1>2. CASE NotCorrected(r)
    BY <1>1, <1>2, ConcludedInv DEF NotCorrected
  <1>3. ASSUME NEW conf \in LlmConfidence, NEW fixes \in Answers, Corrected(r, conf, fixes)
        PROVE  RInv'
    <2>1. fixes \in SUBSET FixKind /\ conf \in Nat /\ Lesser(conf, Top) \in Nat
      BY RcaConstants DEF Lesser, Top
    <2>2. ~ Mismatched(fixes)  BY <1>3, <2>1, SeenKinds DEF Corrected
    <2>3. Concluded(r, fixes, Lesser(conf, Top)) \/ Concluded(r, fixes, rca[r].conf)
      BY <1>3 DEF Corrected
    <2> QED  BY <1>1, <2>1, <2>2, <2>3, ConcludedInv
  <1> QED  BY <1>2, <1>3

-----------------------------------------------------------------------------
LEMMA RcaInitInv ==
  ASSUME RcaInit
  PROVE  RInv
  <1>1. rca \in [Run -> RunState]  BY DEF RcaInit, IdleRca, State, RunState, Attempts
  <1> QED  BY <1>1 DEF RcaInit, RInv, IdleRca, State, Doubtful, Order, NotesAreOwn

LEMMA RcaInductive ==
  ASSUME RInv, [RcaNext]_rcaVars
  PROVE  RInv'
  <1>1. CASE UNCHANGED rcaVars
    BY <1>1 DEF rcaVars, RInv, Doubtful, Order, NotesAreOwn
  <1>2. ASSUME NEW r \in Run, NEW rule \in RuleConfidence, BeginRca(r, rule) PROVE RInv'
    BY <1>2, BeginInv
  <1>3. ASSUME NEW r \in Run, ReadNotes(r) PROVE RInv'  BY <1>3, NotesInv
  <1>4. ASSUME NEW r \in Run, AwaitEnds(r) \/ Unusable(r) PROVE RInv'
    BY <1>4, AwaitInv, FailsInv, CorrectionInv DEF AwaitEnds
  <1>5. ASSUME NEW r \in Run, NEW conf \in LlmConfidence, NEW fixes \in Answers,
               Answered(r, conf, fixes) \/ Corrected(r, conf, fixes)
        PROVE  RInv'
    BY <1>5, AnsweredInv, CorrectionInv
  <1> QED  BY <1>1, <1>2, <1>3, <1>4, <1>5 DEF RcaNext

LEMMA Inductive ==
  RcaSpec => []RInv
  BY RcaInitInv, RcaInductive, PTL DEF RcaSpec

\* A diagnosis that still names values the iFlow does not have is returned with a
\* confidence of at most one boost over the cap, whatever the LLM and the classifier say
\* (rca_agent.py: boost, cap, correction and second boost of run_rca).
THEOREM Capped75 ==
  RcaSpec => []DoubtIsCapped
  <1>1. RInv => DoubtIsCapped  BY DEF RInv, Doubtful, DoubtIsCapped
  <1> QED  BY <1>1, Inductive, PTL

\* Notes for another run's error are shown to a run only when that one began later
\* (rca_agent.py: _current_error_type and _current_iflow_id).
THEOREM Notes ==
  RcaSpec => []NotesAreOwn
  <1>1. RInv => NotesAreOwn  BY DEF RInv
  <1> QED  BY <1>1, Inductive, PTL

-----------------------------------------------------------------------------
(* The store of originals *)

\* The first place in a list is one of its places.
Before == { ss \in Nat \X Nat : ss[1] < ss[2] }

LEMMA LeastExists ==
  ASSUME NEW T \in SUBSET Nat, T # {}
  PROVE  Min(T) \in T
<1>1. IsWellFoundedOn(Before, Nat)
  BY NatLessThanWellFounded, Zenon DEF OpToRel, Before
<1>2. PICK n \in T : \A m \in T : << m, n >> \notin Before
  BY <1>1, WFMin
<1>3. ASSUME NEW m \in T PROVE n <= m
  <2>1. m \in Nat /\ n \in Nat /\ << m, n >> \notin Before
    BY <1>2
  <2>2. ~(m < n)
    BY <2>1 DEF Before
  <2> QED
    BY <2>1, <2>2
<1> QED
  BY <1>3 DEF Min

LEMMA RemovedAt ==
  ASSUME NEW S, NEW s \in Seq(S), NEW n \in 1 .. Len(s)
  PROVE  /\ RemoveAt(s, n) \in Seq(S)
         /\ Len(RemoveAt(s, n)) = Len(s) - 1
         /\ \A m \in 1 .. Len(s) - 1 : RemoveAt(s, n)[m] = IF m < n THEN s[m] ELSE s[m + 1]
<1> DEFINE a == SubSeq(s, 1, n - 1)
           b == SubSeq(s, n + 1, Len(s))
<1>1. a \in Seq(S) /\ Len(a) = n - 1 /\ \A m \in 1 .. n - 1 : a[m] = s[m]
  OBVIOUS
<1>2. b \in Seq(S) /\ Len(b) = Len(s) - n /\ \A m \in 1 .. Len(s) - n : b[m] = s[m + n]
  OBVIOUS
<1>3. RemoveAt(s, n) = a \o b
  BY DEF RemoveAt
<1> HIDE DEF a, b
<1>4. a \o b \in Seq(S) /\ Len(a \o b) = Len(s) - 1
  <2>1. a \o b \in Seq(S) /\ Len(a \o b) = Len(a) + Len(b)
    BY <1>1, <1>2, ConcatProperties
  <2>2. Len(s) \in Nat /\ n \in Nat
    OBVIOUS
  <2>3. Len(a) + Len(b) = Len(s) - 1
    BY <1>1, <1>2, <2>2
  <2> QED
    BY <2>1, <2>3
<1>5. ASSUME NEW m \in 1 .. Len(s) - 1
      PROVE  (a \o b)[m] = IF m < n THEN s[m] ELSE s[m + 1]
  <2>1. CASE m < n
    BY <1>1, <1>2, <2>1
  <2>2. CASE ~(m < n)
    <3>1. (a \o b)[m] = b[m - (n - 1)]
      BY <1>1, <1>2, <2>2
    <3>2. m - (n - 1) \in 1 .. Len(s) - n /\ (m - (n - 1)) + n = m + 1
      BY <2>2
    <3> QED
      BY <3>1, <3>2, <1>2, <2>2
  <2> QED
    BY <2>1, <2>2
<1> QED
  BY <1>3, <1>4, <1>5

\* The keys of a store, and that each has one entry.
KeysOf(s) == { s[n].iflow : n \in 1 .. Len(s) }

Single(s) == \A m, n \in 1 .. Len(s) : s[m].iflow = s[n].iflow => m = n

\* Which file stands for which iFlow in a store.
FilesOf(s) == { << s[n].iflow, s[n].path >> : n \in 1 .. Len(s) }

LEMMA EntryFound ==
  ASSUME NEW i \in Held
  PROVE  EntryOf(i) \in 1 .. Len(store) /\ store[EntryOf(i)].iflow = i
  BY DEF EntryOf, Held

\* Reading an iFlow keeps the store a dictionary, with that iFlow's file in it and those of
\* the others as they were.
LEMMA StoredWith ==
  ASSUME store \in Seq(Entries), Single(store), NEW i \in Iflow, NEW p \in Iflow, NEW doc \in Document
  PROVE  /\ StoreWith(i, p, doc) \in Seq(Entries) /\ Single(StoreWith(i, p, doc))
         /\ KeysOf(StoreWith(i, p, doc)) = Held \union {i}
         /\ << i, p >> \in FilesOf(StoreWith(i, p, doc))
         /\ \A x \in FilesOf(store) : x[1] # i => x \in FilesOf(StoreWith(i, p, doc))
<1> DEFINE e == [ iflow |-> i, path |-> p, doc |-> doc ]
<1>0. e \in Entries /\ e.iflow = i /\ e.path = p
  BY DEF Entries
<1>1. CASE i \in Held
  <2> DEFINE k == EntryOf(i)
             t == [ store EXCEPT ![k] = e ]
  <2>1. k \in 1 .. Len(store) /\ store[k].iflow = i /\ StoreWith(i, p, doc) = t
    BY <1>1, EntryFound DEF StoreWith
  <2> HIDE DEF k, e
  <2>2. t \in Seq(Entries) /\ Len(t) = Len(store) /\ t[k] = e
        /\ \A n \in 1 .. Len(store) : n # k => t[n] = store[n]
    BY <1>0, <2>1
  <2> HIDE DEF t
  <2>3. \A n \in 1 .. Len(store) : t[n].iflow = store[n].iflow
    BY <1>0, <2>1, <2>2
  <2>4. Single(t)
    BY <2>2, <2>3 DEF Single
  <2>5. KeysOf(t) = Held
    BY <2>2, <2>3 DEF KeysOf, Held
  <2>6. << i, p >> \in FilesOf(t)
    BY <1>0, <2>1, <2>2 DEF FilesOf
  <2>7. ASSUME NEW x \in FilesOf(store), x[1] # i PROVE x \in FilesOf(t)
    <3>1. PICK n \in 1 .. Len(store) : x = << store[n].iflow, store[n].path >>
      BY DEF FilesOf
    <3>2. n # k
      BY <2>1, <2>7, <3>1
    <3> QED
      BY <2>2, <3>1, <3>2 DEF FilesOf
  <2> QED
    BY <1>1, <2>1, <2>2, <2>4, <2>5, <2>6, <2>7
<1>2. CASE i \notin Held
  <2> DEFINE t == Append(store, e)
  <2>1. StoreWith(i, p, doc) = t
    BY <1>2 DEF StoreWith
  <2> HIDE DEF e
  <2>2. t \in Seq(Entries) /\ Len(t) = Len(store) + 1 /\ t[Len(store) + 1] = e
        /\ \A n \in 1 .. Len(store) : t[n] = store[n]
    BY <1>0
  <2> HIDE DEF t
  <2>3. \A n \in 1 .. Len(store) : store[n].iflow # i
    BY <1>2 DEF Held
  <2>4. Single(t)
    BY <1>0, <2>2, <2>3 DEF Single
  <2>5. KeysOf(t) = Held \union {i}
    BY <1>0, <2>2 DEF KeysOf, Held
  <2>6. << i, p >> \in FilesOf(t)
    BY <1>0, <2>2 DEF FilesOf
  <2>7. \A x \in FilesOf(store) : x \in FilesOf(t)
    BY <2>2 DEF FilesOf
  <2> QED
    BY <2>1, <2>2, <2>4, <2>5, <2>6, <2>7
<1> QED
  BY <1>1, <1>2

\* The end of a fix takes its iFlow out and leaves the others.
LEMMA StoredWithout ==
  ASSUME store \in Seq(Entries), Single(store), NEW i \in Iflow
  PROVE  /\ StoreWithout(i) \in Seq(Entries) /\ Single(StoreWithout(i))
         /\ KeysOf(StoreWithout(i)) = Held \ {i}
         /\ \A x \in FilesOf(store) : x[1] # i => x \in FilesOf(StoreWithout(i))
<1>1. CASE i \notin Held
  BY <1>1 DEF StoreWithout, KeysOf, Held
<1>2. CASE i \in Held
  <2> DEFINE k == EntryOf(i)
             t == RemoveAt(store, k)
  <2>1. k \in 1 .. Len(store) /\ store[k].iflow = i /\ StoreWithout(i) = t
    BY <1>2, EntryFound DEF StoreWithout
  <2> HIDE DEF k
  <2>2. t \in Seq(Entries) /\ Len(t) = Len(store) - 1
        /\ \A m \in 1 .. Len(store) - 1 : t[m] = IF m < k THEN store[m] ELSE store[m + 1]
    BY <2>1, RemovedAt
  <2> HIDE DEF t
  <2>3. Single(t)
    <3> DEFINE from(m) == IF m < k THEN m ELSE m + 1
    <3>1. \A m \in 1 .. Len(store) - 1 : from(m) \in 1 .. Len(store) /\ t[m] = store[from(m)]
      BY <2>1, <2>2
    <3>2. \A m, n \in 1 .. Len(store) - 1 : from(m) = from(n) => m = n
      BY <2>1
    <3> HIDE DEF from
    <3> QED
      BY <2>2, <3>1, <3>2 DEF Single
  <2>4. ASSUME NEW x \in KeysOf(t) PROVE x \in Held \ {i}
    <3>1. PICK m \in 1 .. Len(store) - 1 : x = t[m].iflow
      BY <2>2 DEF KeysOf
    <3>2. CASE m < k
      BY <2>1, <2>2, <3>1, <3>2 DEF Held, Single
    <3>3. CASE ~(m < k)
      BY <2>1, <2>2, <3>1, <3>3 DEF Held, Single
    <3> QED
      BY <3>2, <3>3
  <2>5. ASSUME NEW n \in 1 .. Len(store), store[n].iflow # i
        PROVE  \E m \in 1 .. Len(t) : t[m] = store[n]
    <3>1. n # k
      BY <2>1, <2>5
    <3>2. CASE n < k
      <4>1. n \in 1 .. Len(t) /\ t[n] = store[n]
        BY <2>1, <2>2, <3>2
      <4> QED
        BY <4>1
    <3>3. CASE n > k
      <4>1. n - 1 \in 1 .. Len(t) /\ t[n - 1] = store[n]
        BY <2>1, <2>2, <3>3
      <4> QED
        BY <4>1
    <3> QED
      BY <2>1, <3>1, <3>2, <3>3
  <2>6. ASSUME NEW x \in Held \ {i} PROVE x \in KeysOf(t)
    BY <2>5 DEF KeysOf, Held
  <2>7. ASSUME NEW x \in FilesOf(store), x[1] # i PROVE x \in FilesOf(t)
    <3>1. PICK n \in 1 .. Len(store) : x = << store[n].iflow, store[n].path >>
      BY DEF FilesOf
    <3>2. PICK m \in 1 .. Len(t) : t[m] = store[n]
      BY <2>5, <2>7, <3>1
    <3> QED
      BY <3>1, <3>2 DEF FilesOf
  <2> QED
    BY <2>1, <2>2, <2>3, <2>4, <2>6, <2>7
<1> QED
  BY <1>1, <1>2

-----------------------------------------------------------------------------
(* The door in front of update-iflow *)

FixerState ==
    [ at : { "idle", "open", "drafted", "uploaded" }, iflow : Iflow, path : Iflow \union {Unknown},
      orig : Document \union {NoOriginal}, to : Submitted, draft : Document ]

\* Whoever is fixing an iFlow and whose entry nobody took away or replaced finds the file it
\* has read in the store, and what was uploaded unseen was uploaded by a fix under way.
Backed ==
    /\ \A f \in Fixer :
          fixer[f].at # "idle" /\ f \notin loose => << fixer[f].iflow, fixer[f].path >> \in FilesOf(store)
    /\ \A f \in unchecked : fixer[f].at = "uploaded"

ValidatorInv == ValidatorTypeOK /\ Single(store) /\ ComparedWithOwn /\ Backed

\* What a step by fixer f does to its own state and leaves of the others'.
Moves(f) == fixer' \in [Fixer -> FixerState] /\ \A g \in Fixer \ {f} : fixer'[g] = fixer[g]

LEMMA IdleFixerTyped == IdleFixer \in FixerState /\ IdleFixer.at = "idle"
<1>1. Document # {}
  BY ValidatorConstants
<1> QED
  BY <1>1, ValidatorConstants DEF IdleFixer, FixerState, Submitted

LEMMA ValidatorInitInv ==
  ASSUME ValidatorInit
  PROVE  ValidatorInv
<1>1. ValidatorTypeOK
  BY IdleFixerTyped, ValidatorConstants DEF ValidatorInit, ValidatorTypeOK, FixerState
<1>2. \A f \in Fixer : fixer[f].at = "idle"
  BY IdleFixerTyped DEF ValidatorInit
<1> QED
  BY <1>1, <1>2 DEF ValidatorInit, ValidatorInv, Single, ComparedWithOwn, Backed, Held

LEMMA HeldIsKeys == Held = KeysOf(store) /\ Held' = KeysOf(store')
  BY DEF Held, KeysOf

\* A fixer goes on with the file it has read: nothing else changes but what it has uploaded.
LEMMA GoesOnInv ==
  ASSUME ValidatorInv, NEW f \in Fixer, Moves(f),
         fixer[f].at \in { "open", "drafted" }, fixer'[f].at # "idle",
         fixer'[f].iflow = fixer[f].iflow, fixer'[f].path = fixer[f].path,
         UNCHANGED << store, edits, left, loose >>, artifact' \in [Iflow -> Document],
         \/ unchecked' = unchecked
         \/ /\ unchecked' = unchecked \union {f} /\ fixer'[f].at = "uploaded"
            /\ f \in loose \/ fixer'[f].to # fixer'[f].path
  PROVE  ValidatorInv'
<1>1. fixer' \in [Fixer -> FixerState] /\ \A g \in Fixer : fixer'[g].at # "idle" <=> fixer[g].at # "idle"
  BY DEF Moves
<1>2. \A g \in Fixer : fixer'[g].iflow = fixer[g].iflow /\ fixer'[g].path = fixer[g].path
  BY DEF Moves
<1>3. unchecked' \subseteq unchecked \union {f}
  OBVIOUS
<1>4. ValidatorTypeOK'
  BY <1>1, <1>3 DEF ValidatorInv, ValidatorTypeOK, FixerState
<1>5. Held' = Held /\ Single(store)' /\ FilesOf(store)' = FilesOf(store)
  BY DEF Held, ValidatorInv, Single, FilesOf
<1>6. Fixing' = Fixing
  BY <1>1, <1>2 DEF Fixing
<1>7. \A g \in unchecked' : g \in loose' \/ fixer'[g].to # fixer'[g].path
  BY DEF ValidatorInv, ValidatorTypeOK, Backed, ComparedWithOwn, Moves
<1>8. ComparedWithOwn'
  BY <1>5, <1>6, <1>7 DEF ValidatorInv, ComparedWithOwn
<1>9. Backed'
  BY <1>1, <1>2, <1>3, <1>5 DEF ValidatorInv, Backed, ValidatorTypeOK, Moves
<1> QED
  BY <1>4, <1>5, <1>8, <1>9 DEF ValidatorInv

LEMMA OpenFixInv ==
  ASSUME ValidatorInv, NEW f \in Fixer, NEW i \in Iflow, OpenFix(f, i)
  PROVE  ValidatorInv'
<1>1. PICK p \in Iflow, doc \in Document :
        /\ store' = StoreWith(i, p, doc)
        /\ fixer' = [ fixer EXCEPT ![f] =
               [ IdleFixer EXCEPT !.at = "open", !.iflow = i, !.path = p, !.orig = doc ] ]
        /\ loose' = (loose \ {f}) \union { g \in OthersOn(f, i) : fixer[g].path # p }
  BY Zenon DEF OpenFix
<1> DEFINE e == [ [ [ [ IdleFixer EXCEPT !.at = "open" ] EXCEPT !.iflow = i ] EXCEPT !.path = p ] EXCEPT !.orig = doc ]
<1>2. fixer' = [ fixer EXCEPT ![f] = e ]
  BY <1>1, Zenon
<1>3. e \in FixerState /\ e.at = "open" /\ e.iflow = i /\ e.path = p
  BY IdleFixerTyped DEF FixerState
<1> HIDE DEF e
<1>4. fixer \in [Fixer -> FixerState] /\ store \in Seq(Entries) /\ Single(store)
  BY DEF ValidatorInv, ValidatorTypeOK, FixerState
<1>5. fixer' \in [Fixer -> FixerState] /\ fixer'[f] = e /\ \A g \in Fixer \ {f} : fixer'[g] = fixer[g]
  BY <1>2, <1>3, <1>4
<1>6. store' \in Seq(Entries) /\ Single(store') /\ Held' = Held \union {i}
      /\ << i, p >> \in FilesOf(store') /\ \A x \in FilesOf(store) : x[1] # i => x \in FilesOf(store')
  BY <1>1, <1>4, StoredWith, HeldIsKeys
<1>7. left' = left \ {i} /\ fixer[f].at = "idle" /\ UNCHANGED << artifact, edits, unchecked >>
  BY Zenon DEF OpenFix
<1>8. loose' \subseteq Fixer /\ loose \ {f} \subseteq loose'
      /\ \A g \in Fixer \ {f} : g \notin loose' /\ fixer[g].at # "idle" /\ fixer[g].iflow = i => fixer[g].path = p
  BY <1>1 DEF OthersOn, ValidatorInv, ValidatorTypeOK
<1>9. ValidatorTypeOK'
  BY <1>5, <1>6, <1>7, <1>8 DEF ValidatorInv, ValidatorTypeOK, FixerState, Single
<1>10. Fixing' = Fixing \union {i}
  BY <1>3, <1>5, <1>7 DEF Fixing
<1>11. f \notin unchecked /\ unchecked \subseteq Fixer
  BY <1>7 DEF ValidatorInv, ValidatorTypeOK, Backed
<1>12. ComparedWithOwn'
  BY <1>5, <1>6, <1>7, <1>8, <1>10, <1>11 DEF ValidatorInv, ComparedWithOwn
<1>13. ASSUME NEW g \in Fixer, fixer'[g].at # "idle", g \notin loose'
       PROVE  << fixer'[g].iflow, fixer'[g].path >> \in FilesOf(store')
  <2>1. CASE g = f
    BY <1>3, <1>5, <1>6, <2>1
  <2>2. CASE g # f /\ fixer[g].iflow = i
    BY <1>5, <1>6, <1>8, <1>13, <2>2
  <2>3. CASE g # f /\ fixer[g].iflow # i
    <3> DEFINE x == << fixer[g].iflow, fixer[g].path >>
    <3>1. x \in FilesOf(store)
      BY <1>5, <1>8, <1>13, <2>3 DEF ValidatorInv, Backed
    <3>2. x[1] # i
      BY <2>3
    <3> QED
      BY <1>5, <1>6, <2>3, <3>1, <3>2
  <2> QED
    BY <2>1, <2>2, <2>3
<1>14. \A g \in unchecked' : fixer'[g].at = "uploaded"
  BY <1>5, <1>7, <1>11 DEF ValidatorInv, Backed
<1> QED
  BY <1>6, <1>9, <1>12, <1>13, <1>14 DEF ValidatorInv, Backed

LEMMA OpenBlindInv ==
  ASSUME ValidatorInv, NEW f \in Fixer, NEW i \in Iflow, OpenBlind(f, i)
  PROVE  ValidatorInv'
<1> DEFINE e == [ [ IdleFixer EXCEPT !.at = "open" ] EXCEPT !.iflow = i ]
<1>1. fixer' = [ fixer EXCEPT ![f] = e ]
  BY Zenon DEF OpenBlind
<1>2. e \in FixerState /\ e.at = "open" /\ e.iflow = i
  BY IdleFixerTyped DEF FixerState
<1> HIDE DEF e
<1>3. fixer \in [Fixer -> FixerState]
  BY DEF ValidatorInv, ValidatorTypeOK, FixerState
<1>4. fixer' \in [Fixer -> FixerState] /\ fixer'[f] = e /\ \A g \in Fixer \ {f} : fixer'[g] = fixer[g]
  BY <1>1, <1>2, <1>3
<1>5. /\ loose' = loose \union {f} /\ fixer[f].at = "idle"
      /\ UNCHANGED << artifact, store, edits, left, unchecked >>
  BY Zenon DEF OpenBlind
<1>6. Held' = Held /\ Single(store)' /\ FilesOf(store)' = FilesOf(store)
  BY <1>5 DEF Held, ValidatorInv, Single, FilesOf
<1>7. ValidatorTypeOK'
  BY <1>4, <1>5 DEF ValidatorInv, ValidatorTypeOK, FixerState
<1>8. Fixing' = Fixing \union {i}
  BY <1>2, <1>4, <1>5 DEF Fixing
<1>9. ComparedWithOwn'
  BY <1>4, <1>5, <1>6, <1>8 DEF ValidatorInv, ValidatorTypeOK, Backed, ComparedWithOwn
<1>10. Backed'
  BY <1>2, <1>4, <1>5, <1>6 DEF ValidatorInv, Backed, ValidatorTypeOK
<1> QED
  BY <1>6, <1>7, <1>9, <1>10 DEF ValidatorInv

\* A fixer ends, having taken its iFlow's entry with it or left it.
LEMMA EndInv ==
  ASSUME ValidatorInv, NEW f \in Fixer, EndFix(f) \/ EndFixEarly(f)
  PROVE  ValidatorInv'
<1> DEFINE i == fixer[f].iflow
<1>1. fixer \in [Fixer -> FixerState] /\ store \in Seq(Entries) /\ Single(store)
  BY DEF ValidatorInv, ValidatorTypeOK, FixerState
<1>2. i \in Iflow /\ fixer[f].at # "idle"
  BY <1>1 DEF FixerState, EndFix, EndFixEarly
<1>3. fixer' = [ fixer EXCEPT ![f] = IdleFixer ]
  BY DEF EndFix, EndFixEarly
<1>4. fixer' \in [Fixer -> FixerState] /\ fixer'[f].at = "idle" /\ \A g \in Fixer \ {f} : fixer'[g] = fixer[g]
  BY <1>1, <1>3, IdleFixerTyped
<1>5. Fixing \subseteq Fixing' \union {i}
  BY <1>4 DEF Fixing
<1>6. UNCHANGED << artifact, edits >> /\ unchecked' = unchecked \ {f}
  BY DEF EndFix, EndFixEarly
<1>7. CASE EndFix(f)
  <2>1. store' = StoreWithout(i) /\ left' = left \ {i} /\ loose' = (loose \union OthersOn(f, i)) \ {f}
    BY <1>7 DEF EndFix
  <2>2. store' \in Seq(Entries) /\ Single(store') /\ Held' = Held \ {i}
        /\ \A x \in FilesOf(store) : x[1] # i => x \in FilesOf(store')
    BY <1>1, <1>2, <2>1, StoredWithout, HeldIsKeys
  <2>3. loose' \subseteq Fixer /\ loose \ {f} \subseteq loose'
        /\ \A g \in Fixer \ {f} : fixer[g].at # "idle" /\ g \notin loose' => fixer[g].iflow # i
    BY <2>1 DEF OthersOn, ValidatorInv, ValidatorTypeOK
  <2>4. ValidatorTypeOK'
    BY <1>4, <1>6, <2>1, <2>2, <2>3 DEF ValidatorInv, ValidatorTypeOK, FixerState, Single
  <2>5. ComparedWithOwn'
    BY <1>4, <1>5, <1>6, <2>1, <2>2, <2>3 DEF ValidatorInv, ValidatorTypeOK, ComparedWithOwn
  <2>6. ASSUME NEW g \in Fixer, fixer'[g].at # "idle", g \notin loose'
        PROVE  << fixer'[g].iflow, fixer'[g].path >> \in FilesOf(store')
    <3> DEFINE x == << fixer[g].iflow, fixer[g].path >>
    <3>1. g # f /\ fixer'[g] = fixer[g]
      BY <1>4, <2>6
    <3>2. x \in FilesOf(store)
      BY <2>3, <2>6, <3>1 DEF ValidatorInv, Backed
    <3>3. x[1] # i
      BY <2>3, <2>6, <3>1
    <3> QED
      BY <2>2, <3>1, <3>2, <3>3
  <2>7. \A g \in unchecked' : fixer'[g].at = "uploaded"
    BY <1>4, <1>6 DEF ValidatorInv, ValidatorTypeOK, Backed
  <2> QED
    BY <2>2, <2>4, <2>5, <2>6, <2>7 DEF ValidatorInv, Backed
<1>8. CASE EndFixEarly(f)
  <2>1. store' = store /\ left' = left \union {i} /\ loose' = loose \ {f}
    BY <1>8 DEF EndFixEarly
  <2>2. Held' = Held /\ Single(store)' /\ FilesOf(store)' = FilesOf(store)
    BY <2>1, <1>1 DEF Held, Single, FilesOf
  <2>3. ValidatorTypeOK'
    BY <1>2, <1>4, <1>6, <2>1 DEF ValidatorInv, ValidatorTypeOK, FixerState
  <2>4. ComparedWithOwn'
    BY <1>4, <1>5, <1>6, <2>1, <2>2 DEF ValidatorInv, ValidatorTypeOK, ComparedWithOwn
  <2>5. Backed'
    BY <1>4, <1>6, <2>1, <2>2 DEF ValidatorInv, Backed, ValidatorTypeOK
  <2> QED
    BY <2>2, <2>3, <2>4, <2>5 DEF ValidatorInv
<1> QED
  BY <1>7, <1>8

LEMMA ValidatorInductive ==
  ASSUME ValidatorInv, [ValidatorNext]_validatorVars
  PROVE  ValidatorInv'
<1>1. fixer \in [Fixer -> FixerState] /\ artifact \in [Iflow -> Document]
  BY DEF ValidatorInv, ValidatorTypeOK, FixerState
<1>2. ASSUME NEW f \in Fixer, NEW d \in Document, Patch(f, d) \/ \E q \in Submitted : Draft(f, q, d)
      PROVE  ValidatorInv'
  <2>1. fixer[f] \in FixerState
    BY <1>1
  <2>2. PICK q \in Submitted :
          fixer' = [ fixer EXCEPT ![f].at = "drafted", ![f].to = q, ![f].draft = d ]
    BY <1>2, <2>1 DEF Draft, Patch, FixerState, Submitted
  <2> DEFINE e == [ [ [ fixer[f] EXCEPT !.at = "drafted" ] EXCEPT !.to = q ] EXCEPT !.draft = d ]
  <2>3. fixer' = [ fixer EXCEPT ![f] = e ]
    BY <1>1, <2>1, <2>2 DEF FixerState
  <2>4. e \in FixerState /\ e.at = "drafted" /\ e.iflow = fixer[f].iflow /\ e.path = fixer[f].path
    BY <2>1 DEF FixerState
  <2> HIDE DEF e
  <2>5. Moves(f) /\ fixer'[f].at = "drafted"
        /\ fixer'[f].iflow = fixer[f].iflow /\ fixer'[f].path = fixer[f].path
    BY <1>1, <2>3, <2>4 DEF Moves
  <2>6. fixer[f].at = "open" /\ UNCHANGED << artifact, store, edits, left, loose, unchecked >>
    BY <1>2 DEF Draft, Patch
  <2> QED
    BY <1>1, <2>5, <2>6, GoesOnInv
<1>3. ASSUME NEW f \in Fixer, Upload(f)
      PROVE  ValidatorInv'
  <2> DEFINE i == fixer[f].iflow
             to == fixer[f].to
             e == [ [ [ fixer[f] EXCEPT !.at = "uploaded" ] EXCEPT !.orig = NoOriginal ] EXCEPT !.draft = IdleFixer.draft ]
  <2>1. fixer[f] \in FixerState /\ i \in Iflow /\ fixer[f].draft \in Document
    BY <1>1 DEF FixerState
  <2>2. fixer' = [ fixer EXCEPT ![f] = e ]
    BY <1>1, <1>3, <2>1 DEF Upload, FixerState
  <2>3. e \in FixerState /\ e.at = "uploaded" /\ e.iflow = i /\ e.path = fixer[f].path /\ e.to = to
    BY <2>1, IdleFixerTyped DEF FixerState
  <2> HIDE DEF e
  <2>4. Moves(f) /\ fixer'[f].at = "uploaded" /\ fixer'[f].iflow = i
        /\ fixer'[f].path = fixer[f].path /\ fixer'[f].to = to
    BY <1>1, <2>2, <2>3 DEF Moves
  <2>5. artifact' \in [Iflow -> Document]
    BY <1>1, <1>3, <2>1 DEF Upload
  <2>6. fixer[f].at = "drafted" /\ UNCHANGED << store, edits, left, loose >>
        /\ unchecked' = IF Matching(i, to) = {} THEN unchecked \union {f} ELSE unchecked
    BY <1>3 DEF Upload
  <2>7. ASSUME Matching(i, to) = {}, f \notin loose, to = fixer[f].path
        PROVE  FALSE
    <3>1. << i, to >> \in FilesOf(store)
      BY <2>6, <2>7 DEF ValidatorInv, Backed
    <3>2. PICK n \in 1 .. Len(store) : store[n].path = to
      BY <3>1 DEF FilesOf
    <3>3. to \in Iflow
      <4>1. store \in Seq(Entries)
        BY DEF ValidatorInv, ValidatorTypeOK
      <4>2. store[n] \in Entries
        BY <4>1
      <4> QED
        BY <3>2, <4>2 DEF Entries
    <3>4. to # Named
      BY <3>3, ValidatorConstants
    <3> QED
      BY <2>7, <3>2, <3>4 DEF Matching
  <2> QED
    BY <2>4, <2>5, <2>6, <2>7, GoesOnInv
<1>4. ASSUME NEW f \in Fixer, Refused(f)
      PROVE  ValidatorInv'
  <2> DEFINE e == [ [ [ fixer[f] EXCEPT !.at = "open" ] EXCEPT !.to = IdleFixer.to ] EXCEPT !.draft = IdleFixer.draft ]
  <2>1. fixer[f] \in FixerState
    BY <1>1
  <2>2. fixer' = [ fixer EXCEPT ![f] = e ]
    BY <1>1, <1>4, <2>1 DEF Refused, FixerState
  <2>3. e \in FixerState /\ e.at = "open" /\ e.iflow = fixer[f].iflow /\ e.path = fixer[f].path
    BY <2>1, IdleFixerTyped DEF FixerState
  <2> HIDE DEF e
  <2>4. Moves(f) /\ fixer'[f].at = "open"
        /\ fixer'[f].iflow = fixer[f].iflow /\ fixer'[f].path = fixer[f].path
    BY <1>1, <2>2, <2>3 DEF Moves
  <2>5. fixer[f].at = "drafted" /\ UNCHANGED << artifact, store, edits, left, loose, unchecked >>
    BY <1>4 DEF Refused
  <2> QED
    BY <1>1, <2>4, <2>5, GoesOnInv
<1>5. ASSUME NEW i \in Iflow, NEW d \in EditsOf[i], EditIflow(i, d)
      PROVE  ValidatorInv'
  <2>1. d \in Document
    BY ValidatorConstants
  <2>2. artifact' \in [Iflow -> Document] /\ edits' \in 0 .. MaxEdits
        /\ UNCHANGED << store, fixer, left, loose, unchecked >>
    BY <1>1, <1>5, <2>1, ValidatorConstants DEF EditIflow, ValidatorInv, ValidatorTypeOK
  <2> QED
    BY <2>2 DEF ValidatorInv, ValidatorTypeOK, Single, ComparedWithOwn, Backed, Held, Fixing, FilesOf
<1>6. CASE UNCHANGED validatorVars
  BY <1>6 DEF validatorVars, ValidatorInv, ValidatorTypeOK, Single, ComparedWithOwn, Backed, Held, Fixing, FilesOf
<1> QED
  BY <1>2, <1>3, <1>4, <1>5, <1>6, OpenFixInv, OpenBlindInv, EndInv DEF ValidatorNext, FixerStep

\* An upload that the door of validate_before_update_iflow did not look at was submitted
\* under another path than the fix had read, or belongs to a fix that could not read its
\* iFlow or whose entry another fix of that iFlow has removed or replaced by another file's;
\* and every entry is of an iFlow being fixed or left behind by an early return.
THEOREM Own == ValidatorSpec => []ComparedWithOwn
<1>1. ValidatorInit => ValidatorInv
  BY ValidatorInitInv
<1>2. ValidatorInv /\ [ValidatorNext]_validatorVars => ValidatorInv'
  BY ValidatorInductive
<1>3. ValidatorInv => ComparedWithOwn
  BY DEF ValidatorInv
<1> QED
  BY <1>1, <1>2, <1>3, PTL DEF ValidatorSpec

\* What the seven checks accept has no flaw, by its fingerprint, that the original had not,
\* since a flaw of one check never has the fingerprint of another.
LEMMA PassedIsNoWorse ==
  ASSUME NEW was \in Document, NEW doc \in Document, was.ok, Passes(was, doc)
  PROVE  /\ doc.ok
         /\ Prints(Flaws(doc)) \subseteq Prints(Flaws(was) \union (IF doc.mapped THEN {} ELSE was.prefixed))
         /\ \A e \in DOMAIN doc.version :
               /\ was.version[e] = Low => doc.version[e] # OverCap
               /\ was.version[e] = Absent => doc.version[e] # OverCap
<1>1. doc.ok /\ \A x \in Flaws(doc) : Fingerprint[x] \in Known(was)
  BY DEF Passes
<1>2. ASSUME NEW x \in Flaws(doc)
      PROVE  Fingerprint[x] \in Prints(Flaws(was) \union (IF doc.mapped THEN {} ELSE was.prefixed))
  <2>1. PICK y \in was.flaws \union was.prefixed : Fingerprint[x] = Fingerprint[y]
    BY <1>1 DEF Known, Prints
  <2>2. CASE y \in was.flaws
    BY <2>1, <2>2 DEF Prints, Flaws
  <2>3. CASE y \in was.prefixed
    <3>1. x \notin doc.flaws
      BY <2>1, <2>3, ValidatorConstants
    <3>2. ~doc.mapped
      BY <3>1 DEF Flaws
    <3> QED
      BY <2>1, <2>3, <3>2 DEF Prints
  <2> QED
    BY <2>1, <2>2, <2>3
<1>3. Prints(Flaws(doc)) \subseteq Prints(Flaws(was) \union (IF doc.mapped THEN {} ELSE was.prefixed))
  BY <1>2 DEF Prints
<1>4. ASSUME NEW e \in DOMAIN doc.version, doc.version[e] = OverCap
      PROVE  was.version[e] # Low /\ was.version[e] # Absent
  <2>1. e \notin VersionErrors(was, doc)
    BY DEF Passes
  <2> QED
    BY <1>4, <2>1 DEF VersionErrors, VersionOf, Absent, Low, OverCap
<1> QED
  BY <1>1, <1>3, <1>4

\* Only the door in front of update-iflow makes an upload of a draft.
LEMMA UploadedByUpload ==
  ASSUME ValidatorInv, ValidatorNext, NEW f \in Fixer, fixer[f].at = "drafted", fixer'[f].at = "uploaded"
  PROVE  Upload(f)
<1>1. fixer \in [Fixer -> FixerState]
  BY DEF ValidatorInv, ValidatorTypeOK, FixerState
<1>2. ASSUME NEW g \in Fixer, FixerStep(g), g # f
      PROVE  FALSE
  <2>1. PICK e : fixer' = [ fixer EXCEPT ![g] = e ]
    <3>1. CASE \E i \in Iflow : OpenFix(g, i) \/ OpenBlind(g, i)
      BY <3>1, Zenon DEF OpenFix, OpenBlind
    <3>2. ASSUME NEW d \in Document, Patch(g, d) \/ \E q \in Submitted : Draft(g, q, d)
          PROVE  \E e : fixer' = [ fixer EXCEPT ![g] = e ]
      <4>1. PICK q : fixer' = [ fixer EXCEPT ![g].at = "drafted", ![g].to = q, ![g].draft = d ]
        BY <3>2 DEF Draft, Patch
      <4>2. fixer' = [ fixer EXCEPT ![g] =
                         [ [ [ fixer[g] EXCEPT !.at = "drafted" ] EXCEPT !.to = q ] EXCEPT !.draft = d ] ]
        BY <1>1, <4>1 DEF FixerState
      <4> QED
        BY <4>2, Zenon
    <3>3. CASE Upload(g)
      <4>1. fixer' = [ fixer EXCEPT ![g] =
                         [ [ [ fixer[g] EXCEPT !.at = "uploaded" ] EXCEPT !.orig = NoOriginal ]
                             EXCEPT !.draft = IdleFixer.draft ] ]
        BY <1>1, <3>3 DEF Upload, FixerState
      <4> QED
        BY <4>1, Zenon
    <3>4. CASE Refused(g)
      <4>1. fixer' = [ fixer EXCEPT ![g] =
                         [ [ [ fixer[g] EXCEPT !.at = "open" ] EXCEPT !.to = IdleFixer.to ]
                             EXCEPT !.draft = IdleFixer.draft ] ]
        BY <1>1, <3>4 DEF Refused, FixerState
      <4> QED
        BY <4>1, Zenon
    <3>5. CASE EndFix(g) \/ EndFixEarly(g)
      BY <3>5, Zenon DEF EndFix, EndFixEarly
    <3> QED
      BY <1>2, <3>1, <3>2, <3>3, <3>4, <3>5 DEF FixerStep
  <2> QED
    BY <1>1, <1>2, <2>1
<1>3. ~ \E i \in Iflow : \E d \in EditsOf[i] : EditIflow(i, d)
  BY DEF EditIflow
<1>4. FixerStep(f)
  BY <1>2, <1>3 DEF ValidatorNext
<1>5. ~ \E i \in Iflow : OpenFix(f, i) \/ OpenBlind(f, i)
  BY DEF OpenFix, OpenBlind
<1>6. ~ \E d \in Document : Patch(f, d) \/ \E q \in Submitted : Draft(f, q, d)
  BY DEF Draft, Patch
<1>7. ~Refused(f)
  BY <1>1 DEF Refused, FixerState
<1>8. ~(EndFix(f) \/ EndFixEarly(f))
  BY <1>1, IdleFixerTyped DEF EndFix, EndFixEarly
<1> QED
  BY <1>4, <1>5, <1>6, <1>7, <1>8 DEF FixerStep

\* The first of the matching entries is one of them.
LEMMA FirstMatching ==
  ASSUME store \in Seq(Entries), NEW i, NEW p, Matching(i, p) # {}
  PROVE  Min(Matching(i, p)) \in Matching(i, p) /\ Matching(i, p) \subseteq 1 .. Len(store)
<1> DEFINE S == Matching(i, p)
<1>1. S \subseteq 1 .. Len(store) /\ S # {}
  BY DEF Matching
<1> HIDE DEF S
<1>2. S \in SUBSET Nat
  BY <1>1
<1>3. Min(S) \in S
  BY <1>1, <1>2, LeastExists
<1> QED
  BY <1>1, <1>3 DEF S

\* What a comparison of a draft with an entry's document establishes.
NothingNew(was, doc) ==
    /\ doc.ok
    /\ Prints(Flaws(doc)) \subseteq Prints(Flaws(was) \union (IF doc.mapped THEN {} ELSE was.prefixed))
    /\ \A e \in DOMAIN doc.version :
          /\ was.version[e] = Low => doc.version[e] # OverCap
          /\ was.version[e] = Absent => doc.version[e] # OverCap

LEMMA UploadIsNoWorse ==
  ASSUME ValidatorInv, NEW f \in Fixer, Upload(f),
         Matching(fixer[f].iflow, fixer[f].to) # {}
  PROVE  LET was == store[Min(Matching(fixer[f].iflow, fixer[f].to))]
         IN  was.path = fixer[f].to /\ (was.doc.ok => NothingNew(was.doc, fixer[f].draft))
<1> DEFINE i == fixer[f].iflow
           p == fixer[f].to
           n == Min(Matching(i, p))
<1>1. fixer[f] \in FixerState /\ store \in Seq(Entries)
  BY DEF ValidatorInv, ValidatorTypeOK, FixerState
<1>2. n \in Matching(i, p) /\ n \in 1 .. Len(store)
  BY <1>1, FirstMatching
<1>3. p # Named /\ Passes(store[n].doc, fixer[f].draft)
  BY DEF Upload, Admits
<1> HIDE DEF n
<1>4. store[n].path = p
  BY <1>2, <1>3 DEF Matching
<1>5. store[n].doc \in Document /\ fixer[f].draft \in Document
  <2>1. store[n] \in Entries
    BY <1>1, <1>2
  <2> QED
    BY <1>1, <2>1 DEF Entries, FixerState
<1>6. store[n].doc.ok => NothingNew(store[n].doc, fixer[f].draft)
  BY <1>3, <1>5, PassedIsNoWorse DEF NothingNew
<1> QED
  BY <1>4, <1>6 DEF n

\* What the door lets into SAP CPI has no flaw that the document it was compared with had
\* not, and is meant for that document's file, for any iFlows, drafts and submitted paths:
\* whichever fix stored the original, whatever else was uploaded meanwhile
\* (validate_before_update_iflow and _check_iflow_xml of core/validators.py).
THEOREM NoWorse == ValidatorSpec => AcceptedIsNoWorse
<1> DEFINE Accepted ==
      \A f \in Fixer :
          LET doc   == fixer[f].draft
              found == Matching(fixer[f].iflow, fixer[f].to)
              was   == store[Min(found)].doc
          IN  fixer[f].at = "drafted" /\ fixer'[f].at = "uploaded" /\ found # {} =>
                /\ store[Min(found)].path = fixer[f].to
                /\ was.ok =>
                     /\ doc.ok
                     /\ Prints(Flaws(doc)) \subseteq Prints(Flaws(was) \union (IF doc.mapped THEN {} ELSE was.prefixed))
                     /\ \A e \in DOMAIN doc.version :
                           /\ was.version[e] = Low => doc.version[e] # OverCap
                           /\ was.version[e] = Absent => doc.version[e] # OverCap
<1>1. ValidatorInit => ValidatorInv
  BY ValidatorInitInv
<1>2. ValidatorInv /\ [ValidatorNext]_validatorVars => ValidatorInv'
  BY ValidatorInductive
<1>3. ValidatorInv /\ [ValidatorNext]_validatorVars => [Accepted]_validatorVars
  <2> SUFFICES ASSUME ValidatorInv, ValidatorNext PROVE Accepted
    BY Zenon
  <2>1. ASSUME NEW f \in Fixer, fixer[f].at = "drafted", fixer'[f].at = "uploaded",
               Matching(fixer[f].iflow, fixer[f].to) # {}
        PROVE  LET was == store[Min(Matching(fixer[f].iflow, fixer[f].to))]
               IN  was.path = fixer[f].to /\ (was.doc.ok => NothingNew(was.doc, fixer[f].draft))
    BY <2>1, UploadedByUpload, UploadIsNoWorse, Zenon
  <2> QED
    BY <2>1, Zenon DEF NothingNew
<1> QED
  BY <1>1, <1>2, <1>3, PTL DEF ValidatorSpec, AcceptedIsNoWorse

-----------------------------------------------------------------------------
(* Patterns of fixes *)

PatternRow ==
    [ fix : FixText, applied : Nat, success : Nat, outcome : Outcome, fixes : BOOLEAN,
      strategy : Strategy \union {NoStrategy}, counted : BOOLEAN ]

Counters == [applied : Nat, success : Nat, fixes : BOOLEAN]

Nothing == [applied |-> 0, success |-> 0, fixes |-> FALSE]

RecorderState ==
    [ at : { "idle", "read" }, fix : FixText, outcome : Outcome, fixes : BOOLEAN,
      strategy : Strategy \union {NoStrategy}, row : Nat, seen : Counters, whole : BOOLEAN ]

\* A row p claims no more than its calls, and its successes count as its outcome says.
Honest(p) ==
    /\ p.applied > 0
    /\ (p.counted \/ ~crossed) => p.success <= p.applied
    /\ p.success <= succeeded[p.fix]
    /\ p.applied <= recorded[p.fix]
    /\ p.fixes => succeeded[p.fix] > 0
    /\ p.outcome = "SUCCESS" /\ p.counted => p.success >= 1

\* What a recorder c has read may be old, but it is of the row it will write.
Remembers(c) ==
    /\ c.fixes => c.outcome = "SUCCESS"
    /\ c.row = 0 => c.seen = Nothing
    /\ c.row # 0 =>
          /\ c.row \in 1 .. Len(patterns) /\ patterns[c.row].fix = c.fix
          /\ patterns[c.row].counted => c.seen.success <= c.seen.applied
    /\ c.seen.applied <= recorded[c.fix] /\ c.seen.success <= succeeded[c.fix]
    /\ c.seen.fixes => succeeded[c.fix] > 0

Reading == { r \in Recorder : recorder[r].at = "read" }

\* As long as no two calls overlap, what a recorder has read is what is there, and each fix
\* has one row with all its calls.
Alone ==
    /\ \A q, r \in Reading : q = r
    /\ \A r \in Reading :
          LET c == recorder[r]
          IN  /\ c.row = 0 => \A n \in 1 .. Len(patterns) : patterns[n].fix # c.fix
              /\ c.row # 0 => c.seen.applied = patterns[c.row].applied /\ c.seen.success = patterns[c.row].success
    /\ \A m, n \in 1 .. Len(patterns) : patterns[m].fix = patterns[n].fix => m = n
    /\ \A n \in 1 .. Len(patterns) : patterns[n].applied = recorded[patterns[n].fix]
    /\ \A x \in FixText : (\A n \in 1 .. Len(patterns) : patterns[n].fix # x) => recorded[x] = 0

PatternTypes ==
    /\ patterns \in Seq(PatternRow)
    /\ recorder \in [Recorder -> RecorderState]
    /\ recorded \in [FixText -> Nat] /\ succeeded \in [FixText -> Nat]
    /\ crossed \in BOOLEAN

PatternInv ==
    /\ PatternTypes
    /\ \A n \in 1 .. Len(patterns) : Honest(patterns[n])
    /\ \A r \in Reading : Remembers(recorder[r])
    /\ ~crossed => Alone

LEMMA IdleRecorderTyped ==
  IdleRecorder \in RecorderState /\ IdleRecorder.at = "idle" /\ IdleRecorder.seen = Nothing
  BY PatternConstants DEF IdleRecorder, RecorderState, Outcome, Counters, Nothing

LEMMA PatternInitInv ==
  ASSUME PatternInit
  PROVE  PatternInv
<1>1. PatternTypes
  <2>1. patterns \in Seq(PatternRow)
    BY DEF PatternInit
  <2>2. recorder \in [Recorder -> RecorderState]
    BY IdleRecorderTyped DEF PatternInit
  <2>3. recorded \in [FixText -> Nat] /\ succeeded \in [FixText -> Nat] /\ crossed \in BOOLEAN
    BY DEF PatternInit
  <2> QED
    BY <2>1, <2>2, <2>3 DEF PatternTypes
<1>2. Reading = {}
  BY IdleRecorderTyped DEF PatternInit, Reading
<1>3. Len(patterns) = 0 /\ \A x \in FixText : recorded[x] = 0
  BY DEF PatternInit
<1> QED
  BY <1>1, <1>2, <1>3 DEF PatternInv, Alone

\* Of the rows with its fix a call takes the first.
LEMMA FirstRow ==
  ASSUME PatternTypes, NEW x \in FixText, RowsOf(x) # {}
  PROVE  Min(RowsOf(x)) \in 1 .. Len(patterns) /\ patterns[Min(RowsOf(x))].fix = x
<1>1. RowsOf(x) \in SUBSET Nat
  BY DEF RowsOf, PatternTypes
<1>2. Min(RowsOf(x)) \in RowsOf(x)
  BY <1>1, LeastExists
<1> QED
  BY <1>2 DEF RowsOf

LEMMA ReadInv ==
  ASSUME PatternInv, NEW r \in Recorder, ReadPatterns(r)
  PROVE  PatternInv'
<1>1. PICK x \in FixText, o \in Outcome, s \in Strategy \union {NoStrategy}, j \in BOOLEAN, w \in BOOLEAN :
        /\ j => o = "SUCCESS"
        /\ LET row == IF RowsOf(x) = {} THEN 0 ELSE Min(RowsOf(x))
           IN  recorder' = [ recorder EXCEPT ![r] =
                   [ at |-> "read", fix |-> x, outcome |-> o, fixes |-> j, strategy |-> s, row |-> row,
                     seen |-> IF row = 0 THEN IdleRecorder.seen
                              ELSE [applied |-> patterns[row].applied, success |-> patterns[row].success,
                                    fixes |-> patterns[row].fixes],
                     whole |-> w ] ]
  BY DEF ReadPatterns
<1> DEFINE row == IF RowsOf(x) = {} THEN 0 ELSE Min(RowsOf(x))
           seen == IF row = 0 THEN Nothing
                   ELSE [applied |-> patterns[row].applied, success |-> patterns[row].success,
                         fixes |-> patterns[row].fixes]
           e == [ at |-> "read", fix |-> x, outcome |-> o, fixes |-> j, strategy |-> s, row |-> row,
                  seen |-> seen, whole |-> w ]
<1>2. recorder' = [ recorder EXCEPT ![r] = e ]
  BY <1>1, IdleRecorderTyped
<1>3. /\ UNCHANGED << patterns, recorded, succeeded >> /\ recorder[r].at = "idle"
      /\ crossed' = (crossed \/ \E q \in Recorder : recorder[q].at = "read")
  BY DEF ReadPatterns
<1>4. \/ row = 0 /\ \A n \in 1 .. Len(patterns) : patterns[n].fix # x
      \/ row \in 1 .. Len(patterns) /\ patterns[row].fix = x
  BY FirstRow DEF RowsOf, PatternInv
<1> HIDE DEF row
<1>5. PatternTypes
  BY DEF PatternInv
<1>6. row \in Nat /\ (row # 0 => row \in 1 .. Len(patterns) /\ patterns[row] \in PatternRow)
  BY <1>4, <1>5 DEF PatternTypes
<1>7. seen \in Counters
  BY <1>6 DEF PatternRow, Counters, Nothing
<1>8. seen.applied <= recorded[x] /\ seen.success <= succeeded[x] /\ (seen.fixes => succeeded[x] > 0)
      /\ (row = 0 => seen = Nothing)
      /\ (row # 0 => seen.applied = patterns[row].applied /\ seen.success = patterns[row].success)
  BY <1>4, <1>5, <1>6 DEF PatternInv, Honest, PatternTypes, Nothing
<1>9. row # 0 /\ patterns[row].counted => seen.success <= seen.applied
  BY <1>4, <1>6, <1>8 DEF PatternInv, Honest
<1> HIDE DEF seen
<1>10. /\ e \in RecorderState /\ e.at = "read" /\ e.fix = x /\ e.row = row /\ e.seen = seen
       /\ e.outcome = o /\ e.fixes = j
  BY <1>6, <1>7 DEF RecorderState
<1> HIDE DEF e
<1>11. /\ recorder' \in [Recorder -> RecorderState] /\ recorder'[r] = e
       /\ \A q \in Recorder \ {r} : recorder'[q] = recorder[q]
  BY <1>2, <1>5, <1>10 DEF PatternTypes
<1>12. PatternTypes'
  BY <1>3, <1>5, <1>11 DEF PatternTypes
<1>13. ~crossed' => ~crossed
  BY <1>3
<1>14. ASSUME NEW n \in 1 .. Len(patterns') PROVE Honest(patterns[n])'
  BY <1>3, <1>13 DEF PatternInv, Honest
<1>15. ASSUME NEW q \in Reading' PROVE Remembers(recorder[q])'
  <2>1. CASE q = r
    BY <2>1, <1>1, <1>3, <1>4, <1>8, <1>9, <1>10, <1>11 DEF Remembers
  <2>2. CASE q # r
    <3>1. q \in Reading /\ recorder'[q] = recorder[q]
      BY <2>2, <1>11 DEF Reading
    <3> QED
      BY <3>1, <1>3 DEF PatternInv, Remembers
  <2> QED
    BY <2>1, <2>2
<1>16. ASSUME ~crossed' PROVE Alone'
  <2>1. Alone /\ Reading = {}
    BY <1>3, <1>16 DEF PatternInv, Reading
  <2>2. Reading' \subseteq {r}
    BY <1>11, <2>1 DEF Reading
  <2> QED
    BY <1>3, <1>4, <1>8, <1>10, <1>11, <2>1, <2>2 DEF Alone
<1> QED
  BY <1>12, <1>14, <1>15, <1>16 DEF PatternInv

LEMMA ScoredOne == \A o : Scored(o) = IF o = "SUCCESS" THEN 1 ELSE 0
  BY DEF Scored

\* What each of the four statements writes.
LEMMA UpdatedRow ==
  ASSUME NEW row \in PatternRow, NEW c \in RecorderState
  PROVE  LET p == Updated(row, c)
         IN  /\ p \in PatternRow /\ p.fix = row.fix /\ p.applied = c.seen.applied + 1
             /\ p.success = c.seen.success + Scored(c.outcome) /\ p.outcome = c.outcome
             /\ p.fixes = (c.seen.fixes \/ c.fixes) /\ p.counted = row.counted
<1> DEFINE a == [ row EXCEPT !.applied = c.seen.applied + 1 ]
           b == [ a EXCEPT !.outcome = c.outcome ]
           d == [ b EXCEPT !.success = c.seen.success + Scored(c.outcome) ]
           e == [ d EXCEPT !.fixes = c.seen.fixes \/ c.fixes ]
           g == [ e EXCEPT !.strategy = c.strategy ]
<1>1. /\ c.seen \in Counters /\ c.outcome \in Outcome /\ c.fixes \in BOOLEAN
      /\ c.strategy \in Strategy \union {NoStrategy} /\ Scored(c.outcome) \in Nat
  BY ScoredOne DEF RecorderState
<1>2. a \in PatternRow /\ a.fix = row.fix /\ a.applied = c.seen.applied + 1 /\ a.counted = row.counted
  BY <1>1 DEF PatternRow, Counters
<1>3. b = [ a EXCEPT !.outcome = c.outcome ]
  OBVIOUS
<1> HIDE DEF a
<1>4. b \in PatternRow /\ b.fix = row.fix /\ b.applied = c.seen.applied + 1 /\ b.outcome = c.outcome
      /\ b.counted = row.counted
  BY <1>1, <1>2 DEF PatternRow
<1> HIDE DEF b
<1>5. d \in PatternRow /\ d.fix = row.fix /\ d.applied = c.seen.applied + 1 /\ d.outcome = c.outcome
      /\ d.counted = row.counted /\ d.success = c.seen.success + Scored(c.outcome)
  BY <1>1, <1>4 DEF PatternRow, Counters
<1>6. Updated(row, c) = g
  BY Zenon DEF Updated, a, b
<1> HIDE DEF d
<1>7. e \in PatternRow /\ e.fix = row.fix /\ e.applied = c.seen.applied + 1 /\ e.outcome = c.outcome
      /\ e.fixes = (c.seen.fixes \/ c.fixes) /\ e.counted = row.counted /\ e.success = c.seen.success + Scored(c.outcome)
  BY <1>1, <1>5 DEF PatternRow, Counters
<1> HIDE DEF e
<1>8. g \in PatternRow /\ g.fix = row.fix /\ g.applied = c.seen.applied + 1 /\ g.outcome = c.outcome
      /\ g.fixes = (c.seen.fixes \/ c.fixes) /\ g.counted = row.counted /\ g.success = c.seen.success + Scored(c.outcome)
  BY <1>1, <1>7 DEF PatternRow
<1> QED
  BY <1>6, <1>8

LEMMA UpdatedBareRow ==
  ASSUME NEW row \in PatternRow, NEW c \in RecorderState
  PROVE  LET p == UpdatedBare(row, c)
         IN  /\ p \in PatternRow /\ p.fix = row.fix /\ p.applied = c.seen.applied + 1
             /\ p.success = row.success /\ p.outcome = c.outcome /\ p.fixes = row.fixes /\ ~p.counted
<1> DEFINE a == [ row EXCEPT !.applied = c.seen.applied + 1 ]
           b == [ a EXCEPT !.outcome = c.outcome ]
           d == [ b EXCEPT !.counted = FALSE ]
<1>1. c.seen \in Counters /\ c.outcome \in Outcome
  BY DEF RecorderState
<1>2. UpdatedBare(row, c) = d
  BY Zenon DEF UpdatedBare
<1>3. a \in PatternRow /\ a.fix = row.fix /\ a.applied = c.seen.applied + 1 /\ a.fixes = row.fixes
      /\ a.success = row.success
  BY <1>1 DEF PatternRow, Counters
<1> HIDE DEF a
<1>4. b \in PatternRow /\ b.fix = row.fix /\ b.applied = c.seen.applied + 1 /\ b.fixes = row.fixes
      /\ b.success = row.success /\ b.outcome = c.outcome
  BY <1>1, <1>3 DEF PatternRow
<1> HIDE DEF b
<1>5. d \in PatternRow /\ d.fix = row.fix /\ d.applied = c.seen.applied + 1 /\ d.fixes = row.fixes
      /\ d.success = row.success /\ d.outcome = c.outcome /\ ~d.counted
  BY <1>4 DEF PatternRow
<1> QED
  BY <1>2, <1>5

LEMMA InsertedRow ==
  ASSUME NEW c \in RecorderState
  PROVE  LET p == Inserted(c)
         IN  /\ p \in PatternRow /\ p.fix = c.fix /\ p.applied = 1 /\ p.success = Scored(c.outcome)
             /\ p.outcome = c.outcome /\ p.fixes = c.fixes /\ p.counted
  BY ScoredOne DEF Inserted, PatternRow, RecorderState

LEMMA InsertedBareRow ==
  ASSUME NEW c \in RecorderState
  PROVE  LET p == InsertedBare(c)
         IN  /\ p \in PatternRow /\ p.fix = c.fix /\ p.applied = 1 /\ p.success = 0
             /\ p.outcome = c.outcome /\ ~p.fixes /\ ~p.counted
<1> DEFINE i == Inserted(c)
           a == [ i EXCEPT !.success = 0 ]
           b == [ a EXCEPT !.fixes = FALSE ]
           d == [ b EXCEPT !.strategy = NoStrategy ]
           e == [ d EXCEPT !.counted = FALSE ]
<1>1. InsertedBare(c) = e
  BY Zenon DEF InsertedBare
<1>2. i \in PatternRow /\ i.fix = c.fix /\ i.applied = 1 /\ i.outcome = c.outcome
  BY InsertedRow
<1> HIDE DEF i
<1>3. a \in PatternRow /\ a.fix = c.fix /\ a.applied = 1 /\ a.outcome = c.outcome /\ a.success = 0
  BY <1>2 DEF PatternRow
<1> HIDE DEF a
<1>4. b \in PatternRow /\ b.fix = c.fix /\ b.applied = 1 /\ b.outcome = c.outcome /\ b.success = 0 /\ ~b.fixes
  BY <1>3 DEF PatternRow
<1> HIDE DEF b
<1>5. d \in PatternRow /\ d.fix = c.fix /\ d.applied = 1 /\ d.outcome = c.outcome /\ d.success = 0 /\ ~d.fixes
  BY <1>4 DEF PatternRow
<1> HIDE DEF d
<1>6. e \in PatternRow /\ e.fix = c.fix /\ e.applied = 1 /\ e.outcome = c.outcome /\ e.success = 0 /\ ~e.fixes
      /\ ~e.counted
  BY <1>5 DEF PatternRow
<1> QED
  BY <1>1, <1>6

\* A write of p in row k for a call c that r remembers, as any of the four statements makes it.
Writes(r, k, p) ==
    LET c == recorder[r]
    IN  /\ patterns' \in Seq(PatternRow) /\ k \in 1 .. Len(patterns') /\ patterns'[k] = p
        /\ \A n \in 1 .. Len(patterns') : n # k => n \in 1 .. Len(patterns) /\ patterns'[n] = patterns[n]
        /\ \A n \in 1 .. Len(patterns) : n \in 1 .. Len(patterns')
        /\ p.fix = c.fix /\ p.applied = c.seen.applied + 1
        /\ c.row = 0 => k \notin 1 .. Len(patterns) /\ p.success <= 1 /\ p.success <= Scored(c.outcome)
                        /\ (p.fixes => c.fixes)
        /\ c.row # 0 =>
              /\ k = c.row
              /\ p.counted => patterns[k].counted
              /\ p.fixes => c.fixes \/ c.seen.fixes \/ patterns[k].fixes
              /\ p.success = c.seen.success + Scored(c.outcome) \/ (~p.counted /\ p.success = patterns[k].success)
        /\ p.counted => p.success = (IF c.row = 0 THEN 0 ELSE c.seen.success) + Scored(c.outcome)
        /\ p.outcome = c.outcome

LEMMA WriteIsOne ==
  ASSUME PatternInv, NEW r \in Recorder, WritePattern(r)
  PROVE  \E k \in Nat, p \in PatternRow : Writes(r, k, p)
<1> DEFINE c == recorder[r]
<1>1. r \in Reading /\ c \in RecorderState /\ patterns \in Seq(PatternRow) /\ Remembers(c)
  BY DEF WritePattern, Reading, PatternInv, PatternTypes
<1>2. Scored(c.outcome) \in 0 .. 1
  BY ScoredOne
<1>3. c.seen \in Counters
  BY <1>1 DEF RecorderState
<1>4. CASE c.row = 0
  <2> DEFINE p == IF c.whole THEN Inserted(c) ELSE InsertedBare(c)
  <2>1. patterns' = Append(patterns, p)
    BY <1>4 DEF WritePattern
  <2>2. p \in PatternRow /\ p.fix = c.fix /\ p.applied = 1 /\ p.outcome = c.outcome
        /\ (p.fixes => c.fixes) /\ (p.counted => p.success = Scored(c.outcome)) /\ p.success <= Scored(c.outcome)
    BY <1>1, <1>2, InsertedRow, InsertedBareRow
  <2> HIDE DEF p
  <2>3. c.seen.applied = 0
    BY <1>1, <1>4 DEF Remembers, Nothing
  <2>4. p.success \in Nat
    BY <2>2 DEF PatternRow
  <2>5. Writes(r, Len(patterns) + 1, p)
    BY <1>1, <1>2, <1>4, <2>1, <2>2, <2>3, <2>4 DEF Writes
  <2> QED
    BY <1>1, <2>2, <2>5
<1>5. CASE c.row # 0
  <2> DEFINE p == IF c.whole THEN Updated(patterns[c.row], c) ELSE UpdatedBare(patterns[c.row], c)
  <2>1. c.row \in 1 .. Len(patterns) /\ patterns[c.row].fix = c.fix /\ patterns[c.row] \in PatternRow
    BY <1>1, <1>5 DEF Remembers
  <2>2. patterns' = [ patterns EXCEPT ![c.row] = p ]
    BY <1>5, <2>1 DEF WritePattern
  <2>3. /\ p \in PatternRow /\ p.fix = c.fix /\ p.applied = c.seen.applied + 1 /\ p.outcome = c.outcome
        /\ p.counted => patterns[c.row].counted /\ p.success = c.seen.success + Scored(c.outcome)
        /\ p.fixes => c.fixes \/ c.seen.fixes \/ patterns[c.row].fixes
        /\ p.success = c.seen.success + Scored(c.outcome) \/ (~p.counted /\ p.success = patterns[c.row].success)
    <3>1. CASE c.whole
      <4>1. p = Updated(patterns[c.row], c)
        BY <3>1
      <4> HIDE DEF p
      <4>2. /\ p \in PatternRow /\ p.fix = patterns[c.row].fix /\ p.applied = c.seen.applied + 1
            /\ p.success = c.seen.success + Scored(c.outcome) /\ p.outcome = c.outcome
            /\ p.fixes = (c.seen.fixes \/ c.fixes) /\ p.counted = patterns[c.row].counted
        BY <1>1, <2>1, <4>1, UpdatedRow, Zenon
      <4>3. (p.fixes => c.fixes \/ c.seen.fixes \/ patterns[c.row].fixes) /\ (p.counted => patterns[c.row].counted)
        BY <4>2, Zenon
      <4> QED
        BY <2>1, <4>2, <4>3
    <3>2. CASE ~c.whole
      BY <1>1, <2>1, <3>2, UpdatedBareRow
    <3> QED
      BY <3>1, <3>2
  <2> HIDE DEF p
  <2>4. Writes(r, c.row, p)
    BY <1>1, <1>5, <2>1, <2>2, <2>3 DEF Writes
  <2> QED
    BY <2>1, <2>3, <2>4
<1> QED
  BY <1>4, <1>5

LEMMA WriteInv ==
  ASSUME PatternInv, NEW r \in Recorder, WritePattern(r)
  PROVE  PatternInv'
<1> DEFINE c == recorder[r]
<1>1. PICK k \in Nat, p \in PatternRow : Writes(r, k, p)
  BY WriteIsOne
<1>2. r \in Reading /\ c \in RecorderState /\ Remembers(c) /\ PatternTypes
  BY DEF WritePattern, Reading, PatternInv, PatternTypes
<1>3. /\ recorded' = [ recorded EXCEPT ![c.fix] = @ + 1 ]
      /\ succeeded' = [ succeeded EXCEPT ![c.fix] = @ + (IF c.outcome = "SUCCESS" THEN 1 ELSE 0) ]
      /\ recorder' = [ recorder EXCEPT ![r] = IdleRecorder ]
      /\ crossed' = crossed
  BY DEF WritePattern
<1>4. c.fix \in FixText /\ c.row \in Nat /\ c.seen.applied \in Nat /\ c.seen.success \in Nat
  BY <1>2 DEF RecorderState, Counters
<1>5. /\ recorded' \in [FixText -> Nat] /\ recorded'[c.fix] = recorded[c.fix] + 1
      /\ \A x \in FixText : x # c.fix => recorded'[x] = recorded[x]
      /\ recorded[c.fix] \in Nat
  BY <1>2, <1>3, <1>4 DEF PatternTypes
<1>6. /\ succeeded' \in [FixText -> Nat] /\ succeeded'[c.fix] = succeeded[c.fix] + Scored(c.outcome)
      /\ \A x \in FixText : x # c.fix => succeeded'[x] = succeeded[x]
      /\ succeeded[c.fix] \in Nat
  BY <1>2, <1>3, <1>4, ScoredOne DEF PatternTypes
<1>7. /\ recorder' \in [Recorder -> RecorderState] /\ recorder'[r].at = "idle"
      /\ \A q \in Recorder \ {r} : recorder'[q] = recorder[q]
  BY <1>2, <1>3, IdleRecorderTyped DEF PatternTypes
<1>8. Reading' = Reading \ {r}
  BY <1>7 DEF Reading
<1>9. PatternTypes'
  BY <1>1, <1>2, <1>3, <1>5, <1>6, <1>7 DEF PatternTypes, Writes
<1>10. Scored(c.outcome) \in 0 .. 1 /\ (c.outcome = "SUCCESS" <=> Scored(c.outcome) = 1)
  BY ScoredOne
<1>11. p.success \in Nat /\ p.applied \in Nat
  BY DEF PatternRow
<1>12. c.row # 0 => k \in 1 .. Len(patterns) /\ Honest(patterns[k]) /\ patterns[k] \in PatternRow
                    /\ patterns[k].fix = c.fix
  BY <1>1, <1>2 DEF Writes, Remembers, PatternInv, PatternTypes
<1>13. Honest(p)'
  <2>1. p.applied > 0 /\ p.applied <= recorded'[p.fix]
    BY <1>1, <1>2, <1>4, <1>5 DEF Writes, Remembers
  <2>2. p.success <= succeeded'[p.fix]
    <3>1. CASE c.row = 0
      BY <1>1, <1>6, <1>10, <1>11, <3>1 DEF Writes
    <3>2. CASE c.row # 0
      <4>1. patterns[k].success <= succeeded[c.fix] /\ patterns[k].success \in Nat
        BY <1>12, <3>2 DEF Honest, PatternRow
      <4>2. c.seen.success <= succeeded[c.fix]
        BY <1>2 DEF Remembers
      <4> QED
        BY <1>1, <1>4, <1>6, <1>10, <3>2, <4>1, <4>2 DEF Writes
    <3> QED
      BY <3>1, <3>2
  <2>3. p.fixes => succeeded'[p.fix] > 0
    <3>1. ASSUME c.fixes PROVE succeeded'[p.fix] > 0
      BY <1>1, <1>2, <1>6, <1>10, <3>1 DEF Writes, Remembers
    <3>2. ASSUME c.row # 0, patterns[k].fixes PROVE succeeded'[p.fix] > 0
      BY <1>1, <1>6, <1>10, <1>12, <3>2 DEF Writes, Honest
    <3>3. ASSUME c.seen.fixes PROVE succeeded'[p.fix] > 0
      BY <1>1, <1>2, <1>6, <1>10, <3>3 DEF Writes, Remembers
    <3> QED
      BY <1>1, <3>1, <3>2, <3>3 DEF Writes
  <2>4. p.outcome = "SUCCESS" /\ p.counted => p.success >= 1
    BY <1>1, <1>4, <1>10 DEF Writes
  <2>5. p.counted => p.success <= p.applied
    <3>1. CASE c.row = 0
      BY <1>1, <1>4, <1>11, <3>1 DEF Writes
    <3>2. ASSUME c.row # 0, p.counted PROVE c.seen.success <= c.seen.applied
      BY <1>1, <1>2, <3>2 DEF Writes, Remembers
    <3> QED
      BY <1>1, <1>4, <1>10, <3>1, <3>2 DEF Writes
  <2>6. ~crossed' => p.success <= p.applied
    <3>1. CASE c.row = 0
      BY <1>1, <1>4, <1>11, <3>1 DEF Writes
    <3>2. ASSUME c.row # 0, ~crossed' PROVE p.success <= p.applied
      <4>1. c.seen.applied = patterns[k].applied /\ c.seen.success = patterns[k].success
        BY <1>1, <1>2, <1>3, <3>2 DEF PatternInv, Alone, Writes
      <4>2. patterns[k].success <= patterns[k].applied /\ patterns[k].success \in Nat /\ patterns[k].applied \in Nat
        BY <1>3, <1>12, <3>2 DEF Honest, PatternRow
      <4> QED
        BY <1>1, <1>4, <1>10, <3>2, <4>1, <4>2 DEF Writes
    <3> QED
      BY <3>1, <3>2
  <2> QED
    BY <2>1, <2>2, <2>3, <2>4, <2>5, <2>6 DEF Honest
<1>14. \A x \in FixText : recorded'[x] >= recorded[x] /\ succeeded'[x] >= succeeded[x]
                          /\ recorded[x] \in Nat /\ succeeded[x] \in Nat
                          /\ recorded'[x] \in Nat /\ succeeded'[x] \in Nat
  <2> TAKE x \in FixText
  <2>1. recorded[x] \in Nat /\ succeeded[x] \in Nat
    BY <1>2 DEF PatternTypes
  <2>2. CASE x = c.fix
    BY <1>5, <1>6, <1>10, <2>1, <2>2
  <2>3. CASE x # c.fix
    BY <1>5, <1>6, <2>1, <2>3
  <2> QED
    BY <2>2, <2>3
<1>15. ASSUME NEW n \in 1 .. Len(patterns') PROVE Honest(patterns[n])'
  <2>1. CASE n = k
    BY <1>1, <1>13, <2>1 DEF Writes
  <2>2. CASE n # k
    <3>1. n \in 1 .. Len(patterns) /\ patterns'[n] = patterns[n] /\ patterns[n] \in PatternRow
      BY <1>1, <1>2, <2>2 DEF Writes, PatternTypes
    <3>2. Honest(patterns[n])
      BY <3>1 DEF PatternInv
    <3>3. patterns[n].fix \in FixText /\ patterns[n].success \in Nat /\ patterns[n].applied \in Nat
      BY <3>1 DEF PatternRow
    <3> QED
      BY <1>3, <1>14, <3>1, <3>2, <3>3 DEF Honest
  <2> QED
    BY <2>1, <2>2
<1>16. ASSUME NEW q \in Reading' PROVE Remembers(recorder[q])'
  <2> DEFINE d == recorder[q]
  <2>1. q \in Reading /\ recorder'[q] = d /\ Remembers(d) /\ d \in RecorderState
    BY <1>2, <1>7, <1>8 DEF PatternInv, Reading, PatternTypes
  <2>2. d.fix \in FixText /\ d.row \in Nat /\ d.seen.applied \in Nat /\ d.seen.success \in Nat
    BY <2>1 DEF RecorderState, Counters
  <2>3. ASSUME d.row # 0
        PROVE  /\ d.row \in 1 .. Len(patterns') /\ patterns'[d.row].fix = d.fix
               /\ patterns'[d.row].counted => d.seen.success <= d.seen.applied
    <3>1. d.row \in 1 .. Len(patterns) /\ patterns[d.row].fix = d.fix
          /\ (patterns[d.row].counted => d.seen.success <= d.seen.applied)
      BY <2>1, <2>3 DEF Remembers
    <3>2. CASE d.row # k
      BY <1>1, <3>1, <3>2 DEF Writes
    <3>3. CASE d.row = k
      <4>1. c.row # 0
        BY <1>1, <3>1, <3>3 DEF Writes
      <4> QED
        BY <1>1, <1>12, <3>1, <3>3, <4>1 DEF Writes
    <3> QED
      BY <3>2, <3>3
  <2>4. d.seen.applied <= recorded'[d.fix] /\ d.seen.success <= succeeded'[d.fix]
        /\ (d.seen.fixes => succeeded'[d.fix] > 0)
    <3>1. recorded[d.fix] <= recorded'[d.fix] /\ succeeded[d.fix] <= succeeded'[d.fix]
          /\ recorded[d.fix] \in Nat /\ succeeded[d.fix] \in Nat
          /\ recorded'[d.fix] \in Nat /\ succeeded'[d.fix] \in Nat
      BY <1>14, <2>2
    <3>2. d.seen.applied <= recorded[d.fix] /\ d.seen.success <= succeeded[d.fix]
          /\ (d.seen.fixes => succeeded[d.fix] > 0)
      BY <2>1 DEF Remembers
    <3> QED
      BY <2>2, <3>1, <3>2
  <2> HIDE DEF d
  <2> QED
    BY <2>1, <2>3, <2>4 DEF Remembers
<1>17. ASSUME ~crossed' PROVE Alone'
  <2>1. Alone /\ Reading' = {}
    BY <1>2, <1>3, <1>8, <1>17 DEF PatternInv, Alone
  <2>2. ASSUME NEW n \in 1 .. Len(patterns'), n # k PROVE patterns'[n].fix # c.fix
    <3>1. n \in 1 .. Len(patterns) /\ patterns'[n] = patterns[n]
      BY <1>1, <2>2 DEF Writes
    <3>2. CASE c.row = 0
      BY <1>2, <2>1, <3>1, <3>2 DEF Alone
    <3>3. CASE c.row # 0
      BY <1>12, <2>1, <2>2, <3>1, <3>3 DEF Alone
    <3> QED
      BY <3>2, <3>3
  <2>3. ASSUME NEW m \in 1 .. Len(patterns'), NEW n \in 1 .. Len(patterns'), patterns'[m].fix = patterns'[n].fix
        PROVE  m = n
    BY <1>1, <2>1, <2>2, <2>3 DEF Writes, Alone
  <2>4. recorded'[c.fix] = p.applied
    <3>1. CASE c.row = 0
      <4>1. recorded[c.fix] = 0 /\ c.seen.applied = 0
        BY <1>2, <1>4, <2>1, <3>1 DEF Alone, Remembers, Nothing
      <4> QED
        BY <1>1, <1>5, <4>1 DEF Writes
    <3>2. CASE c.row # 0
      <4>1. c.seen.applied = recorded[c.fix]
        BY <1>1, <1>2, <1>12, <2>1, <3>2 DEF Alone, Writes
      <4> QED
        BY <1>1, <1>5, <4>1 DEF Writes
    <3> QED
      BY <3>1, <3>2
  <2>5. ASSUME NEW n \in 1 .. Len(patterns') PROVE patterns'[n].applied = recorded'[patterns'[n].fix]
    <3>1. CASE n = k
      BY <1>1, <2>4, <3>1 DEF Writes
    <3>2. CASE n # k
      <4>1. n \in 1 .. Len(patterns) /\ patterns'[n] = patterns[n] /\ patterns[n] \in PatternRow
        BY <1>1, <1>2, <3>2 DEF Writes, PatternTypes
      <4>2. patterns[n].fix \in FixText /\ patterns[n].fix # c.fix
        BY <2>2, <3>2, <4>1 DEF PatternRow
      <4> QED
        BY <1>5, <2>1, <4>1, <4>2 DEF Alone
    <3> QED
      BY <3>1, <3>2
  <2>6. ASSUME NEW x \in FixText, \A n \in 1 .. Len(patterns') : patterns'[n].fix # x PROVE recorded'[x] = 0
    <3>1. x # c.fix
      BY <1>1, <2>6 DEF Writes
    <3>2. \A n \in 1 .. Len(patterns) : patterns[n].fix # x
      <4> TAKE n \in 1 .. Len(patterns)
      <4>1. CASE n # k
        BY <1>1, <2>6, <4>1 DEF Writes
      <4>2. CASE n = k
        <5>1. c.row # 0
          BY <1>1, <4>2 DEF Writes
        <5> QED
          BY <1>12, <3>1, <4>2, <5>1
      <4> QED
        BY <4>1, <4>2
    <3> QED
      BY <1>5, <2>1, <3>1, <3>2 DEF Alone
  <2> QED
    BY <2>1, <2>3, <2>5, <2>6 DEF Alone
<1> QED
  BY <1>9, <1>15, <1>16, <1>17 DEF PatternInv

LEMMA FailsToRecordInv ==
  ASSUME PatternInv, NEW r \in Recorder, RecordFails(r)
  PROVE  PatternInv'
<1>1. recorder' = [ recorder EXCEPT ![r] = IdleRecorder ] /\ UNCHANGED << patterns, recorded, succeeded, crossed >>
  BY DEF RecordFails
<1>2. /\ recorder' \in [Recorder -> RecorderState] /\ recorder'[r].at = "idle"
      /\ \A q \in Recorder \ {r} : recorder'[q] = recorder[q]
  BY <1>1, IdleRecorderTyped DEF PatternInv, PatternTypes
<1>3. Reading' = Reading \ {r} /\ \A q \in Reading' : recorder'[q] = recorder[q]
  BY <1>2 DEF Reading
<1>4. PatternTypes'
  BY <1>1, <1>2 DEF PatternInv, PatternTypes
<1>5. ASSUME NEW n \in 1 .. Len(patterns') PROVE Honest(patterns[n])'
  BY <1>1 DEF PatternInv, Honest
<1>6. ASSUME NEW q \in Reading' PROVE Remembers(recorder[q])'
  BY <1>1, <1>3 DEF PatternInv, Remembers
<1>7. ASSUME ~crossed' PROVE Alone'
  BY <1>1, <1>3, <1>7 DEF PatternInv, Alone
<1> QED
  BY <1>4, <1>5, <1>6, <1>7 DEF PatternInv

LEMMA PatternInductive ==
  ASSUME PatternInv, [PatternNext]_patternVars
  PROVE  PatternInv'
<1>1. CASE UNCHANGED patternVars
  BY <1>1 DEF patternVars, PatternInv, PatternTypes, Honest, Remembers, Alone, Reading
<1>2. CASE PatternNext
  BY <1>2, ReadInv, WriteInv, FailsToRecordInv DEF PatternNext
<1> QED
  BY <1>1, <1>2

LEMMA AtMostOne ==
  ASSUME NEW S, \A m, n \in S : m = n
  PROVE  Cardinality(S) <= 1
<1>1. CASE S = {}
  BY <1>1, FS_EmptySet
<1>2. CASE S # {}
  <2>1. PICK n \in S : S = {n}
    BY <1>2
  <2>2. Cardinality({n}) = 1
    BY FS_Singleton, Zenon
  <2> QED
    BY <2>1, <2>2
<1> QED
  BY <1>1, <1>2

LEMMA InvAddsUp ==
  ASSUME PatternInv
  PROVE  PatternsAddUp
<1>1. ASSUME NEW n \in 1 .. Len(patterns)
      PROVE  /\ (patterns[n].counted \/ ~crossed) => patterns[n].success <= patterns[n].applied
             /\ patterns[n].success <= succeeded[patterns[n].fix]
             /\ patterns[n].applied <= recorded[patterns[n].fix]
             /\ patterns[n].fixes => succeeded[patterns[n].fix] > 0
  BY DEF PatternInv, Honest
<1>2. \A n \in Offered : patterns[n].counted => n \in OfferedToOthers
  BY DEF PatternInv, Honest, Offered, OfferedToOthers
<1>3. ASSUME ~crossed, NEW x \in FixText
      PROVE  Cardinality(RowsOf(x)) <= 1 /\ \A n \in RowsOf(x) : patterns[n].applied = recorded[x]
  <2>1. \A m, n \in RowsOf(x) : m = n
    BY <1>3 DEF PatternInv, Alone, RowsOf
  <2>2. \A n \in RowsOf(x) : patterns[n].applied = recorded[x]
    BY <1>3 DEF PatternInv, Alone, RowsOf
  <2> QED
    BY <2>1, <2>2, AtMostOne
<1> QED
  BY <1>1, <1>2, <1>3 DEF PatternsAddUp

\* The counters of a pattern never claim more than the calls that were made, and count them
\* all, in one row for each fix, when no two calls overlap: for any number of callers, fixes
\* and failing statements (upsert_fix_pattern of db/database.py).
THEOREM AddUp == PatternSpec => []PatternsAddUp
<1>1. PatternInit => PatternInv
  BY PatternInitInv
<1>2. PatternInv /\ [PatternNext]_patternVars => PatternInv'
  BY PatternInductive
<1>3. PatternInv => PatternsAddUp
  BY InvAddsUp
<1> QED
  BY <1>1, <1>2, <1>3, PTL DEF PatternSpec

\* Every call writes at most one row and is counted at most once.
Budget ==
    /\ calls \in 0 .. MaxRecords
    /\ IsFiniteSet(Reading)
    /\ Len(patterns) + Cardinality(Reading) <= calls
    /\ \A x \in FixText : recorded[x] + Cardinality(Reading) <= calls /\ succeeded[x] <= recorded[x]
    /\ \A r \in Recorder : recorder[r].at # "read" => recorder[r] = IdleRecorder

LEMMA BudgetInit ==
  ASSUME PatternInit
  PROVE  Budget
<1>1. Reading = {}
  BY IdleRecorderTyped DEF PatternInit, Reading
<1> QED
  BY <1>1, FS_EmptySet, PatternConstants DEF PatternInit, Budget

LEMMA BudgetInductive ==
  ASSUME PatternInv, Budget, [PatternNext]_patternVars
  PROVE  Budget'
<1> DEFINE n == Cardinality(Reading)
<1>1. n \in Nat /\ Len(patterns) \in Nat /\ recorded \in [FixText -> Nat] /\ succeeded \in [FixText -> Nat]
  BY FS_CardinalityType DEF Budget, PatternInv, PatternTypes
<1>2. CASE UNCHANGED patternVars
  BY <1>2 DEF patternVars, Budget, Reading
<1>3. ASSUME NEW r \in Recorder, ReadPatterns(r)
      PROVE  Budget'
  <2>1. PICK x \in FixText, o \in Outcome, s \in Strategy \union {NoStrategy}, j \in BOOLEAN, w \in BOOLEAN :
          /\ j => o = "SUCCESS"
          /\ LET row == IF RowsOf(x) = {} THEN 0 ELSE Min(RowsOf(x))
             IN  recorder' = [ recorder EXCEPT ![r] =
                     [ at |-> "read", fix |-> x, outcome |-> o, fixes |-> j, strategy |-> s, row |-> row,
                       seen |-> IF row = 0 THEN IdleRecorder.seen
                                ELSE [applied |-> patterns[row].applied, success |-> patterns[row].success,
                                      fixes |-> patterns[row].fixes],
                       whole |-> w ] ]
    BY <1>3 DEF ReadPatterns
  <2>2. UNCHANGED << patterns, recorded, succeeded >> /\ calls' = calls + 1 /\ calls < MaxRecords
        /\ recorder[r].at = "idle"
    BY <1>3 DEF ReadPatterns
  <2>3. recorder'[r].at = "read" /\ \A q \in Recorder \ {r} : recorder'[q] = recorder[q]
    BY <2>1 DEF PatternInv, PatternTypes
  <2>4. Reading' = Reading \union {r} /\ r \notin Reading
    BY <2>2, <2>3 DEF Reading
  <2>5. IsFiniteSet(Reading') /\ Cardinality(Reading') = n + 1
    BY <2>4, FS_AddElement DEF Budget
  <2>6. calls' \in 0 .. MaxRecords
    BY <2>2, PatternConstants DEF Budget
  <2>7. calls \in Nat
    BY PatternConstants DEF Budget
  <2> HIDE DEF n
  <2>8. Len(patterns') + Cardinality(Reading') <= calls'
    <3>1. Len(patterns) + n <= calls
      BY DEF Budget, n
    <3> QED
      BY <1>1, <2>2, <2>5, <2>7, <3>1
  <2>9. ASSUME NEW y \in FixText
        PROVE  recorded'[y] + Cardinality(Reading') <= calls' /\ succeeded'[y] <= recorded'[y]
    <3>1. recorded[y] + n <= calls /\ succeeded[y] <= recorded[y] /\ recorded[y] \in Nat
      BY <1>1 DEF Budget, n
    <3> QED
      BY <1>1, <2>2, <2>5, <2>7, <3>1
  <2>10. \A q \in Recorder : recorder'[q].at # "read" => recorder'[q] = IdleRecorder
    BY <2>3 DEF Budget
  <2> QED
    BY <2>5, <2>6, <2>8, <2>9, <2>10 DEF Budget
<1>4. ASSUME NEW r \in Recorder, WritePattern(r) \/ RecordFails(r)
      PROVE  Budget'
  <2>1. recorder' = [ recorder EXCEPT ![r] = IdleRecorder ] /\ UNCHANGED calls /\ r \in Reading
    BY <1>4 DEF WritePattern, RecordFails, Reading
  <2>2. recorder'[r] = IdleRecorder /\ \A q \in Recorder \ {r} : recorder'[q] = recorder[q]
    BY <2>1 DEF PatternInv, PatternTypes
  <2>3. Reading' = Reading \ {r}
    BY <2>2, IdleRecorderTyped DEF Reading
  <2>4. IsFiniteSet(Reading') /\ Cardinality(Reading') = n - 1
    BY <2>1, <2>3, FS_RemoveElement DEF Budget
  <2>5. Len(patterns') \in 0 .. Len(patterns) + 1
    <3>1. CASE WritePattern(r)
      <4>1. patterns \in Seq(PatternRow)
        BY DEF PatternInv, PatternTypes
      <4>2. \/ \E p : patterns' = Append(patterns, p)
            \/ \E p : patterns' = [ patterns EXCEPT ![recorder[r].row] = p ]
        BY <3>1 DEF WritePattern
      <4> QED
        BY <1>1, <4>1, <4>2
    <3>2. CASE RecordFails(r)
      BY <1>1, <3>2 DEF RecordFails
    <3> QED
      BY <1>4, <3>1, <3>2
  <2>6. ASSUME NEW x \in FixText
        PROVE  recorded'[x] \in 0 .. recorded[x] + 1 /\ succeeded'[x] <= recorded'[x]
    <3>1. CASE WritePattern(r)
      <4>1. recorder[r].fix \in FixText
        BY DEF PatternInv, PatternTypes, RecorderState
      <4>2. succeeded[x] <= recorded[x] /\ succeeded[x] \in Nat /\ recorded[x] \in Nat
        BY <1>1 DEF Budget
      <4>3. /\ recorded' = [ recorded EXCEPT ![recorder[r].fix] = recorded[recorder[r].fix] + 1 ]
            /\ succeeded' = [ succeeded EXCEPT ![recorder[r].fix] = succeeded[recorder[r].fix]
                                                 + (IF recorder[r].outcome = "SUCCESS" THEN 1 ELSE 0) ]
        BY <3>1 DEF WritePattern
      <4>4. CASE x = recorder[r].fix
        BY <1>1, <4>2, <4>3, <4>4
      <4>5. CASE x # recorder[r].fix
        BY <1>1, <4>2, <4>3, <4>5
      <4> QED
        BY <4>4, <4>5
    <3>2. CASE RecordFails(r)
      BY <1>1, <3>2 DEF RecordFails, Budget
    <3> QED
      BY <1>4, <3>1, <3>2
  <2>7. calls \in Nat
    BY PatternConstants DEF Budget
  <2> HIDE DEF n
  <2>8. Len(patterns') + (n - 1) <= calls
    BY <1>1, <2>5, <2>7 DEF Budget, n
  <2>9. ASSUME NEW x \in FixText PROVE recorded'[x] + (n - 1) <= calls /\ succeeded'[x] <= recorded'[x]
    <3>1. recorded[x] + n <= calls /\ recorded[x] \in Nat
      BY <1>1 DEF Budget, n
    <3> QED
      BY <1>1, <2>6, <2>7, <3>1
  <2> QED
    BY <2>1, <2>2, <2>4, <2>8, <2>9, IdleRecorderTyped DEF Budget
<1> QED
  BY <1>2, <1>3, <1>4 DEF PatternNext

LEMMA PatternTyping ==
  ASSUME PatternInv, Budget
  PROVE  PatternTypeOK
<1>1. PatternTypes /\ Cardinality(Reading) \in Nat /\ calls \in 0 .. MaxRecords /\ MaxRecords \in Nat
  BY FS_CardinalityType, PatternConstants DEF PatternInv, Budget
<1>2. Len(patterns) \in 0 .. MaxRecords
  BY <1>1 DEF PatternTypes, Budget
<1>3. ASSUME NEW x \in FixText PROVE recorded[x] \in 0 .. MaxRecords /\ succeeded[x] \in 0 .. MaxRecords
  <2>1. recorded[x] + Cardinality(Reading) <= calls /\ succeeded[x] <= recorded[x]
    BY DEF Budget
  <2>2. recorded[x] \in Nat /\ succeeded[x] \in Nat
    BY <1>1 DEF PatternTypes
  <2> QED
    BY <1>1, <2>1, <2>2
<1>4. patterns \in Seq(Patterns)
  <2>1. ASSUME NEW n \in 1 .. Len(patterns) PROVE patterns[n] \in Patterns
    <3>1. patterns[n] \in PatternRow /\ Honest(patterns[n])
      BY <1>1 DEF PatternTypes, PatternInv
    <3>2. patterns[n].fix \in FixText /\ patterns[n].applied \in Nat /\ patterns[n].success \in Nat
      BY <3>1 DEF PatternRow
    <3>3. patterns[n].applied \in 1 .. MaxRecords /\ patterns[n].success \in 0 .. MaxRecords
      <4>1. recorded[patterns[n].fix] \in 0 .. MaxRecords /\ succeeded[patterns[n].fix] \in 0 .. MaxRecords
        BY <1>3, <3>2
      <4>2. patterns[n].applied > 0 /\ patterns[n].applied <= recorded[patterns[n].fix]
            /\ patterns[n].success <= succeeded[patterns[n].fix]
        BY <3>1 DEF Honest
      <4>3. MaxRecords \in Nat
        BY <1>1
      <4>4. patterns[n].applied \in 1 .. MaxRecords
        BY <3>2, <4>1, <4>2, <4>3
      <4>5. patterns[n].success \in 0 .. MaxRecords
        BY <3>2, <4>1, <4>2, <4>3
      <4> QED
        BY <4>4, <4>5
    <3> QED
      BY <3>1, <3>3 DEF PatternRow, Patterns
  <2> QED
    BY <1>1, <2>1 DEF PatternTypes
<1>5. ASSUME NEW r \in Recorder
      PROVE  recorder[r] \in [ at : { "idle", "read" }, fix : FixText, outcome : Outcome, fixes : BOOLEAN,
                               strategy : Strategy \union {NoStrategy}, row : 0 .. MaxRecords,
                               seen : [applied : 0 .. MaxRecords, success : 0 .. MaxRecords, fixes : BOOLEAN],
                               whole : BOOLEAN ]
  <2> DEFINE c == recorder[r]
  <2>1. c \in RecorderState /\ c.fix \in FixText /\ c.seen \in Counters /\ c.row \in Nat
    BY <1>1 DEF PatternTypes, RecorderState
  <2>2. c.row \in 0 .. MaxRecords /\ c.seen.applied \in 0 .. MaxRecords /\ c.seen.success \in 0 .. MaxRecords
    <3>1. CASE c.at = "read"
      <4>1. Remembers(c)
        BY <3>1 DEF PatternInv, Reading
      <4>2. c.row = 0 \/ c.row \in 1 .. Len(patterns)
        BY <4>1 DEF Remembers
      <4>3. c.seen.applied <= recorded[c.fix] /\ c.seen.success <= succeeded[c.fix]
        BY <4>1 DEF Remembers
      <4>4. recorded[c.fix] \in 0 .. MaxRecords /\ succeeded[c.fix] \in 0 .. MaxRecords
        BY <1>3, <2>1
      <4>5. c.seen.applied \in Nat /\ c.seen.success \in Nat
        BY <2>1 DEF Counters
      <4> HIDE DEF c
      <4> QED
        BY <1>1, <1>2, <2>1, <4>2, <4>3, <4>4, <4>5
    <3>2. CASE c.at # "read"
      <4>1. c = IdleRecorder
        BY <3>2 DEF Budget
      <4>2. c.row = 0 /\ c.seen.applied = 0 /\ c.seen.success = 0
        BY <4>1 DEF IdleRecorder
      <4> QED
        BY <1>1, <4>2
    <3> QED
      BY <3>1, <3>2
  <2>3. c.seen \in [applied : 0 .. MaxRecords, success : 0 .. MaxRecords, fixes : BOOLEAN]
    BY <2>1, <2>2 DEF Counters
  <2> HIDE DEF c
  <2>4. c \in [ at : { "idle", "read" }, fix : FixText, outcome : Outcome, fixes : BOOLEAN,
                strategy : Strategy \union {NoStrategy}, row : 0 .. MaxRecords,
                seen : [applied : 0 .. MaxRecords, success : 0 .. MaxRecords, fixes : BOOLEAN],
                               whole : BOOLEAN ]
    BY <2>1, <2>2, <2>3 DEF RecorderState
  <2> QED
    BY <2>4 DEF c
<1> QED
  BY <1>1, <1>2, <1>3, <1>4, <1>5 DEF PatternTypes, PatternTypeOK

-----------------------------------------------------------------------------
(* The copy of the help documents *)

JobState ==
    [ at : { "prepare", "count", "select", "batch", "insert", "backoff", "validate", "done", "aborted" },
      mode : { "overwrite", "append" }, total : 0 .. Cardinality(Id), rows : SUBSET Id, batch : SUBSET Id,
      attempt : 1 .. MaxRetries, runs : 1 .. MaxRuns ]

TargetState == [ exists : BOOLEAN, rows : SUBSET Id, open : SUBSET Id ]

MigrationTypes ==
    /\ source \in SUBSET Id /\ copied \in SUBSET Id
    /\ target \in TargetState
    /\ job \in JobState
    /\ faults \in 0 .. MaxFaults

Writing == { "insert", "backoff" }

\* The rows of a batch that is still to be written.
Waiting == IF job.at \in Writing THEN job.batch ELSE {}

\* What the SELECT has found is in the target, in the batch or still to come; an overwritten
\* table was emptied and has received nothing else; a transaction is open for a batch only.
Copying ==
    /\ job.at \in Writing => target.open \subseteq job.batch
    /\ job.at \notin Writing => target.open = {}
    /\ job.at = "backoff" => job.attempt < MaxRetries
    /\ job.at \in { "count", "select" } /\ job.mode = "overwrite" => target.rows = {}
    /\ job.at \in { "batch", "validate" } \union Writing =>
          /\ copied \subseteq target.rows \union Waiting \union job.rows
          /\ job.mode = "overwrite" => target.rows \union Waiting \union job.rows \subseteq copied
    /\ job.at = "validate" => job.rows = {}

MigrationInv == MigrationTypes /\ Copying /\ CopyIsComplete

LEMMA NewJobTyped ==
  ASSUME NEW mode \in { "overwrite", "append" }, NEW run \in 1 .. MaxRuns
  PROVE  NewJob(mode, run) \in JobState /\ NewJob(mode, run).at = "prepare"
<1>1. Cardinality(Id) \in Nat /\ MaxRetries \in Nat \ {0}
  BY MigrationConstants, FS_CardinalityType
<1> QED
  BY <1>1 DEF NewJob, JobState

LEMMA MigrationInitInv ==
  ASSUME MigrationInit
  PROVE  MigrationInv
<1>1. 1 \in 1 .. MaxRuns
  BY MigrationConstants
<1>2. job \in JobState /\ job.at = "prepare"
  BY <1>1, NewJobTyped DEF MigrationInit
<1>3. target \in TargetState /\ target.open = {}
  BY MigrationConstants DEF MigrationInit, TargetState
<1>4. source \in SUBSET Id /\ copied \in SUBSET Id /\ faults \in 0 .. MaxFaults
  BY MigrationConstants DEF MigrationInit
<1> QED
  BY <1>2, <1>3, <1>4 DEF MigrationInv, MigrationTypes, Copying, Writing, CopyIsComplete

LEMMA FaultTyped ==
  ASSUME MigrationTypes, Fault \/ UNCHANGED faults
  PROVE  faults' \in 0 .. MaxFaults
  BY MigrationConstants DEF MigrationTypes, Fault

\* Setting one field of a job.
LEMMA JobMoves ==
  ASSUME NEW j \in JobState, NEW at \in { "prepare", "count", "select", "batch", "insert", "backoff",
                                          "validate", "done", "aborted" }
  PROVE  LET k == [ j EXCEPT !.at = at ]
         IN  k \in JobState /\ k.at = at /\ k.mode = j.mode /\ k.rows = j.rows /\ k.batch = j.batch
             /\ k.attempt = j.attempt /\ k.total = j.total /\ k.runs = j.runs
  BY DEF JobState

LEMMA PrepareInv ==
  ASSUME MigrationInv, PrepareTarget
  PROVE  MigrationInv'
<1>1. target \in TargetState /\ job \in JobState /\ job.at = "prepare" /\ target.open = {}
  BY DEF MigrationInv, MigrationTypes, Copying, PrepareTarget, Writing
<1>2. UNCHANGED << source, faults, copied >>
  BY DEF PrepareTarget
<1>3. CASE UNCHANGED job
  <2>1. target' = [ [ target EXCEPT !.exists = FALSE ] EXCEPT !.rows = {} ] \/ job' = [ job EXCEPT !.at = "count" ]
    BY Zenon DEF PrepareTarget
  <2>2. job' # [ job EXCEPT !.at = "count" ]
    BY <1>1, <1>3, JobMoves
  <2>3. target' \in TargetState /\ target'.open = {}
    BY <1>1, <2>1, <2>2 DEF TargetState
  <2> QED
    BY <1>1, <1>2, <1>3, <2>3 DEF MigrationInv, MigrationTypes, Copying, Writing, CopyIsComplete
<1>4. CASE job' = [ job EXCEPT !.at = "count" ]
  <2>1. job' \in JobState /\ job'.at = "count" /\ job'.mode = job.mode
    BY <1>1, <1>4, JobMoves
  <2>2. \/ target' = [ [ target EXCEPT !.exists = TRUE ] EXCEPT !.rows = {} ]
        \/ job.mode = "append" /\ target' = target
        \/ UNCHANGED job
    BY Zenon DEF PrepareTarget
  <2>3. job' # job
    BY <1>1, <2>1
  <2>4. target' \in TargetState /\ target'.open = {} /\ (job.mode = "overwrite" => target'.rows = {})
    BY <1>1, <2>2, <2>3 DEF TargetState
  <2> QED
    BY <1>2, <2>1, <2>4 DEF MigrationInv, MigrationTypes, Copying, Writing, CopyIsComplete
<1> QED
  BY <1>3, <1>4 DEF PrepareTarget

LEMMA CountInv ==
  ASSUME MigrationInv, CountSource
  PROVE  MigrationInv'
<1> DEFINE at == IF source = {} THEN "done" ELSE "select"
           j == [ job EXCEPT !.at = at ]
<1>1. job \in JobState /\ source \in SUBSET Id /\ job.at = "count"
  BY DEF MigrationInv, MigrationTypes, CountSource
<1>2. Cardinality(source) \in 0 .. Cardinality(Id)
  <2>1. IsFiniteSet(Id) /\ IsFiniteSet(source) /\ Cardinality(source) <= Cardinality(Id)
    BY <1>1, MigrationConstants, FS_Subset
  <2>2. Cardinality(Id) \in Nat /\ Cardinality(source) \in Nat
    BY <2>1, FS_CardinalityType
  <2> QED
    BY <2>1, <2>2
<1>3. job' = [ j EXCEPT !.total = Cardinality(source) ]
  BY Zenon DEF CountSource
<1>4. j \in JobState /\ j.at = at /\ j.mode = job.mode
  <2>1. at \in { "done", "select" }
    OBVIOUS
  <2> HIDE DEF at
  <2> QED
    BY <1>1, <2>1 DEF JobState
<1> HIDE DEF j
<1>5. job' \in JobState /\ job'.at = at /\ job'.mode = job.mode
  BY <1>2, <1>3, <1>4 DEF JobState
<1>6. copied' = {} /\ UNCHANGED << source, target, faults >>
  BY DEF CountSource
<1> QED
  BY <1>1, <1>5, <1>6 DEF MigrationInv, MigrationTypes, Copying, Writing, CopyIsComplete

LEMMA SelectInv ==
  ASSUME MigrationInv, SelectRows
  PROVE  MigrationInv'
<1> DEFINE j == [ job EXCEPT !.at = "batch" ]
<1>1. job \in JobState /\ source \in SUBSET Id /\ job.at = "select"
  BY DEF MigrationInv, MigrationTypes, SelectRows
<1>2. job' = [ j EXCEPT !.rows = source ]
  BY Zenon DEF SelectRows
<1>3. j \in JobState /\ j.at = "batch" /\ j.mode = job.mode
  BY <1>1, JobMoves
<1> HIDE DEF j
<1>4. job' \in JobState /\ job'.at = "batch" /\ job'.mode = job.mode /\ job'.rows = source
  BY <1>1, <1>2, <1>3 DEF JobState
<1>5. copied' = source /\ UNCHANGED << source, target, faults >>
  BY DEF SelectRows
<1> QED
  BY <1>1, <1>4, <1>5 DEF MigrationInv, MigrationTypes, Copying, Writing, Waiting, CopyIsComplete

\* A batch that is empty is the end of the rows.
LEMMA EmptyBatch ==
  ASSUME NEW rows \in SUBSET Id, {} \in NextBatch(rows)
  PROVE  rows = {}
<1>1. IsFiniteSet(rows) /\ Cardinality(rows) \in Nat
  BY MigrationConstants, FS_Subset, FS_CardinalityType
<1>2. Cardinality({}) = 0
  BY FS_EmptySet
<1>3. (IF Cardinality(rows) < BatchSize THEN Cardinality(rows) ELSE BatchSize) = 0
  BY <1>2 DEF NextBatch, First
<1>4. Cardinality(rows) = 0
  BY <1>1, <1>3, MigrationConstants
<1> QED
  BY <1>1, <1>4, FS_EmptySet

LEMMA TakeInv ==
  ASSUME MigrationInv, TakeBatch
  PROVE  MigrationInv'
<1>1. job \in JobState /\ job.at = "batch" /\ UNCHANGED << source, target, faults, copied >>
  BY DEF MigrationInv, MigrationTypes, TakeBatch
<1>2. PICK batch \in NextBatch(job.rows) :
        job' = [ job EXCEPT !.at = IF batch = {} THEN "validate" ELSE "insert", !.attempt = 1, !.batch = batch,
                            !.rows = @ \ batch ]
  BY Zenon DEF TakeBatch
<1> DEFINE at == IF batch = {} THEN "validate" ELSE "insert"
           a == [ job EXCEPT !.at = at ]
           b == [ a EXCEPT !.attempt = 1 ]
           d == [ b EXCEPT !.batch = batch ]
<1>3. batch \subseteq job.rows /\ job.rows \in SUBSET Id
  BY <1>1 DEF NextBatch, First, JobState
<1>4. a \in JobState /\ a.at = at /\ a.mode = job.mode /\ a.rows = job.rows
  <2>1. at \in { "validate", "insert" }
    OBVIOUS
  <2> HIDE DEF at
  <2> QED
    BY <1>1, <2>1 DEF JobState
<1> HIDE DEF a
<1>5. b \in JobState /\ b.at = at /\ b.mode = job.mode /\ b.rows = job.rows
  BY <1>4, MigrationConstants DEF JobState
<1> HIDE DEF b
<1>6. d \in JobState /\ d.at = at /\ d.mode = job.mode /\ d.rows = job.rows /\ d.batch = batch
  BY <1>3, <1>5 DEF JobState
<1>7. job' = [ d EXCEPT !.rows = d.rows \ batch ]
  BY <1>2, Zenon DEF a, b
<1> HIDE DEF d
<1>8. job' \in JobState /\ job'.at = at /\ job'.mode = job.mode /\ job'.rows = job.rows \ batch /\ job'.batch = batch
  BY <1>3, <1>6, <1>7 DEF JobState
<1>9. batch = {} => job.rows = {}
  BY <1>2, <1>3, EmptyBatch
<1>10. MigrationTypes'
  BY <1>1, <1>8 DEF MigrationInv, MigrationTypes
<1>11. Copying'
  BY <1>1, <1>3, <1>8, <1>9 DEF MigrationInv, Copying, Writing, Waiting
<1> QED
  BY <1>8, <1>10, <1>11 DEF MigrationInv, CopyIsComplete

LEMMA InsertInv ==
  ASSUME MigrationInv, InsertBatch
  PROVE  MigrationInv'
<1>1. job \in JobState /\ target \in TargetState /\ job.at = "insert" /\ target.open \subseteq job.batch
  BY DEF MigrationInv, MigrationTypes, Copying, InsertBatch, Writing
<1> DEFINE t == [ target EXCEPT !.rows = target.rows \union target.open \union job.batch ]
<1>2. target' = [ t EXCEPT !.open = {} ]
  BY Zenon DEF InsertBatch
<1>3. job.batch \in SUBSET Id
  BY <1>1 DEF JobState
<1>4. t \in TargetState /\ t.rows = target.rows \union job.batch
  BY <1>1, <1>3 DEF TargetState
<1> HIDE DEF t
<1>5. target' \in TargetState /\ target'.rows = target.rows \union job.batch /\ target'.open = {}
  BY <1>2, <1>4 DEF TargetState
<1>6. job' \in JobState /\ job'.at = "batch" /\ job'.mode = job.mode /\ job'.rows = job.rows
  BY <1>1, JobMoves DEF InsertBatch
<1>7. UNCHANGED << source, faults, copied >>
  BY DEF InsertBatch
<1>8. MigrationTypes'
  BY <1>5, <1>6, <1>7 DEF MigrationInv, MigrationTypes
<1>9. Copying'
  BY <1>1, <1>5, <1>6, <1>7 DEF MigrationInv, Copying, Writing, Waiting
<1> QED
  BY <1>6, <1>8, <1>9 DEF MigrationInv, CopyIsComplete

\* A run that is given up leaves no transaction open.
LEMMA AbortInv ==
  ASSUME MigrationInv, UNCHANGED << source, copied >>, faults' \in 0 .. MaxFaults,
         job' = [ job EXCEPT !.at = "aborted" ], target' \in TargetState, target'.open = {}
  PROVE  MigrationInv'
<1>1. job' \in JobState /\ job'.at = "aborted"
  BY JobMoves DEF MigrationInv, MigrationTypes
<1> QED
  BY <1>1 DEF MigrationInv, MigrationTypes, Copying, Writing, CopyIsComplete

\* A write that failed is tried again, whether it has left rows behind or not.
LEMMA BackOffInv ==
  ASSUME MigrationInv, job.at = "insert", job.attempt # MaxRetries,
         UNCHANGED << source, copied >>, faults' \in 0 .. MaxFaults,
         job' = [ job EXCEPT !.at = "backoff" ], target' \in TargetState, target'.open \subseteq job.batch,
         target.rows \subseteq target'.rows, target'.rows \subseteq target.rows \union job.batch
  PROVE  MigrationInv'
<1>1. job \in JobState /\ job.attempt \in 1 .. MaxRetries
  BY DEF MigrationInv, MigrationTypes, JobState
<1>2. /\ job' \in JobState /\ job'.at = "backoff" /\ job'.mode = job.mode /\ job'.rows = job.rows
      /\ job'.batch = job.batch /\ job'.attempt = job.attempt
  BY <1>1, JobMoves
<1>3. job.attempt < MaxRetries
  BY <1>1, MigrationConstants
<1>4. MigrationTypes'
  BY <1>2 DEF MigrationInv, MigrationTypes
<1>5. Copying'
  BY <1>2, <1>3 DEF MigrationInv, Copying, Writing, Waiting
<1> QED
  BY <1>2, <1>4, <1>5 DEF MigrationInv, CopyIsComplete

LEMMA NothingOpen ==
  ASSUME NEW t \in TargetState
  PROVE  [ t EXCEPT !.open = {} ] \in TargetState /\ [ t EXCEPT !.open = {} ].open = {}
  BY DEF TargetState

LEMMA ConflictInv ==
  ASSUME MigrationInv, InsertConflicts
  PROVE  MigrationInv'
<1>1. job.at = "insert" /\ target \in TargetState /\ target.open \subseteq job.batch
      /\ UNCHANGED << source, faults, copied >> /\ faults' \in 0 .. MaxFaults
  BY DEF MigrationInv, MigrationTypes, Copying, InsertConflicts, Writing
<1>2. CASE job.attempt = MaxRetries
  <2>1. job' = [ job EXCEPT !.at = "aborted" ] /\ target' = [ target EXCEPT !.open = {} ]
    BY <1>2 DEF InsertConflicts, Again, Aborted
  <2> QED
    BY <1>1, <2>1, AbortInv, NothingOpen
<1>3. CASE job.attempt # MaxRetries
  <2>1. job' = [ job EXCEPT !.at = "backoff" ] /\ target' = target
    BY <1>3 DEF InsertConflicts, Again
  <2> QED
    BY <1>1, <1>3, <2>1, BackOffInv
<1> QED
  BY <1>2, <1>3

LEMMA FailedInsertInv ==
  ASSUME MigrationInv, InsertFails
  PROVE  MigrationInv'
<1>1. job \in JobState /\ target \in TargetState /\ target.open \subseteq job.batch /\ job.batch \in SUBSET Id
  BY DEF MigrationInv, MigrationTypes, Copying, InsertFails, Writing, JobState
<1>2. job.at = "insert" /\ UNCHANGED << source, copied >> /\ faults' \in 0 .. MaxFaults
  BY FaultTyped DEF MigrationInv, InsertFails
<1> DEFINE t == [ target EXCEPT !.rows = target.rows \union target.open \union job.batch ]
<1>3. PICK written \in { target, [ target EXCEPT !.open = target.open \union job.batch ], [ t EXCEPT !.open = {} ] } :
        IF job.attempt = MaxRetries
        THEN target' = [ written EXCEPT !.open = {} ] /\ job' = [ job EXCEPT !.at = "aborted" ]
        ELSE target' = written /\ job' = [ job EXCEPT !.at = "backoff" ]
  BY Zenon DEF InsertFails
<1>4. t \in TargetState /\ t.rows = target.rows \union job.batch
  BY <1>1 DEF TargetState
<1> HIDE DEF t
<1>5. written \in TargetState /\ written.open \subseteq job.batch
      /\ target.rows \subseteq written.rows /\ written.rows \subseteq target.rows \union job.batch
  <2>1. CASE written = target
    BY <1>1, <2>1
  <2>2. CASE written = [ target EXCEPT !.open = target.open \union job.batch ]
    BY <1>1, <2>2 DEF TargetState
  <2>3. CASE written = [ t EXCEPT !.open = {} ]
    BY <1>4, <2>3 DEF TargetState
  <2> QED
    BY <1>3, <2>1, <2>2, <2>3
<1>6. CASE job.attempt = MaxRetries
  <2>1. job' = [ job EXCEPT !.at = "aborted" ] /\ target' = [ written EXCEPT !.open = {} ]
    BY <1>3, <1>6
  <2> QED
    BY <1>2, <1>5, <2>1, AbortInv, NothingOpen
<1>7. CASE job.attempt # MaxRetries
  <2>1. job' = [ job EXCEPT !.at = "backoff" ] /\ target' = written
    BY <1>3, <1>7
  <2> QED
    BY <1>2, <1>5, <1>7, <2>1, BackOffInv
<1> QED
  BY <1>6, <1>7

LEMMA RollBackInv ==
  ASSUME MigrationInv, RollBack
  PROVE  MigrationInv'
<1>1. job \in JobState /\ target \in TargetState /\ job.at = "backoff" /\ target.open \subseteq job.batch
      /\ job.attempt < MaxRetries
  BY DEF MigrationInv, MigrationTypes, Copying, RollBack, Writing
<1> DEFINE j == [ job EXCEPT !.at = "insert" ]
<1>2. job' = [ j EXCEPT !.attempt = job.attempt + 1 ]
  <2>1. job' = [ j EXCEPT !.attempt = j.attempt + 1 ]
    BY Zenon DEF RollBack
  <2>2. j.attempt = job.attempt
    BY <1>1, JobMoves
  <2> QED
    BY <2>1, <2>2, Zenon
<1>3. /\ j \in JobState /\ j.at = "insert" /\ j.mode = job.mode /\ j.rows = job.rows /\ j.batch = job.batch
  BY <1>1, JobMoves
<1> HIDE DEF j
<1>4. job.attempt + 1 \in 1 .. MaxRetries
  BY <1>1, MigrationConstants DEF JobState
<1>5. /\ job' \in JobState /\ job'.at = "insert" /\ job'.mode = job.mode /\ job'.rows = job.rows
      /\ job'.batch = job.batch
  BY <1>2, <1>3, <1>4 DEF JobState
<1>6. UNCHANGED << source, copied >> /\ faults' \in 0 .. MaxFaults
  BY FaultTyped DEF MigrationInv, RollBack
<1>7. target' \in TargetState /\ target'.rows = target.rows /\ target'.open \subseteq job.batch
  <2>1. target' = target \/ target' = [ target EXCEPT !.open = {} ]
    BY DEF RollBack
  <2> QED
    BY <1>1, <2>1 DEF TargetState
<1>8. MigrationTypes'
  BY <1>5, <1>6, <1>7 DEF MigrationInv, MigrationTypes
<1>9. Copying'
  BY <1>1, <1>5, <1>6, <1>7 DEF MigrationInv, Copying, Writing, Waiting
<1> QED
  BY <1>5, <1>8, <1>9 DEF MigrationInv, CopyIsComplete

LEMMA ValidateInv ==
  ASSUME MigrationInv, Validate
  PROVE  MigrationInv'
<1> DEFINE at == IF job.mode = "append" \/ Cardinality(target.rows) = job.total THEN "done" ELSE "aborted"
<1>1. job \in JobState /\ job.at = "validate" /\ UNCHANGED << source, target, faults, copied >>
  BY DEF MigrationInv, MigrationTypes, Validate
<1>2. job' = [ job EXCEPT !.at = at ]
  BY DEF Validate
<1>3. at \in { "done", "aborted" }
  OBVIOUS
<1> HIDE DEF at
<1>4. job' \in JobState /\ job'.at = at /\ job'.mode = job.mode
  BY <1>1, <1>2, <1>3 DEF JobState
<1>5. target.open = {} /\ copied \subseteq target.rows /\ (job.mode = "overwrite" => target.rows \subseteq copied)
  BY <1>1 DEF MigrationInv, Copying, Writing, Waiting
<1>6. MigrationTypes'
  BY <1>1, <1>4 DEF MigrationInv, MigrationTypes
<1>7. Copying'
  BY <1>1, <1>3, <1>4, <1>5 DEF Copying, Writing
<1>8. CopyIsComplete'
  BY <1>1, <1>4, <1>5 DEF CopyIsComplete
<1> QED
  BY <1>6, <1>7, <1>8 DEF MigrationInv

LEMMA MigrationInductive ==
  ASSUME MigrationInv, [MigrationNext]_migrationVars
  PROVE  MigrationInv'
<1>1. job \in JobState /\ target \in TargetState
  BY DEF MigrationInv, MigrationTypes
<1>2. CASE UNCHANGED migrationVars
  BY <1>2 DEF migrationVars, MigrationInv, MigrationTypes, Copying, Writing, Waiting, CopyIsComplete
<1>3. CASE MigrationCrashes
  BY <1>1, <1>3, AbortInv, NothingOpen, FaultTyped DEF MigrationCrashes, Aborted, MigrationInv
<1>4. ASSUME NEW mode \in { "overwrite", "append" }, RunAgain(mode)
      PROVE  MigrationInv'
  <2>1. job.runs + 1 \in 1 .. MaxRuns
    BY <1>1, <1>4, MigrationConstants DEF RunAgain, JobState
  <2>2. job' \in JobState /\ job'.at = "prepare" /\ UNCHANGED << source, target, faults, copied >>
    BY <1>4, <2>1, NewJobTyped DEF RunAgain
  <2>3. target.open = {}
    BY <1>4 DEF RunAgain, MigrationInv, Copying, Writing
  <2> QED
    BY <2>2, <2>3 DEF MigrationInv, MigrationTypes, Copying, Writing, CopyIsComplete
<1>5. ASSUME NEW i \in Id, SourceChanges(i)
      PROVE  MigrationInv'
  <2>1. source' \in SUBSET Id /\ faults' \in 0 .. MaxFaults /\ UNCHANGED << target, job, copied >>
    BY <1>5, FaultTyped DEF SourceChanges, MigrationInv, MigrationTypes
  <2> QED
    BY <2>1 DEF MigrationInv, MigrationTypes, Copying, Writing, Waiting, CopyIsComplete
<1> QED
  BY <1>2, <1>3, <1>4, <1>5, PrepareInv, CountInv, SelectInv, TakeInv, InsertInv, ConflictInv,
     FailedInsertInv, RollBackInv, ValidateInv DEF MigrationNext

\* A run that ends well has copied what its cursor was given, whatever failed, was written
\* half and was tried again before, for any tables, batches and retries (migrate and its
\* insert loop in scripts/migrate_hana_table.py); the count at its end only repeats it.
THEOREM Copied == MigrationSpec => []CopyIsComplete
<1>1. MigrationInit => MigrationInv
  BY MigrationInitInv
<1>2. MigrationInv /\ [MigrationNext]_migrationVars => MigrationInv'
  BY MigrationInductive
<1>3. MigrationInv => CopyIsComplete
  BY DEF MigrationInv
<1> QED
  BY <1>1, <1>2, <1>3, PTL DEF MigrationSpec

-----------------------------------------------------------------------------
(* The load *)

LEMMA Elements ==
  ASSUME NEW S, NEW s \in Seq(S)
  PROVE  /\ IsFiniteSet(ToSet(s)) /\ Cardinality(ToSet(s)) \in Nat
         /\ IsInjective(s) => Cardinality(ToSet(s)) = Len(s)
<1>1. s \in [1 .. Len(s) -> ToSet(s)] /\ DOMAIN s = 1 .. Len(s)
  BY DEF ToSet
<1>2. s \in Surjection(1 .. Len(s), ToSet(s))
  BY <1>1 DEF Surjection, ToSet
<1>3. IsFiniteSet(1 .. Len(s)) /\ Cardinality(1 .. Len(s)) = Len(s)
  <2>1. Len(s) \in Nat /\ 1 \in Int /\ Len(s) \in Int
    OBVIOUS
  <2>2. IsFiniteSet(1 .. Len(s)) /\ Cardinality(1 .. Len(s)) = IF 1 > Len(s) THEN 0 ELSE Len(s) - 1 + 1
    BY <2>1, FS_Interval
  <2> QED
    BY <2>1, <2>2
<1>4. /\ IsFiniteSet(ToSet(s))
      /\ Cardinality(ToSet(s)) = Len(s) <=> s \in Injection(1 .. Len(s), ToSet(s))
  BY <1>2, <1>3, FS_Surjection
<1>5. IsInjective(s) => s \in Injection(1 .. Len(s), ToSet(s))
  BY <1>1 DEF Injection, IsInjective
<1> QED
  BY <1>4, <1>5, FS_CardinalityType

LEMMA FewerInSubset ==
  ASSUME NEW S, IsFiniteSet(S), NEW T, T \subseteq S
  PROVE  IsFiniteSet(T) /\ Cardinality(T) \in Nat /\ Cardinality(S) \in Nat /\ Cardinality(T) <= Cardinality(S)
  BY FS_Subset, FS_CardinalityType

LEMMA OneMore ==
  ASSUME NEW S, IsFiniteSet(S), NEW x, NEW T, T \subseteq S \union {x}
  PROVE  IsFiniteSet(T) /\ Cardinality(T) \in Nat /\ Cardinality(S) \in Nat /\ Cardinality(T) <= Cardinality(S) + 1
<1>1. IsFiniteSet(S \union {x}) /\ Cardinality(S) \in Nat
      /\ Cardinality(S \union {x}) \in { Cardinality(S), Cardinality(S) + 1 }
  BY FS_AddElement, FS_CardinalityType
<1> QED
  BY <1>1, FewerInSubset

LoadState ==
    [ at : { "pages", "token", "publish", "done", "aborted" }, skip : Nat, list : Seq(Message), limit : Limits,
      next : Nat, published : Nat, failed : Nat ]

LoadTypes ==
    /\ failedLog \in Seq(Message) /\ IsInjective(failedLog)
    /\ load \in LoadState
    /\ sentBy \in [Message -> Nat]
    /\ changes \in 0 .. MaxChanges
    /\ entered \in SUBSET Message /\ removed \in SUBSET Message /\ unsent \in SUBSET Message
    /\ IsFiniteSet(entered) /\ IsFiniteSet(removed)

\* Where the messages of the tenant are: what has left the list does not come back.
Tenant ==
    /\ ToSet(Loaded) \subseteq ToSet(failedLog) \union removed
    /\ ToSet(failedLog) \intersect removed = {}
    /\ entered \subseteq ToSet(failedLog) \union removed

\* Messages of the first n places of the list s, and of the others.
Upto(s, n)   == { m \in ToSet(s) : \E k \in 1 .. Len(s) : k <= n /\ s[k] = m }
Beyond(s, n) == { m \in ToSet(s) : \E k \in 1 .. Len(s) : k > n /\ s[k] = m }

\* What the pages read so far have passed over, and what the next ones will repeat.
Missing    == (ToSet(Loaded) \intersect Upto(failedLog, load.skip)) \ Listed
Repeatable == Listed \intersect Beyond(failedLog, load.skip)

Paging ==
    load.at = "pages" =>
        /\ Len(load.list) = load.skip
        /\ Cardinality(Missing) <= Cardinality(removed)
        /\ Len(load.list) + Cardinality(Repeatable) <= Cardinality(Listed) + Cardinality(entered)

Gathered ==
    load.at \in { "token", "publish", "done" } /\ load.limit = 0 =>
        /\ Cardinality((ToSet(Loaded) \ removed) \ Listed) <= Cardinality(removed)
        /\ Len(load.list) - Cardinality(Listed) <= Cardinality(entered)

\* What the loop has done with the messages before the next one.
Publishing ==
    /\ load.next \in 1 .. Len(load.list) + 1
    /\ load.published + load.failed = load.next - 1
    /\ \A n \in 1 .. Len(load.list) : n < load.next /\ load.list[n] \notin unsent => sentBy[load.list[n]] >= 1
    /\ load.at \in { "pages", "token" } => load.next = 1
    /\ load.at = "done" /\ load.next > 1 => load.next = Len(load.list) + 1

LoadInv == LoadTypes /\ Tenant /\ Paging /\ Gathered /\ Publishing

LEMMA ListedIsSet ==
  ASSUME LoadTypes
  PROVE  Listed = ToSet(load.list) /\ IsFiniteSet(Listed) /\ Cardinality(Listed) \in Nat
<1>1. load.list \in Seq(Message)
  BY DEF LoadTypes, LoadState
<1>2. Listed = ToSet(load.list)
  BY <1>1 DEF Listed, ToSet
<1> QED
  BY <1>1, <1>2, Elements

LEMMA LoadFinite ==
  ASSUME LoadTypes
  PROVE  /\ IsFiniteSet(ToSet(Loaded)) /\ IsFiniteSet(Missing) /\ IsFiniteSet(Repeatable)
         /\ Cardinality(Missing) \in Nat /\ Cardinality(Repeatable) \in Nat
         /\ Cardinality(removed) \in Nat /\ Cardinality(entered) \in Nat
<1>1. IsFiniteSet(ToSet(Loaded))
  BY LoadConstants, Elements
<1>2. Missing \subseteq ToSet(Loaded) /\ Repeatable \subseteq Listed
  BY DEF Missing, Repeatable
<1> QED
  BY <1>1, <1>2, ListedIsSet, FewerInSubset, FS_CardinalityType DEF LoadTypes

LEMMA LoadInitInv ==
  ASSUME LoadInit
  PROVE  LoadInv
<1>1. PICK limit \in Limits :
        load = [ at |-> "pages", skip |-> 0, list |-> << >>, limit |-> limit, next |-> 1,
                 published |-> 0, failed |-> 0 ]
  BY DEF LoadInit
<1>2. load \in LoadState /\ load.at = "pages" /\ load.skip = 0 /\ load.list = << >> /\ load.next = 1
      /\ load.published = 0 /\ load.failed = 0
  BY <1>1 DEF LoadState
<1>3. LoadTypes
  BY <1>2, LoadConstants, FS_EmptySet DEF LoadInit, LoadTypes
<1>4. Listed = {}
  BY <1>2 DEF Listed
<1>5. Missing = {} /\ Repeatable = {}
  BY <1>2, <1>4, <1>3 DEF Missing, Repeatable, Upto, LoadTypes
<1>6. Paging
  BY <1>2, <1>4, <1>5, FS_EmptySet DEF Paging, LoadInit
<1> QED
  BY <1>2, <1>3, <1>6 DEF LoadInit, LoadInv, Tenant, Gathered, Publishing

\* A page is the next places of the list, all of them when it is short.
LEMMA PageRead ==
  ASSUME NEW s \in Seq(Message), s = failedLog, IsInjective(s), NEW skip \in Nat
  PROVE  LET page == PageAt(skip)
         IN  /\ page \in Seq(Message) /\ IsInjective(page) /\ Len(page) <= LoadPage
             /\ Len(page) = LoadPage =>
                   ToSet(page) = { s[k] : k \in { j \in 1 .. Len(s) : skip < j /\ j <= skip + LoadPage } }
             /\ Len(page) < LoadPage => ToSet(page) = { s[k] : k \in { j \in 1 .. Len(s) : skip < j } }
<1> DEFINE hi == IF skip + LoadPage < Len(s) THEN skip + LoadPage ELSE Len(s)
           page == SubSeq(s, skip + 1, hi)
           len == IF skip < hi THEN hi - skip ELSE 0
<1>1. LoadPage \in Nat /\ LoadPage > 0 /\ Len(s) \in Nat
  BY LoadConstants
<1>2. PageAt(skip) = page
  BY DEF PageAt
<1>3. hi \in Nat /\ hi <= Len(s) /\ hi <= skip + LoadPage /\ (hi < skip + LoadPage => hi = Len(s))
  BY <1>1
<1> HIDE DEF hi
<1>4. len \in Nat /\ len <= LoadPage /\ (len = LoadPage => hi = skip + LoadPage)
      /\ (len < LoadPage => skip >= Len(s) \/ hi = Len(s)) /\ (len > 0 => len = hi - skip)
  BY <1>1, <1>3
<1>5. page \in Seq(Message) /\ Len(page) = len /\ \A n \in 1 .. len : page[n] = s[skip + n]
  <2>1. skip + 1 \in Int /\ hi \in Int /\ \A i \in skip + 1 .. hi : s[i] \in Message
    BY <1>1, <1>3
  <2>2. /\ page \in Seq(Message)
        /\ Len(page) = IF skip + 1 <= hi THEN hi - (skip + 1) + 1 ELSE 0
        /\ \A i \in 1 .. hi - (skip + 1) + 1 : page[i] = s[(skip + 1) + i - 1]
    BY <2>1, SubSeqProperties
  <2> HIDE DEF page
  <2>3. Len(page) = len
    BY <1>3, <2>2
  <2>4. ASSUME NEW n \in 1 .. len PROVE page[n] = s[skip + n]
    <3>1. n \in 1 .. hi - (skip + 1) + 1 /\ (skip + 1) + n - 1 = skip + n
      BY <1>3
    <3> QED
      BY <2>2, <3>1
  <2> QED
    BY <2>2, <2>3, <2>4
<1> HIDE DEF page
<1>6. DOMAIN s = 1 .. Len(s) /\ DOMAIN page = 1 .. len
  BY <1>5
<1>7. ASSUME NEW n \in 1 .. len PROVE skip + n \in 1 .. Len(s) /\ skip < skip + n /\ skip + n <= hi
  BY <1>1, <1>3
<1>8. ASSUME NEW k \in 1 .. Len(s), skip < k, k <= hi PROVE k - skip \in 1 .. len /\ skip + (k - skip) = k
  BY <1>1, <1>3, <1>8
<1>9. IsInjective(page)
  <2> SUFFICES ASSUME NEW a \in 1 .. len, NEW b \in 1 .. len, page[a] = page[b] PROVE a = b
    BY <1>6 DEF IsInjective
  <2>1. skip + a \in 1 .. Len(s) /\ skip + b \in 1 .. Len(s) /\ s[skip + a] = s[skip + b]
    BY <1>5, <1>7
  <2>2. skip + a = skip + b
    BY <1>6, <2>1 DEF IsInjective
  <2>3. a \in Nat /\ b \in Nat
    BY <1>4
  <2> QED
    BY <2>2, <2>3
<1>10. ASSUME NEW m \in ToSet(page)
      PROVE  \E k \in 1 .. Len(s) : skip < k /\ k <= hi /\ m = s[k]
  <2>1. PICK n \in 1 .. len : m = page[n]
    BY <1>6 DEF ToSet
  <2> QED
    BY <1>5, <1>7, <2>1
<1>11. ASSUME NEW k \in 1 .. Len(s), skip < k, k <= hi
      PROVE  s[k] \in ToSet(page)
  <2>1. k - skip \in 1 .. len /\ page[k - skip] = s[k]
    BY <1>5, <1>8, <1>11
  <2> QED
    BY <1>6, <2>1 DEF ToSet
<1>12. ToSet(page) = { s[k] : k \in { j \in 1 .. Len(s) : skip < j /\ j <= hi } }
  BY <1>10, <1>11
<1>13. len < LoadPage => \A j \in 1 .. Len(s) : skip < j /\ j <= hi <=> skip < j
  BY <1>1, <1>4
<1>14. len < LoadPage => ToSet(page) = { s[k] : k \in { j \in 1 .. Len(s) : skip < j } }
  BY <1>12, <1>13
<1> HIDE DEF len
<1> QED
  BY <1>2, <1>4, <1>5, <1>9, <1>12, <1>14

\* A page read after others repeats as many messages as it adds fewer than its length.
LEMMA PageCounts ==
  ASSUME NEW L, IsFiniteSet(L), NEW P, IsFiniteSet(P), NEW Q, Q \intersect P = {}, IsFiniteSet(Q)
  PROVE  /\ Cardinality(Q \union (P \intersect L)) + Cardinality(L \union P)
               = Cardinality(Q) + Cardinality(L) + Cardinality(P)
         /\ Cardinality(Q) \in Nat /\ Cardinality(L \union P) \in Nat
<1>1. IsFiniteSet(P \intersect L)
  BY FewerInSubset
<1>2. Cardinality(Q \union (P \intersect L))
        = Cardinality(Q) + Cardinality(P \intersect L) - Cardinality(Q \intersect (P \intersect L))
  BY <1>1, FS_Union
<1>3. Q \intersect (P \intersect L) = {} /\ L \intersect P = P \intersect L
  OBVIOUS
<1>4. Cardinality(Q \intersect (P \intersect L)) = 0
  BY <1>3, FS_EmptySet
<1>5. /\ IsFiniteSet(L \union P)
      /\ Cardinality(L \union P) = Cardinality(L) + Cardinality(P) - Cardinality(L \intersect P)
  BY FS_Union
<1>6. Cardinality(L \intersect P) = Cardinality(P \intersect L)
  BY <1>3
<1>7. Cardinality(L) \in Nat /\ Cardinality(P) \in Nat /\ Cardinality(Q) \in Nat
      /\ Cardinality(P \intersect L) \in Nat /\ Cardinality(L \union P) \in Nat
  BY <1>1, <1>5, FS_CardinalityType
<1> QED
  BY <1>2, <1>4, <1>5, <1>6, <1>7

\* The list cut at the limit is a list of messages, the whole one when there is no limit.
LEMMA CutTyped ==
  ASSUME load \in LoadState, NEW s \in Seq(Message)
  PROVE  Cut(s) \in Seq(Message) /\ (load.limit = 0 => Cut(s) = s)
<1>1. load.limit \in Nat /\ load.limit \in Int /\ 1 \in Int /\ Len(s) \in Nat
  <2>1. load.limit \in Limits
    BY DEF LoadState
  <2>2. load.limit \in Nat
    BY <2>1, LoadConstants, Zenon
  <2> QED
    BY <2>2
<1>2. CASE load.limit = 0 \/ Len(s) <= load.limit
  BY <1>2 DEF Cut
<1>3. CASE ~(load.limit = 0 \/ Len(s) <= load.limit)
  <2>1. \A i \in 1 .. load.limit : s[i] \in Message
    BY <1>1, <1>3
  <2>2. SubSeq(s, 1, load.limit) \in Seq(Message)
    BY <1>1, <2>1, SubSeqProperties
  <2> QED
    BY <1>3, <2>2 DEF Cut
<1> QED
  BY <1>2, <1>3

LEMMA JoinedElements ==
  ASSUME NEW S, NEW s \in Seq(S), NEW t \in Seq(S)
  PROVE  s \o t \in Seq(S) /\ Len(s \o t) = Len(s) + Len(t) /\ ToSet(s \o t) = ToSet(s) \union ToSet(t)
<1>1. s \o t \in Seq(S) /\ Len(s \o t) = Len(s) + Len(t)
      /\ \A i \in 1 .. Len(s) + Len(t) : (s \o t)[i] = IF i <= Len(s) THEN s[i] ELSE t[i - Len(s)]
  OBVIOUS
<1> DEFINE u == s \o t
<1> HIDE DEF u
<1>2. DOMAIN s = 1 .. Len(s) /\ DOMAIN t = 1 .. Len(t) /\ DOMAIN u = 1 .. Len(s) + Len(t)
  BY <1>1 DEF u
<1>3. ASSUME NEW i \in 1 .. Len(s) + Len(t) PROVE u[i] \in ToSet(s) \union ToSet(t)
  <2>1. CASE i <= Len(s)
    BY <1>1, <1>2, <2>1 DEF u, ToSet
  <2>2. CASE ~(i <= Len(s))
    <3>1. i - Len(s) \in 1 .. Len(t) /\ u[i] = t[i - Len(s)]
      BY <1>1, <2>2 DEF u
    <3> QED
      BY <1>2, <3>1 DEF ToSet
  <2> QED
    BY <2>1, <2>2
<1>4. ASSUME NEW i \in 1 .. Len(s) PROVE s[i] \in ToSet(u)
  <2>1. i \in 1 .. Len(s) + Len(t) /\ u[i] = s[i]
    BY <1>1 DEF u
  <2> QED
    BY <1>2, <2>1 DEF ToSet
<1>5. ASSUME NEW i \in 1 .. Len(t) PROVE t[i] \in ToSet(u)
  <2>1. Len(s) + i \in 1 .. Len(s) + Len(t) /\ ~(Len(s) + i <= Len(s)) /\ (Len(s) + i) - Len(s) = i
    OBVIOUS
  <2>2. u[Len(s) + i] = t[i]
    BY <1>1, <2>1 DEF u
  <2> QED
    BY <1>2, <2>1, <2>2 DEF ToSet
<1>6. \A x \in ToSet(u) : x \in ToSet(s) \union ToSet(t)
  BY <1>2, <1>3 DEF ToSet
<1>7. \A x \in ToSet(s) : x \in ToSet(u)
  BY <1>2, <1>4 DEF ToSet
<1>8. \A x \in ToSet(t) : x \in ToSet(u)
  BY <1>2, <1>5 DEF ToSet
<1> QED
  BY <1>1, <1>6, <1>7, <1>8 DEF u

LEMMA PageInv ==
  ASSUME LoadInv, ReadPage
  PROVE  LoadInv'
<1> DEFINE s == failedLog
           page == PageAt(load.skip)
           list == load.list \o page
           P == ToSet(page)
<1>1. LoadTypes /\ load \in LoadState /\ s \in Seq(Message) /\ IsInjective(s) /\ load.list \in Seq(Message)
      /\ load.skip \in Nat /\ load.at = "pages" /\ Len(s) \in Nat /\ LoadPage \in Nat /\ LoadPage > 0
  BY LoadConstants DEF LoadInv, LoadTypes, LoadState, ReadPage
<1>2. /\ page \in Seq(Message) /\ IsInjective(page) /\ Len(page) <= LoadPage
      /\ Len(page) = LoadPage =>
            P = { s[k] : k \in { j \in 1 .. Len(s) : load.skip < j /\ j <= load.skip + LoadPage } }
      /\ Len(page) < LoadPage => P = { s[k] : k \in { j \in 1 .. Len(s) : load.skip < j } }
  BY <1>1, PageRead
<1>3. UNCHANGED << failedLog, sentBy, changes, entered, removed, unsent >>
  BY DEF ReadPage
<1>4. \/ /\ Len(page) < LoadPage
         /\ \E at \in { "token", "done" } : load' = [ load EXCEPT !.at = at, !.list = Cut(list) ]
      \/ /\ ~(Len(page) < LoadPage)
         /\ load' = [ load EXCEPT !.skip = load.skip + LoadPage, !.list = list ]
  BY DEF ReadPage, NextSkip
<1> HIDE DEF page
<1>5. IsFiniteSet(P) /\ Cardinality(P) = Len(page) /\ Len(page) \in Nat
  BY <1>2, Elements
<1>6. list \in Seq(Message) /\ Len(list) = Len(load.list) + Len(page) /\ ToSet(list) = Listed \union P
  BY <1>1, <1>2, ListedIsSet, JoinedElements
<1> HIDE DEF list, P
<1>7. load.next = 1 /\ load.published + load.failed = 0
  BY <1>1 DEF LoadInv, Publishing, LoadState
<1>8. /\ Len(load.list) = load.skip
      /\ Cardinality(Missing) <= Cardinality(removed)
      /\ Len(load.list) + Cardinality(Repeatable) <= Cardinality(Listed) + Cardinality(entered)
  BY <1>1 DEF LoadInv, Paging
<1>9. DOMAIN s = 1 .. Len(s)
  BY <1>1
<1>10. IsFiniteSet(Listed) /\ Cardinality(Listed) \in Nat /\ IsFiniteSet(Missing) /\ Cardinality(Missing) \in Nat
       /\ IsFiniteSet(Repeatable) /\ Cardinality(Repeatable) \in Nat /\ Cardinality(removed) \in Nat
       /\ Cardinality(entered) \in Nat
  BY <1>1, ListedIsSet, LoadFinite
<1>11. Tenant'
  BY <1>3 DEF LoadInv, Tenant
<1>12. CASE Len(page) < LoadPage
  <2>1. PICK at \in { "token", "done" } : load' = [ load EXCEPT !.at = at, !.list = Cut(list) ]
    BY <1>4, <1>12
  <2>2. Cut(list) \in Seq(Message) /\ (load.limit = 0 => Cut(list) = list)
    BY <1>1, <1>6, CutTyped
  <2>3. load' \in LoadState /\ load'.at = at /\ load'.list = Cut(list) /\ load'.next = 1 /\ load'.limit = load.limit
        /\ load'.published + load'.failed = 0
    BY <1>1, <1>7, <2>1, <2>2 DEF LoadState
  <2>4. LoadTypes'
    BY <1>1, <1>3, <2>3 DEF LoadTypes
  <2>5. Listed' = ToSet(load'.list)
    BY <2>2, <2>3 DEF Listed, ToSet
  <2>6. Paging'
    BY <2>3 DEF Paging
  <2>7. P = Beyond(s, load.skip)
    BY <1>2, <1>9, <1>12 DEF Beyond, ToSet
  <2>8. ASSUME load.limit = 0
        PROVE  /\ Cardinality((ToSet(Loaded) \ removed) \ Listed') <= Cardinality(removed)
               /\ Len(load'.list) - Cardinality(Listed') <= Cardinality(entered)
    <3>1. Listed' = Listed \union P /\ Len(load'.list) = load.skip + Len(page)
      BY <1>6, <1>8, <2>2, <2>3, <2>5, <2>8
    <3>2. ASSUME NEW m \in (ToSet(Loaded) \ removed) \ Listed' PROVE m \in Missing
      <4>1. m \in ToSet(s) /\ m \notin Beyond(s, load.skip) /\ m \notin Listed
        BY <2>7, <3>1, <3>2 DEF LoadInv, Tenant
      <4>2. PICK k \in 1 .. Len(s) : s[k] = m
        BY <1>9, <4>1 DEF ToSet
      <4>3. k <= load.skip
        BY <1>1, <4>1, <4>2 DEF Beyond
      <4> QED
        BY <3>2, <4>1, <4>2, <4>3 DEF Missing, Upto
    <3>3. Cardinality((ToSet(Loaded) \ removed) \ Listed') <= Cardinality(Missing)
          /\ Cardinality((ToSet(Loaded) \ removed) \ Listed') \in Nat
      BY <1>10, <3>2, FewerInSubset
    <3>4. Repeatable = {} \union (P \intersect Listed) /\ {} \intersect P = {}
      BY <2>7 DEF Repeatable
    <3>5. IsFiniteSet({}) /\ Cardinality({}) = 0
      BY FS_EmptySet
    <3>6. Cardinality({} \union (P \intersect Listed)) + Cardinality(Listed \union P)
            = Cardinality({}) + Cardinality(Listed) + Cardinality(P)
          /\ Cardinality(Listed \union P) \in Nat
      BY <1>5, <1>10, <3>4, <3>5, PageCounts
    <3>7. Cardinality(Repeatable) + Cardinality(Listed') = Cardinality(Listed) + Len(page) /\ Cardinality(Listed') \in Nat
      BY <1>5, <1>10, <3>1, <3>4, <3>5, <3>6
    <3>8. Cardinality((ToSet(Loaded) \ removed) \ Listed') <= Cardinality(removed)
      BY <1>8, <1>10, <3>3
    <3> HIDE DEF s
    <3>9. Len(load'.list) - Cardinality(Listed') <= Cardinality(entered)
      <4>1. load.skip \in Nat /\ Len(page) \in Nat /\ Len(load'.list) = load.skip + Len(page)
        BY <1>1, <1>5, <3>1
      <4>2. load.skip + Cardinality(Repeatable) <= Cardinality(Listed) + Cardinality(entered)
        BY <1>8
      <4>3. Cardinality(Repeatable) \in Nat /\ Cardinality(Listed) \in Nat /\ Cardinality(entered) \in Nat
        BY <1>10
      <4> DEFINE skip == load.skip
                 size == Len(page)
                 long == Len(load'.list)
                 more == Cardinality(Listed')
                 twice == Cardinality(Repeatable)
                 had == Cardinality(Listed)
                 came == Cardinality(entered)
      <4>4. /\ skip \in Nat /\ size \in Nat /\ more \in Nat /\ twice \in Nat /\ had \in Nat /\ came \in Nat
            /\ long = skip + size /\ twice + more = had + size /\ skip + twice <= had + came
        BY <3>7, <4>1, <4>2, <4>3
      <4> HIDE DEF skip, size, long, more, twice, had, came
      <4>5. long - more <= came
        BY <4>4
      <4> QED
        BY <4>5 DEF long, more, came
    <3> QED
      BY <3>8, <3>9
  <2>9. Gathered'
    BY <1>3, <2>3, <2>8 DEF Gathered
  <2>10. Publishing'
    <3>1. Len(load'.list) \in Nat
      BY <2>2, <2>3
    <3> QED
      BY <2>3, <3>1 DEF Publishing
  <2> QED
    BY <1>11, <2>4, <2>6, <2>9, <2>10 DEF LoadInv
<1>13. CASE ~(Len(page) < LoadPage)
  <2>1. Len(page) = LoadPage /\ load' = [ load EXCEPT !.skip = load.skip + LoadPage, !.list = list ]
    BY <1>1, <1>2, <1>4, <1>5, <1>13
  <2>2. load' \in LoadState /\ load'.at = "pages" /\ load'.list = list /\ load'.skip = load.skip + LoadPage
        /\ load'.next = 1 /\ load'.published + load'.failed = 0
    <3>1. load' \in LoadState
      <4>1. load.skip + LoadPage \in Nat
        BY <1>1
      <4> QED
        BY <1>1, <1>6, <2>1, <4>1 DEF LoadState
    <3>2. load'.published = load.published /\ load'.failed = load.failed /\ load'.next = load.next
          /\ load'.at = load.at /\ load'.list = list /\ load'.skip = load.skip + LoadPage
      BY <1>1, <2>1 DEF LoadState
    <3> QED
      BY <1>1, <1>7, <3>1, <3>2
  <2>3. LoadTypes'
    BY <1>1, <1>3, <2>2 DEF LoadTypes
  <2>4. Listed' = Listed \union P /\ Len(load'.list) = load'.skip
    <3>1. Listed' = ToSet(load'.list)
      BY <1>6, <2>2 DEF Listed, ToSet
    <3> QED
      BY <1>6, <1>8, <2>1, <2>2, <3>1
  <2>5. P = { s[k] : k \in { j \in 1 .. Len(s) : load.skip < j /\ j <= load.skip + LoadPage } }
    BY <1>2, <2>1
  <2> DEFINE next == load.skip + LoadPage
             Q == (Listed \union P) \intersect Beyond(s, next)
  <2>6. Missing' = (ToSet(Loaded) \intersect Upto(s, next)) \ (Listed \union P) /\ Repeatable' = Q
    <3>1. Upto(failedLog, load.skip)' = Upto(s, next) /\ Beyond(failedLog, load.skip)' = Beyond(s, next)
      BY <1>3, <2>2 DEF Upto, Beyond
    <3> QED
      BY <2>4, <3>1 DEF Missing, Repeatable
  <2>7. Missing' \subseteq Missing
    <3>1. ASSUME NEW m \in Upto(s, next), m \notin P PROVE m \in Upto(s, load.skip)
      <4>1. PICK k \in 1 .. Len(s) : k <= next /\ s[k] = m
        BY <3>1 DEF Upto
      <4>2. ~(load.skip < k)
        BY <2>5, <3>1, <4>1
      <4>3. k <= load.skip
        BY <1>1, <4>2
      <4> QED
        BY <3>1, <4>1, <4>3 DEF Upto
    <3> QED
      BY <2>6, <3>1 DEF Missing
  <2>8. P \intersect Beyond(s, next) = {}
    <3> SUFFICES ASSUME NEW m \in P, m \in Beyond(s, next) PROVE FALSE
      OBVIOUS
    <3>1. PICK k \in 1 .. Len(s) : k <= next /\ s[k] = m
      BY <2>5
    <3>2. PICK j \in 1 .. Len(s) : j > next /\ s[j] = m
      BY DEF Beyond
    <3>3. k = j
      BY <1>1, <1>9, <3>1, <3>2 DEF IsInjective
    <3> QED
      BY <1>1, <3>1, <3>2, <3>3
  <2>9. Beyond(s, load.skip) = Beyond(s, next) \union P
    <3>1. ASSUME NEW m \in Beyond(s, load.skip), m \notin P PROVE m \in Beyond(s, next)
      <4>1. PICK k \in 1 .. Len(s) : k > load.skip /\ s[k] = m
        BY <3>1 DEF Beyond
      <4>2. ~(k <= next)
        BY <1>1, <2>5, <3>1, <4>1
      <4>3. k > next
        BY <1>1, <4>2
      <4> QED
        BY <3>1, <4>1, <4>3 DEF Beyond
    <3>2. ASSUME NEW m \in P PROVE m \in Beyond(s, load.skip)
      <4>1. PICK k \in 1 .. Len(s) : load.skip < k /\ s[k] = m
        BY <2>5, <3>2
      <4>2. m \in ToSet(s) /\ k > load.skip
        BY <1>1, <1>9, <4>1 DEF ToSet
      <4> QED
        BY <4>1, <4>2 DEF Beyond
    <3>3. ASSUME NEW m \in Beyond(s, next) PROVE m \in Beyond(s, load.skip)
      <4>1. PICK k \in 1 .. Len(s) : k > next /\ s[k] = m
        BY <3>3 DEF Beyond
      <4>2. k > load.skip
        BY <1>1, <4>1
      <4> QED
        BY <3>3, <4>1, <4>2 DEF Beyond
    <3> QED
      BY <3>1, <3>2, <3>3
  <2>10. Repeatable = Q \union (P \intersect Listed) /\ Q \intersect P = {}
    BY <2>8, <2>9 DEF Repeatable
  <2> HIDE DEF Q, next
  <2>11. Cardinality(Repeatable) + Cardinality(Listed \union P) = Cardinality(Q) + Cardinality(Listed) + Cardinality(P)
         /\ Cardinality(Q) \in Nat /\ Cardinality(Listed \union P) \in Nat
    <3>1. IsFiniteSet(Q)
      BY <1>10, <2>10, FewerInSubset
    <3>2. Cardinality(Q \union (P \intersect Listed)) + Cardinality(Listed \union P)
            = Cardinality(Q) + Cardinality(Listed) + Cardinality(P)
          /\ Cardinality(Q) \in Nat /\ Cardinality(Listed \union P) \in Nat
      BY <1>5, <1>10, <2>10, <3>1, PageCounts
    <3> QED
      BY <2>10, <3>2
  <2>12. Cardinality(Missing') <= Cardinality(Missing) /\ Cardinality(Missing') \in Nat
    BY <1>10, <2>7, FewerInSubset
  <2>13. Cardinality(Missing') <= Cardinality(removed)
    BY <1>8, <1>10, <2>12
  <2>14. Len(load'.list) + Cardinality(Q) <= Cardinality(Listed \union P) + Cardinality(entered)
    <3>1. load.skip \in Nat /\ LoadPage \in Nat /\ Cardinality(P) = LoadPage /\ Len(load'.list) = load.skip + LoadPage
      BY <1>1, <1>5, <2>1, <2>2, <2>4
    <3>2. load.skip + Cardinality(Repeatable) <= Cardinality(Listed) + Cardinality(entered)
      BY <1>8
    <3>3. Cardinality(Repeatable) \in Nat /\ Cardinality(Listed) \in Nat /\ Cardinality(entered) \in Nat
      BY <1>10
    <3> DEFINE skip == load.skip
               long == Len(load'.list)
               more == Cardinality(Listed \union P)
               gone == Cardinality(Q)
               twice == Cardinality(Repeatable)
               had == Cardinality(Listed)
               came == Cardinality(entered)
    <3>4. /\ skip \in Nat /\ LoadPage \in Nat /\ more \in Nat /\ gone \in Nat /\ twice \in Nat /\ had \in Nat
          /\ came \in Nat /\ long = skip + LoadPage /\ twice + more = gone + had + LoadPage /\ skip + twice <= had + came
      BY <2>11, <3>1, <3>2, <3>3
    <3> HIDE DEF skip, long, more, gone, twice, had, came
    <3>5. long + gone <= more + came
      BY <3>4
    <3> QED
      BY <3>5 DEF long, more, gone, came
  <2>15. Paging'
    BY <1>3, <2>4, <2>6, <2>13, <2>14 DEF Paging
  <2>16. Gathered'
    BY <2>2 DEF Gathered
  <2>17. Publishing'
    <3>1. Len(load'.list) \in Nat
      BY <1>6, <2>2
    <3> QED
      BY <2>2, <3>1 DEF Publishing
  <2> QED
    BY <1>11, <2>3, <2>15, <2>16, <2>17 DEF LoadInv
<1> QED
  BY <1>12, <1>13

\* A step that leaves the tenant and the list alone, after the pages.
LEMMA AfterPages ==
  ASSUME LoadInv, NEW x \in LoadState, load' = x, x.list = load.list, x.limit = load.limit, x.skip = load.skip,
         x.at \in { "token", "publish", "done", "aborted" },
         x.at # "aborted" => load.at \in { "token", "publish" },
         sentBy' \in [Message -> Nat], unsent' \in SUBSET Message,
         UNCHANGED << failedLog, changes, entered, removed >>
  PROVE  LoadTypes' /\ Tenant' /\ Paging' /\ Gathered'
<1>1. LoadTypes'
  BY DEF LoadInv, LoadTypes
<1>2. Tenant' /\ Paging'
  BY DEF LoadInv, Tenant, Paging
<1>3. Listed' = Listed
  BY DEF Listed
<1>4. Gathered'
  BY <1>3 DEF LoadInv, Gathered
<1> QED
  BY <1>1, <1>2, <1>4

LEMMA LoadFailsInv ==
  ASSUME LoadInv, LoadFails
  PROVE  LoadInv'
<1> DEFINE x == [ load EXCEPT !.at = "aborted" ]
<1>1. load \in LoadState /\ sentBy \in [Message -> Nat] /\ unsent \in SUBSET Message
  BY DEF LoadInv, LoadTypes
<1>2. x \in LoadState /\ x.list = load.list /\ x.limit = load.limit /\ x.skip = load.skip /\ x.at = "aborted"
      /\ x.next = load.next /\ x.published = load.published /\ x.failed = load.failed
  BY <1>1 DEF LoadState
<1>3. load' = x /\ UNCHANGED << failedLog, sentBy, changes, entered, removed, unsent >>
  BY DEF LoadFails, Abort
<1> HIDE DEF x
<1>4. LoadTypes' /\ Tenant' /\ Paging' /\ Gathered'
  BY <1>1, <1>2, <1>3, AfterPages
<1>5. Publishing'
  BY <1>2, <1>3 DEF LoadInv, Publishing
<1> QED
  BY <1>4, <1>5 DEF LoadInv

LEMMA TokensInv ==
  ASSUME LoadInv, TakeTokens
  PROVE  LoadInv'
<1> DEFINE x == [ load EXCEPT !.at = "publish" ]
<1>1. load \in LoadState /\ sentBy \in [Message -> Nat] /\ unsent \in SUBSET Message /\ load.at = "token"
  BY DEF LoadInv, LoadTypes, TakeTokens
<1>2. x \in LoadState /\ x.list = load.list /\ x.limit = load.limit /\ x.skip = load.skip /\ x.at = "publish"
      /\ x.next = load.next /\ x.published = load.published /\ x.failed = load.failed
  BY <1>1 DEF LoadState
<1>3. load' = x /\ UNCHANGED << failedLog, sentBy, changes, entered, removed, unsent >>
  BY DEF TakeTokens
<1> HIDE DEF x
<1>4. LoadTypes' /\ Tenant' /\ Paging' /\ Gathered'
  BY <1>1, <1>2, <1>3, AfterPages
<1>5. Publishing'
  BY <1>2, <1>3 DEF LoadInv, Publishing
<1> QED
  BY <1>4, <1>5 DEF LoadInv

LEMMA DoneInv ==
  ASSUME LoadInv, LoadDone
  PROVE  LoadInv'
<1> DEFINE x == [ load EXCEPT !.at = "done" ]
<1>1. load \in LoadState /\ sentBy \in [Message -> Nat] /\ unsent \in SUBSET Message
      /\ load.at = "publish" /\ load.next > Len(load.list)
  BY DEF LoadInv, LoadTypes, LoadDone
<1>2. x \in LoadState /\ x.list = load.list /\ x.limit = load.limit /\ x.skip = load.skip /\ x.at = "done"
      /\ x.next = load.next /\ x.published = load.published /\ x.failed = load.failed
  BY <1>1 DEF LoadState
<1>3. load' = x /\ UNCHANGED << failedLog, sentBy, changes, entered, removed, unsent >>
  BY DEF LoadDone
<1> HIDE DEF x
<1>4. LoadTypes' /\ Tenant' /\ Paging' /\ Gathered'
  BY <1>1, <1>2, <1>3, AfterPages
<1>5. load.next = Len(load.list) + 1
  <2>1. load.next \in 1 .. Len(load.list) + 1 /\ Len(load.list) \in Nat
    BY <1>1 DEF LoadInv, Publishing, LoadState
  <2> QED
    BY <1>1, <2>1
<1>6. Publishing'
  BY <1>2, <1>3, <1>5 DEF LoadInv, Publishing
<1> QED
  BY <1>4, <1>6 DEF LoadInv

LEMMA PublishInv ==
  ASSUME LoadInv, PublishOne
  PROVE  LoadInv'
<1> DEFINE m == load.list[load.next]
           sent == [ sentBy EXCEPT ![m] = sentBy[m] + 1 ]
           good == [ load EXCEPT !.next = load.next + 1, !.published = load.published + 1 ]
           bad  == [ load EXCEPT !.next = load.next + 1, !.failed = load.failed + 1 ]
<1>1. load \in LoadState /\ sentBy \in [Message -> Nat] /\ unsent \in SUBSET Message
      /\ load.at = "publish" /\ load.next <= Len(load.list)
  BY DEF LoadInv, LoadTypes, PublishOne
<1>2. load.next \in Nat /\ load.next >= 1 /\ load.published \in Nat /\ load.failed \in Nat /\ Len(load.list) \in Nat
      /\ load.list \in Seq(Message)
  BY <1>1 DEF LoadState, LoadInv, Publishing
<1>3. m \in Message
  BY <1>1, <1>2
<1>4. \/ sentBy' = sent /\ load' = good /\ unsent' = unsent
      \/ sentBy' \in { sentBy, sent } /\ load' = bad /\ unsent' = unsent \union {m}
  BY DEF PublishOne
<1>5. UNCHANGED << failedLog, changes, entered, removed >>
  BY DEF PublishOne
<1>6. \A x \in { good, bad } :
         /\ x \in LoadState /\ x.list = load.list /\ x.limit = load.limit /\ x.skip = load.skip /\ x.at = "publish"
         /\ x.next = load.next + 1 /\ x.published + x.failed = load.published + load.failed + 1
  <2>1. load.next + 1 \in Nat /\ load.published + 1 \in Nat /\ load.failed + 1 \in Nat
    BY <1>2
  <2>2. good \in LoadState /\ bad \in LoadState
    BY <1>1, <2>1 DEF LoadState
  <2>3. /\ good.list = load.list /\ good.limit = load.limit /\ good.skip = load.skip
        /\ good.at = "publish" /\ good.next = load.next + 1 /\ good.published = load.published + 1
        /\ good.failed = load.failed
    BY <1>1 DEF LoadState
  <2>4. /\ bad.list = load.list /\ bad.limit = load.limit /\ bad.skip = load.skip
        /\ bad.at = "publish" /\ bad.next = load.next + 1 /\ bad.published = load.published
        /\ bad.failed = load.failed + 1
    BY <1>1 DEF LoadState
  <2> HIDE DEF good, bad
  <2>5. good.published + good.failed = load.published + load.failed + 1
    BY <1>2, <2>3
  <2>6. bad.published + bad.failed = load.published + load.failed + 1
    BY <1>2, <2>4
  <2> QED
    BY <2>2, <2>3, <2>4, <2>5, <2>6, Zenon
<1>7. /\ sent \in [Message -> Nat] /\ sent[m] >= 1 /\ sent[m] = sentBy[m] + 1
      /\ \A x \in Message : x # m => sent[x] = sentBy[x]
  BY <1>1, <1>3, SMTT(40)
<1> HIDE DEF m, sent, good, bad
<1>8. load' \in { good, bad }
  BY <1>4
<1>9. /\ load' \in LoadState /\ load'.list = load.list /\ load'.limit = load.limit /\ load'.skip = load.skip
      /\ load'.at = "publish"
      /\ load'.next = load.next + 1 /\ load'.published + load'.failed = load.published + load.failed + 1
  BY <1>6, <1>8
<1>10. sentBy' \in [Message -> Nat] /\ unsent' \in SUBSET Message
  BY <1>1, <1>3, <1>4, <1>7
<1>11. LoadTypes' /\ Tenant' /\ Paging' /\ Gathered'
  BY <1>1, <1>5, <1>9, <1>10, AfterPages
<1>12. load'.next \in 1 .. Len(load'.list) + 1
  <2>1. load'.next = load.next + 1 /\ load'.list = load.list
    BY <1>9
  <2>2. load.next + 1 \in 1 .. Len(load.list) + 1
    BY <1>1, <1>2
  <2> QED
    BY <2>1, <2>2
<1>13. load'.published + load'.failed = load'.next - 1
  BY <1>2, <1>9 DEF LoadInv, Publishing
<1>14. ASSUME NEW n \in 1 .. Len(load'.list), n < load'.next, load'.list[n] \notin unsent'
       PROVE  sentBy'[load'.list[n]] >= 1
  <2>1. load.list[n] \in Message /\ load.list[n] = load'.list[n] /\ n \in 1 .. Len(load.list)
    BY <1>2, <1>9
  <2>2. CASE load.list[n] = m
    <3>1. sentBy' = sent
      BY <1>4, <1>14, <2>1, <2>2
    <3> QED
      BY <1>7, <2>1, <2>2, <3>1
  <2>3. CASE load.list[n] # m
    <3>1. n # load.next
      BY <2>3 DEF m
    <3>2. n < load.next
      BY <1>2, <1>9, <1>14, <3>1
    <3>3. load.list[n] \notin unsent
      BY <1>4, <1>14, <2>1
    <3>4. sentBy[load.list[n]] >= 1
      BY <2>1, <3>2, <3>3 DEF LoadInv, Publishing
    <3>5. sentBy'[load.list[n]] = sentBy[load.list[n]]
      BY <1>4, <1>7, <2>1, <2>3
    <3> QED
      BY <2>1, <3>4, <3>5
  <2> QED
    BY <2>2, <2>3
<1>15. Publishing'
  BY <1>9, <1>12, <1>13, <1>14 DEF Publishing
<1> QED
  BY <1>11, <1>15 DEF LoadInv

\* The newest message moves the others one place back.
LEMMA InFront ==
  ASSUME NEW S, NEW s \in Seq(S), NEW m, m \notin ToSet(s), IsInjective(s), NEW n \in Nat,
         NEW t \in Seq(S), Len(t) = Len(s) + 1, t[1] = m, \A k \in 1 .. Len(s) : t[k + 1] = s[k]
  PROVE  /\ t \in Seq(S) /\ IsInjective(t) /\ ToSet(t) = ToSet(s) \union {m}
         /\ Upto(t, n) \subseteq Upto(s, n) \union {m}
         /\ Beyond(t, n) \subseteq Beyond(s, n) \union { t[n + 1] }
<1>1. Len(t) = Len(s) + 1 /\ t[1] = m /\ Len(s) \in Nat
      /\ \A k \in 1 .. Len(s) : t[k + 1] = s[k]
  OBVIOUS
<1>2. DOMAIN s = 1 .. Len(s) /\ DOMAIN t = 1 .. Len(s) + 1
  BY <1>1
<1>3. ASSUME NEW k \in 1 .. Len(s) + 1, k # 1
      PROVE  k - 1 \in 1 .. Len(s) /\ t[k] = s[k - 1]
  <2>1. k - 1 \in 1 .. Len(s) /\ (k - 1) + 1 = k
    BY <1>1, <1>3
  <2> QED
    BY <1>1, <2>1
<1>4. \A k \in 1 .. Len(s) : s[k] \in ToSet(s) /\ s[k] # m
  BY <1>2 DEF ToSet
<1>5. IsInjective(t)
  <2> SUFFICES ASSUME NEW a \in 1 .. Len(s) + 1, NEW b \in 1 .. Len(s) + 1, t[a] = t[b] PROVE a = b
    BY <1>2 DEF IsInjective
  <2>1. CASE a = 1 \/ b = 1
    BY <1>1, <1>3, <1>4, <2>1
  <2>2. CASE a # 1 /\ b # 1
    <3>1. a - 1 \in 1 .. Len(s) /\ b - 1 \in 1 .. Len(s) /\ s[a - 1] = s[b - 1]
      BY <1>3, <2>2
    <3>2. a - 1 = b - 1
      BY <1>2, <3>1 DEF IsInjective
    <3>3. a \in Int /\ b \in Int
      OBVIOUS
    <3> QED
      BY <3>2, <3>3
  <2> QED
    BY <2>1, <2>2
<1>6. ASSUME NEW x \in ToSet(t) PROVE x \in ToSet(s) \union {m}
  <2>1. PICK k \in 1 .. Len(s) + 1 : x = t[k]
    BY <1>2 DEF ToSet
  <2>2. CASE k = 1
    BY <1>1, <2>1, <2>2
  <2>3. CASE k # 1
    BY <1>3, <1>4, <2>1, <2>3
  <2> QED
    BY <2>2, <2>3
<1>7. ASSUME NEW x \in ToSet(s) \union {m} PROVE x \in ToSet(t)
  <2>1. CASE x = m
    <3>1. 1 \in 1 .. Len(s) + 1
      BY <1>1
    <3> QED
      BY <1>1, <1>2, <2>1, <3>1 DEF ToSet
  <2>2. CASE x \in ToSet(s)
    <3>1. PICK k \in 1 .. Len(s) : x = s[k]
      BY <1>2, <2>2 DEF ToSet
    <3>2. k + 1 \in 1 .. Len(s) + 1 /\ t[k + 1] = x
      BY <1>1, <3>1
    <3> QED
      BY <1>2, <3>2 DEF ToSet
  <2> QED
    BY <1>7, <2>1, <2>2
<1>8. ASSUME NEW x \in Upto(t, n), x # m PROVE x \in Upto(s, n)
  <2>1. x \in ToSet(s)
    BY <1>6, <1>8 DEF Upto
  <2>2. PICK k \in 1 .. Len(s) + 1 : k <= n /\ t[k] = x
    BY <1>1 DEF Upto
  <2>3. k # 1
    BY <1>1, <1>8, <2>2
  <2>4. k - 1 \in 1 .. Len(s) /\ s[k - 1] = x
    BY <1>3, <2>2, <2>3
  <2>5. k - 1 <= n
    BY <2>2
  <2> QED
    BY <2>1, <2>4, <2>5 DEF Upto
<1>9. ASSUME NEW x \in Beyond(t, n), x # t[n + 1] PROVE x \in Beyond(s, n)
  <2>1. PICK k \in 1 .. Len(s) + 1 : k > n /\ t[k] = x
    BY <1>1 DEF Beyond
  <2>2. k # n + 1 /\ k # 1
    BY <1>9, <2>1
  <2>3. k - 1 \in 1 .. Len(s) /\ s[k - 1] = x
    BY <1>3, <2>1, <2>2
  <2>4. k - 1 > n
    BY <2>1, <2>2
  <2>5. x \in ToSet(s)
    BY <1>4, <2>3
  <2> QED
    BY <2>3, <2>4, <2>5 DEF Beyond
<1> QED
  BY <1>1, <1>5, <1>6, <1>7, <1>8, <1>9

\* The message that leaves moves those behind it one place forward.
LEMMA TakenOut ==
  ASSUME NEW S, NEW s \in Seq(S), IsInjective(s), NEW p \in 1 .. Len(s), NEW t, t = RemoveAt(s, p), NEW n \in Nat
  PROVE  /\ t \in Seq(S) /\ IsInjective(t) /\ ToSet(t) = ToSet(s) \ { s[p] }
         /\ Upto(t, n) \subseteq Upto(s, n) \union { s[n + 1] }
         /\ Beyond(t, n) \subseteq Beyond(s, n)
<1>1. Len(s) \in Nat /\ t \in Seq(S) /\ Len(t) = Len(s) - 1
      /\ \A k \in 1 .. Len(s) - 1 : t[k] = IF k < p THEN s[k] ELSE s[k + 1]
  BY RemovedAt, SMTT(40)
<1>2. DOMAIN s = 1 .. Len(s) /\ DOMAIN t = 1 .. Len(s) - 1
  BY <1>1
<1> DEFINE from(k) == IF k < p THEN k ELSE k + 1
<1>3. ASSUME NEW k \in 1 .. Len(s) - 1
      PROVE  from(k) \in 1 .. Len(s) /\ t[k] = s[from(k)] /\ from(k) # p /\ (from(k) = k \/ from(k) = k + 1)
  <2>1. from(k) \in 1 .. Len(s) /\ from(k) # p /\ (from(k) = k \/ from(k) = k + 1)
    BY <1>1
  <2> QED
    BY <1>1, <2>1
<1>4. ASSUME NEW a \in 1 .. Len(s) - 1, NEW b \in 1 .. Len(s) - 1, from(a) = from(b) PROVE a = b
  BY <1>1, <1>4
<1>5. ASSUME NEW j \in 1 .. Len(s), j # p PROVE \E k \in 1 .. Len(s) - 1 : from(k) = j
  <2>1. CASE j < p
    <3>1. j \in 1 .. Len(s) - 1 /\ from(j) = j
      BY <1>1, <2>1
    <3> QED
      BY <3>1
  <2>2. CASE ~(j < p)
    <3>1. j - 1 \in 1 .. Len(s) - 1 /\ from(j - 1) = j
      BY <1>1, <1>5, <2>2
    <3> QED
      BY <3>1
  <2> QED
    BY <2>1, <2>2
<1> HIDE DEF from
<1>6. IsInjective(t)
  <2> SUFFICES ASSUME NEW a \in 1 .. Len(s) - 1, NEW b \in 1 .. Len(s) - 1, t[a] = t[b] PROVE a = b
    BY <1>2 DEF IsInjective
  <2>1. from(a) \in 1 .. Len(s) /\ from(b) \in 1 .. Len(s) /\ s[from(a)] = s[from(b)]
    BY <1>3
  <2>2. from(a) = from(b)
    BY <1>2, <2>1 DEF IsInjective
  <2> QED
    BY <1>4, <2>2
<1>7. \A j \in 1 .. Len(s) : s[j] \in ToSet(s)
  BY <1>2 DEF ToSet
<1>8. ASSUME NEW x \in ToSet(t) PROVE x \in ToSet(s) \ { s[p] }
  <2>1. PICK k \in 1 .. Len(s) - 1 : x = t[k]
    BY <1>2 DEF ToSet
  <2>2. from(k) \in 1 .. Len(s) /\ x = s[from(k)] /\ from(k) # p
    BY <1>3, <2>1
  <2>3. x # s[p]
    BY <1>2, <2>2 DEF IsInjective
  <2> QED
    BY <1>7, <2>2, <2>3
<1>9. ASSUME NEW x \in ToSet(s) \ { s[p] } PROVE x \in ToSet(t)
  <2>1. PICK j \in 1 .. Len(s) : x = s[j]
    BY <1>2 DEF ToSet
  <2>2. PICK k \in 1 .. Len(s) - 1 : from(k) = j
    BY <1>5, <1>9, <2>1
  <2>3. t[k] = x
    BY <1>3, <2>1, <2>2
  <2> QED
    BY <1>2, <2>3 DEF ToSet
<1>10. ASSUME NEW x \in Upto(t, n), x # s[n + 1] PROVE x \in Upto(s, n)
  <2>1. PICK k \in 1 .. Len(s) - 1 : k <= n /\ t[k] = x
    BY <1>1 DEF Upto
  <2>2. from(k) \in 1 .. Len(s) /\ x = s[from(k)] /\ (from(k) = k \/ from(k) = k + 1)
    BY <1>3, <2>1
  <2>3. from(k) # n + 1
    BY <1>10, <2>2
  <2>4. from(k) <= n
    BY <2>1, <2>2, <2>3
  <2> QED
    BY <1>7, <2>2, <2>4 DEF Upto
<1>11. ASSUME NEW x \in Beyond(t, n) PROVE x \in Beyond(s, n)
  <2>1. PICK k \in 1 .. Len(s) - 1 : k > n /\ t[k] = x
    BY <1>1 DEF Beyond
  <2>2. from(k) \in 1 .. Len(s) /\ x = s[from(k)] /\ (from(k) = k \/ from(k) = k + 1)
    BY <1>3, <2>1
  <2>3. from(k) > n
    BY <2>1, <2>2
  <2> QED
    BY <1>7, <2>2, <2>3 DEF Beyond
<1> QED
  BY <1>1, <1>6, <1>8, <1>9, <1>10, <1>11

LEMMA MessageFailsInv ==
  ASSUME LoadInv, NEW m \in Message, MessageFails(m)
  PROVE  LoadInv'
<1> DEFINE skip == load.skip
<1>1. /\ failedLog \in Seq(Message) /\ IsInjective(failedLog) /\ load \in LoadState /\ load.at = "pages"
      /\ sentBy \in [Message -> Nat] /\ changes \in 0 .. MaxChanges /\ changes < MaxChanges
      /\ entered \in SUBSET Message /\ removed \in SUBSET Message /\ unsent \in SUBSET Message
      /\ IsFiniteSet(entered) /\ IsFiniteSet(removed) /\ skip \in Nat
  BY DEF LoadInv, LoadTypes, LoadState, MessageFails
<1>2. /\ failedLog' = << m >> \o failedLog /\ entered' = entered \union {m} /\ changes' = changes + 1
      /\ UNCHANGED << load, sentBy, removed, unsent >> /\ m \notin removed /\ ~Contains(failedLog, m)
  BY DEF MessageFails
<1>3. m \notin ToSet(failedLog)
  <2>1. \A k \in 1 .. Len(failedLog) : failedLog[k] # m
    BY <1>2 DEF Contains
  <2>2. DOMAIN failedLog = 1 .. Len(failedLog)
    BY <1>1
  <2> QED
    BY <2>1, <2>2, Zenon DEF ToSet
<1>4. /\ failedLog' \in Seq(Message) /\ IsInjective(failedLog') /\ ToSet(failedLog') = ToSet(failedLog) \union {m}
      /\ Upto(failedLog', skip) \subseteq Upto(failedLog, skip) \union {m}
      /\ Beyond(failedLog', skip) \subseteq Beyond(failedLog, skip) \union { failedLog'[skip + 1] }
  <2>1. /\ failedLog' \in Seq(Message) /\ Len(failedLog') = Len(failedLog) + 1 /\ failedLog'[1] = m
        /\ \A k \in 1 .. Len(failedLog) : failedLog'[k + 1] = failedLog[k]
    BY <1>1, <1>2
  <2> QED
    BY <1>1, <1>3, <2>1, InFront, SMTT(40)
<1>5. IsFiniteSet(entered') /\ Cardinality(entered') = Cardinality(entered) + 1
  <2>1. m \notin entered
    BY <1>2, <1>3 DEF LoadInv, Tenant
  <2> QED
    BY <1>1, <1>2, <2>1, FS_AddElement
<1>6. MaxChanges \in Nat
  BY LoadConstants
<1>7. changes' \in 0 .. MaxChanges
  BY <1>1, <1>2, <1>6
<1>8. LoadTypes'
  BY <1>1, <1>2, <1>4, <1>5, <1>7 DEF LoadTypes
<1>9. Tenant'
  BY <1>2, <1>4 DEF LoadInv, Tenant
<1>10. Listed' = Listed
  BY <1>2 DEF Listed
<1>11. /\ Missing' = (ToSet(Loaded) \intersect Upto(failedLog', skip)) \ Listed
       /\ Repeatable' = Listed \intersect Beyond(failedLog', skip)
  <2>1. Upto(failedLog, load.skip)' = Upto(failedLog', skip) /\ Beyond(failedLog, load.skip)' = Beyond(failedLog', skip)
    BY <1>2 DEF Upto, Beyond
  <2> QED
    BY <1>10, <2>1 DEF Missing, Repeatable
<1>12. Missing' \subseteq Missing
  <2>1. m \notin ToSet(Loaded)
    BY <1>2, <1>3 DEF LoadInv, Tenant
  <2> QED
    BY <1>4, <1>11, <2>1 DEF Missing
<1>13. Repeatable' \subseteq Repeatable \union { failedLog'[skip + 1] }
  BY <1>4, <1>11 DEF Repeatable
<1>14. LoadTypes
  BY DEF LoadInv
<1>15. IsFiniteSet(Missing) /\ IsFiniteSet(Repeatable) /\ Cardinality(removed) \in Nat /\ Cardinality(entered) \in Nat
       /\ Cardinality(Listed) \in Nat
  BY <1>14, LoadFinite, ListedIsSet
<1>16. Cardinality(Missing') \in Nat /\ Cardinality(Missing) \in Nat /\ Cardinality(Missing') <= Cardinality(Missing)
  BY <1>12, <1>15, FewerInSubset
<1>17. Cardinality(Repeatable') \in Nat /\ Cardinality(Repeatable) \in Nat
       /\ Cardinality(Repeatable') <= Cardinality(Repeatable) + 1
  BY <1>13, <1>15, OneMore
<1>18. Paging'
  <2>1. Len(load.list) = skip /\ Cardinality(Missing) <= Cardinality(removed)
        /\ skip + Cardinality(Repeatable) <= Cardinality(Listed) + Cardinality(entered)
    BY <1>1 DEF LoadInv, Paging
  <2> DEFINE twice == Cardinality(Repeatable)
             again == Cardinality(Repeatable')
             had   == Cardinality(Listed)
             came  == Cardinality(entered)
             went  == Cardinality(removed)
             lost  == Cardinality(Missing')
  <2>2. /\ skip \in Nat /\ twice \in Nat /\ again \in Nat /\ had \in Nat /\ came \in Nat
        /\ again <= twice + 1 /\ skip + twice <= had + came
    BY <1>1, <1>15, <1>17, <2>1
  <2>3. lost <= went
    BY <1>15, <1>16, <2>1
  <2> HIDE DEF skip, twice, again, had, came, went, lost
  <2>4. skip + again <= had + (came + 1)
    BY <2>2
  <2> USE DEF skip, twice, again, had, came, went, lost
  <2>5. Len(load'.list) = load'.skip /\ Len(load'.list) = skip
    BY <1>2, <2>1
  <2>6. Cardinality(entered') = came + 1 /\ Cardinality(removed') = went /\ Cardinality(Listed') = had
    BY <1>2, <1>5, <1>10
  <2> QED
    BY <2>3, <2>4, <2>5, <2>6 DEF Paging
<1>19. Gathered' /\ Publishing'
  BY <1>1, <1>2 DEF LoadInv, Gathered, Publishing
<1> QED
  BY <1>8, <1>9, <1>18, <1>19 DEF LoadInv

LEMMA MessageLeavesInv ==
  ASSUME LoadInv, NEW m \in Message, MessageLeaves(m)
  PROVE  LoadInv'
<1> DEFINE skip == load.skip
<1>1. /\ failedLog \in Seq(Message) /\ IsInjective(failedLog) /\ load \in LoadState /\ load.at = "pages"
      /\ sentBy \in [Message -> Nat] /\ changes \in 0 .. MaxChanges /\ changes < MaxChanges
      /\ entered \in SUBSET Message /\ removed \in SUBSET Message /\ unsent \in SUBSET Message
      /\ IsFiniteSet(entered) /\ IsFiniteSet(removed) /\ skip \in Nat
  BY DEF LoadInv, LoadTypes, LoadState, MessageLeaves
<1>2. PICK p \in 1 .. Len(failedLog) : failedLog[p] = m /\ failedLog' = RemoveAt(failedLog, p)
  BY DEF MessageLeaves
<1>3. /\ removed' = removed \union {m} /\ changes' = changes + 1 /\ UNCHANGED << load, sentBy, entered, unsent >>
  BY DEF MessageLeaves
<1>4. /\ failedLog' \in Seq(Message) /\ IsInjective(failedLog') /\ ToSet(failedLog') = ToSet(failedLog) \ {m}
      /\ Upto(failedLog', skip) \subseteq Upto(failedLog, skip) \union { failedLog[skip + 1] }
      /\ Beyond(failedLog', skip) \subseteq Beyond(failedLog, skip)
  BY <1>1, <1>2, TakenOut
<1>5. IsFiniteSet(removed') /\ Cardinality(removed') = Cardinality(removed) + 1
  <2>1. m \in ToSet(failedLog)
    BY <1>1, <1>2 DEF ToSet
  <2>2. m \notin removed
    BY <2>1 DEF LoadInv, Tenant
  <2> QED
    BY <1>1, <1>3, <2>2, FS_AddElement
<1>6. MaxChanges \in Nat
  BY LoadConstants
<1>7. changes' \in 0 .. MaxChanges
  BY <1>1, <1>3, <1>6
<1>8. LoadTypes'
  BY <1>1, <1>3, <1>4, <1>5, <1>7 DEF LoadTypes
<1>9. Tenant'
  BY <1>3, <1>4 DEF LoadInv, Tenant
<1>10. Listed' = Listed
  BY <1>3 DEF Listed
<1>11. /\ Missing' = (ToSet(Loaded) \intersect Upto(failedLog', skip)) \ Listed
       /\ Repeatable' = Listed \intersect Beyond(failedLog', skip)
  <2>1. Upto(failedLog, load.skip)' = Upto(failedLog', skip) /\ Beyond(failedLog, load.skip)' = Beyond(failedLog', skip)
    BY <1>3 DEF Upto, Beyond
  <2> QED
    BY <1>10, <2>1 DEF Missing, Repeatable
<1>12. Missing' \subseteq Missing \union { failedLog[skip + 1] }
  BY <1>4, <1>11 DEF Missing
<1>13. Repeatable' \subseteq Repeatable
  BY <1>4, <1>11 DEF Repeatable
<1>14. LoadTypes
  BY DEF LoadInv
<1>15. IsFiniteSet(Missing) /\ IsFiniteSet(Repeatable) /\ Cardinality(removed) \in Nat /\ Cardinality(entered) \in Nat
       /\ Cardinality(Listed) \in Nat
  BY <1>14, LoadFinite, ListedIsSet
<1>16. Cardinality(Missing') \in Nat /\ Cardinality(Missing) \in Nat
       /\ Cardinality(Missing') <= Cardinality(Missing) + 1
  BY <1>12, <1>15, OneMore
<1>17. Cardinality(Repeatable') \in Nat /\ Cardinality(Repeatable) \in Nat
       /\ Cardinality(Repeatable') <= Cardinality(Repeatable)
  BY <1>13, <1>15, FewerInSubset
<1>18. Paging'
  <2>1. Len(load.list) = skip /\ Cardinality(Missing) <= Cardinality(removed)
        /\ skip + Cardinality(Repeatable) <= Cardinality(Listed) + Cardinality(entered)
    BY <1>1 DEF LoadInv, Paging
  <2> DEFINE twice == Cardinality(Repeatable)
             again == Cardinality(Repeatable')
             had   == Cardinality(Listed)
             came  == Cardinality(entered)
             went  == Cardinality(removed)
             old   == Cardinality(Missing)
             lost  == Cardinality(Missing')
  <2>2. /\ skip \in Nat /\ twice \in Nat /\ again \in Nat /\ had \in Nat /\ came \in Nat
        /\ again <= twice /\ skip + twice <= had + came
    BY <1>1, <1>15, <1>17, <2>1
  <2>3. old \in Nat /\ lost \in Nat /\ went \in Nat /\ lost <= old + 1 /\ old <= went
    BY <1>15, <1>16, <2>1
  <2> HIDE DEF skip, twice, again, had, came, went, old, lost
  <2>4. skip + again <= had + came
    BY <2>2
  <2>5. lost <= went + 1
    BY <2>3
  <2> USE DEF skip, twice, again, had, came, went, old, lost
  <2>6. Len(load'.list) = load'.skip /\ Len(load'.list) = skip
    BY <1>3, <2>1
  <2>7. Cardinality(removed') = went + 1 /\ Cardinality(entered') = came /\ Cardinality(Listed') = had
    BY <1>3, <1>5, <1>10
  <2> QED
    BY <2>4, <2>5, <2>6, <2>7 DEF Paging
<1>19. Gathered' /\ Publishing'
  BY <1>1, <1>3 DEF LoadInv, Gathered, Publishing
<1> QED
  BY <1>8, <1>9, <1>18, <1>19 DEF LoadInv

LEMMA LoadInductive ==
  ASSUME LoadInv, [LoadNext]_loadVars
  PROVE  LoadInv'
<1>1. CASE UNCHANGED loadVars
  <2>1. UNCHANGED << Listed, Missing, Repeatable >>
    BY <1>1 DEF loadVars, Listed, Missing, Repeatable, Upto, Beyond
  <2> QED
    BY <1>1, <2>1 DEF loadVars, LoadInv, LoadTypes, Tenant, Paging, Gathered, Publishing
<1>2. CASE LoadNext
  BY <1>2, PageInv, LoadFailsInv, TokensInv, PublishInv, DoneInv, MessageFailsInv, MessageLeavesInv DEF LoadNext
<1> QED
  BY <1>1, <1>2

LEMMA InvIsComplete ==
  ASSUME LoadInv
  PROVE  LoadIsComplete
<1>1. load.list \in Seq(Message)
  BY DEF LoadInv, LoadTypes, LoadState
<1>2. ASSUME load.at \in { "publish", "done" }, load.limit = 0
      PROVE  /\ Cardinality((ToSet(Loaded) \ removed) \ Listed) <= Cardinality(removed)
             /\ Len(load.list) - Cardinality(Listed) <= Cardinality(entered)
  BY <1>2 DEF LoadInv, Gathered
<1>3. ASSUME load.at = "done", load.next > 1
      PROVE  /\ load.published + load.failed = Len(load.list)
             /\ \A m \in Listed \ unsent : sentBy[m] >= 1
  <2>1. load.next = Len(load.list) + 1 /\ Len(load.list) \in Nat /\ load.published + load.failed = load.next - 1
    BY <1>1, <1>3 DEF LoadInv, Publishing
  <2>2. load.published + load.failed = Len(load.list)
    BY <2>1
  <2>3. ASSUME NEW m \in Listed \ unsent PROVE sentBy[m] >= 1
    <3>1. PICK n \in 1 .. Len(load.list) : m = load.list[n]
      BY <2>3 DEF Listed
    <3>2. n < load.next
      BY <2>1
    <3> QED
      BY <2>3, <3>1, <3>2 DEF LoadInv, Publishing
  <2> QED
    BY <2>2, <2>3
<1> QED
  BY <1>2, <1>3 DEF LoadIsComplete

\* scripts/initial_load.py: however many messages the tenant has, however long the pages
\* and whatever fails or leaves between two of them, no more messages are missed than left
\* the list meanwhile, and no more are published twice than entered it.
THEOREM LoadedInFull == LoadSpec => []LoadIsComplete
<1>1. LoadInit => LoadInv
  BY LoadInitInv
<1>2. LoadInv /\ [LoadNext]_loadVars => LoadInv'
  BY LoadInductive
<1>3. LoadInv => LoadIsComplete
  BY InvIsComplete
<1> QED
  BY <1>1, <1>2, <1>3, PTL DEF LoadSpec

-----------------------------------------------------------------------------
(* The parts together *)

\* Beyond what the confidence and the notes need: a diagnosis begins once.
Begun ==
    /\ agentReady \in BOOLEAN
    /\ IsInjective(began)
    /\ \A i \in 1 .. Len(began) : rca[began[i]].at # "idle"
    /\ notesOf \in [Run -> SUBSET Run]

\* A step in which no diagnosis begins and none becomes idle again.
LEMMA BegunStays ==
  ASSUME RInv, Begun, agentReady' \in BOOLEAN, began' = began,
         \A r \in Run : rca[r].at # "idle" => rca'[r].at # "idle", notesOf' \in [Run -> SUBSET Run]
  PROVE  Begun'
<1>1. \A i \in 1 .. Len(began) : began[i] \in Run
  BY DEF RInv
<1> QED
  BY <1>1 DEF Begun

LEMMA RunStays ==
  ASSUME RInv, Begun, NEW r \in Run, NEW x, x.at # "idle", rca' = [ rca EXCEPT ![r] = x ],
         agentReady' \in BOOLEAN, UNCHANGED << began, notesOf >>
  PROVE  Begun'
<1>1. \A q \in Run : rca[q].at # "idle" => rca'[q].at # "idle"
  BY DEF RInv
<1> QED
  BY <1>1, BegunStays DEF Begun

LEMMA ConcludedStays ==
  ASSUME RInv, Begun, NEW r \in Run, NEW fixes, NEW conf, Concluded(r, fixes, conf),
         UNCHANGED << agentReady, began, notesOf >>
  PROVE  Begun'
<1>1. PICK filled \in FilledIn(fixes, rca[r].raw) :
         rca' = [ rca EXCEPT ![r] = Returned(rca[r].raw, filled, Boosted(conf, filled)) ]
  BY DEF Concluded
<1>2. Returned(rca[r].raw, filled, Boosted(conf, filled)).at # "idle"
  BY DEF Returned, State
<1> QED
  BY <1>1, <1>2, RunStays DEF Begun

LEMMA BegunInductive ==
  ASSUME RInv, Begun, [RcaNext]_rcaVars
  PROVE  Begun'
<1>1. rca \in [Run -> RunState] /\ began \in Seq(Run) /\ agentReady \in BOOLEAN
  BY DEF RInv, Begun
<1>2. CASE UNCHANGED rcaVars
  BY <1>2 DEF rcaVars, Begun
<1>3. ASSUME NEW r \in Run, NEW rule \in RuleConfidence, BeginRca(r, rule)
      PROVE  Begun'
  <2>1. PICK at \in { "agent", "reclassify" } : rca' = [ rca EXCEPT ![r] = State(at, "none", rule, 0, {}) ]
    BY <1>3 DEF BeginRca
  <2>2. State(at, "none", rule, 0, {}).at # "idle"
    BY DEF State
  <2>3. \A q \in Run : rca[q].at # "idle" \/ q = r => rca'[q].at # "idle"
    BY <1>1, <2>1, <2>2
  <2>4. rca[r].at = "idle" /\ began' = Append(began, r) /\ UNCHANGED << agentReady, notesOf >>
    BY <1>3 DEF BeginRca
  <2>5. /\ began' \in Seq(Run) /\ Len(began') = Len(began) + 1 /\ began'[Len(began) + 1] = r /\ Len(began) \in Nat
        /\ \A i \in 1 .. Len(began) : began'[i] = began[i] /\ began[i] \in Run /\ began[i] # r
    BY <1>1, <2>4 DEF Begun
  <2>6. DOMAIN began = 1 .. Len(began) /\ DOMAIN began' = 1 .. Len(began) + 1
    BY <1>1, <2>5
  <2>7. IsInjective(began')
    <3> SUFFICES ASSUME NEW i \in 1 .. Len(began) + 1, NEW j \in 1 .. Len(began) + 1, began'[i] = began'[j]
                 PROVE  i = j
      BY <2>6 DEF IsInjective
    <3>1. CASE i = Len(began) + 1 \/ j = Len(began) + 1
      BY <2>5, <3>1
    <3>2. CASE i # Len(began) + 1 /\ j # Len(began) + 1
      <4>1. i \in 1 .. Len(began) /\ j \in 1 .. Len(began)
        BY <2>5, <3>2
      <4>2. began[i] = began[j]
        BY <2>5, <4>1
      <4> QED
        BY <2>6, <4>1, <4>2 DEF Begun, IsInjective
    <3> QED
      BY <3>1, <3>2
  <2>8. ASSUME NEW i \in 1 .. Len(began') PROVE rca'[began'[i]].at # "idle"
    <3>1. i = Len(began) + 1 \/ i \in 1 .. Len(began)
      BY <2>5
    <3> QED
      BY <2>3, <2>5, <3>1 DEF Begun
  <2> QED
    BY <2>4, <2>7, <2>8 DEF Begun
<1>4. ASSUME NEW r \in Run, ReadNotes(r)
      PROVE  Begun'
  <2>1. PICK i \in 1 .. Len(began) : began[i] = r
    BY <1>1, <1>4 DEF ReadNotes, RInv, Order
  <2>2. began # << >> /\ Len(began) \in 1 .. Len(began)
    BY <1>1, <2>1
  <2>3. current = began[Len(began)]
    BY <2>2 DEF RInv, Order
  <2>4. current \in Run
    BY <1>1, <2>2, <2>3
  <2>5. notesOf' \in [Run -> SUBSET Run] /\ UNCHANGED << agentReady, rca, began >>
    BY <1>4, <2>4 DEF ReadNotes, Begun
  <2> QED
    BY <1>1, <2>5, BegunStays
<1>5. ASSUME NEW r \in Run, Reclassified(r) \/ NeedAgent(r) \/ Prefetched(r) \/ AttemptFails(r) \/ Unusable(r)
      PROVE  Begun'
  <2>1. agentReady' \in BOOLEAN /\ UNCHANGED << began, notesOf >>
    BY <1>1, <1>5 DEF Reclassified, NeedAgent, Prefetched, AttemptFails, Unusable
  <2>2. \E x : x.at # "idle" /\ rca' = [ rca EXCEPT ![r] = x ]
    <3>1. rca[r] \in RunState
      BY <1>1
    <3>2. CASE Reclassified(r)
      <4>1. rca' = [ rca EXCEPT ![r] = [ rca[r] EXCEPT !.at = "agent" ] ] /\ [ rca[r] EXCEPT !.at = "agent" ].at = "agent"
        BY <1>1, <3>1, <3>2 DEF Reclassified, RunState
      <4> QED
        BY <4>1
    <3>3. CASE NeedAgent(r)
      <4>1. CASE rca' = [ rca EXCEPT ![r].at = "prefetch" ]
        <5>1. rca' = [ rca EXCEPT ![r] = [ rca[r] EXCEPT !.at = "prefetch" ] ]
              /\ [ rca[r] EXCEPT !.at = "prefetch" ].at = "prefetch"
          BY <1>1, <3>1, <4>1 DEF RunState
        <5> QED
          BY <5>1
      <4>2. CASE rca' = [ rca EXCEPT ![r] = Raised ]
        BY <4>2 DEF Raised, State
      <4> QED
        BY <3>3, <4>1, <4>2 DEF NeedAgent
    <3>4. CASE Prefetched(r)
      <4>1. PICK xml \in { "none", "xml" } : rca' = [ rca EXCEPT ![r].at = "ask", ![r].raw = xml ]
        BY <3>4 DEF Prefetched
      <4> DEFINE asked == [ rca[r] EXCEPT !.at = "ask" ]
                 x     == [ asked EXCEPT !.raw = xml ]
      <4>2. asked \in RunState /\ asked.at = "ask"
        BY <3>1 DEF RunState
      <4>3. x.at = "ask"
        BY <4>2 DEF RunState
      <4>4. rca' = [ rca EXCEPT ![r] = x ]
        BY <1>1, <4>1
      <4> HIDE DEF x
      <4> QED
        BY <4>3, <4>4
    <3>5. CASE AttemptFails(r)
      <4>1. CASE rca' = [ rca EXCEPT ![r].attempt = NextAttempt(rca[r].attempt) ]
        <5> DEFINE x == [ rca[r] EXCEPT !.attempt = NextAttempt(rca[r].attempt) ]
        <5>1. rca' = [ rca EXCEPT ![r] = x ]
          BY <1>1, <4>1
        <5>2. x.at = "ask"
          BY <3>1, <3>5 DEF AttemptFails, RunState
        <5> HIDE DEF x
        <5> QED
          BY <5>1, <5>2
      <4>2. ASSUME NEW conf, rca' = [ rca EXCEPT ![r] = Returned("none", {}, conf) ]
            PROVE  \E x : x.at # "idle" /\ rca' = [ rca EXCEPT ![r] = x ]
        <5>1. Returned("none", {}, conf).at = "returned"
          BY DEF Returned, State
        <5> QED
          BY <4>2, <5>1
      <4> QED
        BY <3>5, <4>1, <4>2 DEF AttemptFails
    <3>6. CASE Unusable(r)
      BY <3>6 DEF Unusable, Raised, State
    <3> QED
      BY <1>5, <3>2, <3>3, <3>4, <3>5, <3>6
  <2> QED
    BY <2>1, <2>2, RunStays
<1>6. ASSUME NEW r \in Run, NEW conf \in LlmConfidence, NEW fixes \in Answers, Answered(r, conf, fixes)
      PROVE  Begun'
  <2>1. UNCHANGED << agentReady, began, notesOf >>
    BY <1>6 DEF Answered
  <2>2. \/ \E raw, b, f : rca' = [ rca EXCEPT ![r] = State("correct", raw, 0, b, f) ]
        \/ \E raw, b, f : rca' = [ rca EXCEPT ![r] = Returned(raw, f, b) ]
    BY <1>6 DEF Answered
  <2>3. \E x : x.at # "idle" /\ rca' = [ rca EXCEPT ![r] = x ]
    <3>1. \A raw, b, f : State("correct", raw, 0, b, f).at # "idle" /\ Returned(raw, f, b).at # "idle"
      BY DEF State, Returned
    <3> QED
      BY <2>2, <3>1
  <2> QED
    BY <1>1, <2>1, <2>3, RunStays
<1>7. ASSUME NEW r \in Run, NEW conf \in LlmConfidence, NEW fixes \in Answers,
             NotCorrected(r) \/ Corrected(r, conf, fixes)
      PROVE  Begun'
  BY <1>7, ConcludedStays DEF NotCorrected, Corrected
<1>8. ASSUME NEW r \in Run, NotCorrected(r)
      PROVE  Begun'
  BY <1>8, ConcludedStays DEF NotCorrected
<1> QED
  BY <1>2, <1>3, <1>4, <1>5, <1>6, <1>7, <1>8 DEF RcaNext, AwaitEnds

LEMMA RcaTyping ==
  ASSUME RInv, Begun
  PROVE  RcaTypeOK
<1>1. began \in Seq(Run) /\ IsInjective(began)
  BY DEF RInv, Begun
<1>2. ToSet(began) \subseteq Run
  BY <1>1 DEF ToSet
<1>3. Cardinality(ToSet(began)) = Len(began)
  BY <1>1, Elements
<1>4. Len(began) <= Cardinality(Run)
  BY <1>2, <1>3, RcaConstants, FewerInSubset
<1> QED
  BY <1>1, <1>4 DEF RInv, Begun, RcaTypeOK, RunState

LEMMA LoadTyping ==
  ASSUME LoadInv
  PROVE  LoadTypeOK
  BY DEF LoadInv, LoadTypes, LoadState, Publishing, LoadTypeOK

LEMMA MigrationTyping ==
  ASSUME MigrationInv
  PROVE  MigrationTypeOK
  BY DEF MigrationInv, MigrationTypes, JobState, TargetState, MigrationTypeOK

DiagnosisInv ==
    /\ RInv /\ Begun
    /\ ValidatorInv
    /\ PatternInv /\ Budget
    /\ LoadInv
    /\ MigrationInv

LEMMA DiagnosisInit ==
  ASSUME Init
  PROVE  DiagnosisInv
<1>1. RcaInit /\ ValidatorInit /\ PatternInit /\ LoadInit /\ MigrationInit
  BY DEF Init
<1>2. Begun
  BY <1>1 DEF RcaInit, Begun, IsInjective
<1> QED
  BY <1>1, <1>2, RcaInitInv, ValidatorInitInv, PatternInitInv, BudgetInit, LoadInitInv, MigrationInitInv
     DEF DiagnosisInv

\* A step of the whole is a step of each part, or leaves it alone.
LEMMA EachSteps ==
  ASSUME [Next]_vars
  PROVE  /\ [RcaNext]_rcaVars /\ [ValidatorNext]_validatorVars /\ [PatternNext]_patternVars
         /\ [LoadNext]_loadVars /\ [MigrationNext]_migrationVars
<1>1. CASE UNCHANGED vars
  BY <1>1 DEF vars
<1>2. CASE Next
  BY <1>2 DEF Next
<1> QED
  BY <1>1, <1>2

LEMMA DiagnosisInductive ==
  ASSUME DiagnosisInv, [Next]_vars
  PROVE  DiagnosisInv'
<1>1. RInv' /\ Begun'
  BY EachSteps, RcaInductive, BegunInductive DEF DiagnosisInv
<1>2. ValidatorInv'
  BY EachSteps, ValidatorInductive DEF DiagnosisInv
<1>3. PatternInv' /\ Budget'
  BY EachSteps, PatternInductive, BudgetInductive DEF DiagnosisInv
<1>4. LoadInv' /\ MigrationInv'
  BY EachSteps, LoadInductive, MigrationInductive DEF DiagnosisInv
<1> QED
  BY <1>1, <1>2, <1>3, <1>4 DEF DiagnosisInv

LEMMA DiagnosisAlways == Spec => []DiagnosisInv
<1>1. Init => DiagnosisInv
  BY DiagnosisInit
<1>2. DiagnosisInv /\ [Next]_vars => DiagnosisInv'
  BY DiagnosisInductive
<1> QED
  BY <1>1, <1>2, PTL DEF Spec

\* Every part keeps its variables in their types, whichever of them runs: a diagnosis
\* begins once, a fix pattern never counts more than was recorded, and neither a page nor a
\* retry leaves its bound.
THEOREM DiagnosisTyped == Spec => []TypeOK
<1>1. DiagnosisInv => TypeOK
  BY RcaTyping, PatternTyping, LoadTyping, MigrationTyping DEF DiagnosisInv, TypeOK, ValidatorInv
<1> QED
  BY <1>1, DiagnosisAlways, PTL

\* The invariants of the single parts hold of the whole.
THEOREM DiagnosisSafe ==
  Spec => [](DoubtIsCapped /\ NotesAreOwn /\ ComparedWithOwn /\ PatternsAddUp /\ LoadIsComplete /\ CopyIsComplete)
<1>1. RInv => DoubtIsCapped /\ NotesAreOwn
  BY DEF RInv, Doubtful, DoubtIsCapped
<1>2. DiagnosisInv => DoubtIsCapped /\ NotesAreOwn /\ ComparedWithOwn /\ PatternsAddUp /\ LoadIsComplete /\ CopyIsComplete
  BY <1>1, InvAddsUp, InvIsComplete DEF DiagnosisInv, ValidatorInv, MigrationInv
<1> QED
  BY <1>2, DiagnosisAlways, PTL

\* Nor does any step of the whole let a document into SAP CPI that is worse than the original.
THEOREM DiagnosisNoWorse == Spec => AcceptedIsNoWorse
<1>1. Init => ValidatorInit
  BY DEF Init
<1>2. [Next]_vars => [ValidatorNext]_validatorVars
  BY EachSteps
<1>3. Spec => ValidatorSpec
  BY <1>1, <1>2, PTL DEF Spec, ValidatorSpec
<1> QED
  BY <1>3, NoWorse
=============================================================================
