------------------------------- MODULE RcaRun -------------------------------
(***************************************************************************)
(* RCAAgent.run_rca: what one diagnosis does between two awaits, several   *)
(* of them at a time on one agent.  The LLM's answer is a confidence and   *)
(* the kinds of its property fixes:                                        *)
(*    "exact"     the current value is given and is in the iFlow           *)
(*    "invented"  the current value is given and is not in the iFlow       *)
(*    "blank"     no current value                                         *)
(*    "inferred"  no correct value, seeded from the error type             *)
(* Confidences are in percent.                                             *)
(***************************************************************************)
EXTENDS Integers, Sequences, FiniteSets

CONSTANTS
    Run,            \* diagnoses, each of one incident
    NoRun,
    LlmConfidence,  \* confidences an LLM answers with
    RuleConfidence, \* confidences of the rule classifier, the floor
    Answers         \* kinds of fixes in an answer: a set of sets of kinds

VARIABLES
    agentReady,     \* self._agent or self._mcp.agent is there
    current,        \* the run whose _current_error_type and _current_iflow_id the agent holds
    rca,            \* each run's local state
    \* history
    began,          \* runs in the order they set `current`
    notesOf         \* notesOf[r]: runs for whose error r was shown notes

rcaVars == << agentReady, current, rca, began, notesOf >>

Boost    == 10
Top      == 95
CapAt    == 75
Fallback == 65
Attempts == 3

FixKind == { "exact", "invented", "blank", "inferred" }

\* Confidences are percentages, the kinds of fixes are these, and an agent is asked a
\* finite number of times.
ASSUME RcaConstants ==
    /\ IsFiniteSet(Run) /\ NoRun \notin Run
    /\ LlmConfidence \union RuleConfidence \subseteq Nat
    /\ Answers \subseteq SUBSET FixKind

\* A run's local state, on its first attempt.
State(at, raw, rule, conf, fixes) ==
    [ at |-> at, attempt |-> 1, raw |-> raw, rule |-> rule, conf |-> conf, fixes |-> fixes ]

IdleRca == State("idle", "none", 0, 0, {})
Raised  == State("raised", "none", 0, 0, {})

RcaTypeOK ==
    /\ agentReady \in BOOLEAN
    /\ current \in Run \union {NoRun}
    /\ rca \in [Run -> [ at : { "idle", "reclassify", "agent", "prefetch", "ask", "correct", "returned", "raised" },
                         attempt : 1 .. Attempts, raw : { "none", "xml", "error" }, rule : RuleConfidence \union {0},
                         conf : Nat, fixes : SUBSET FixKind ]]
    /\ began \in Seq(Run) /\ Len(began) <= Cardinality(Run)
    /\ notesOf \in [Run -> SUBSET Run]

RcaInit ==
    /\ agentReady \in BOOLEAN
    /\ current = NoRun
    /\ rca = [r \in Run |-> IdleRca]
    /\ began = << >>
    /\ notesOf = [r \in Run |-> {}]

Lesser(a, b)  == IF a < b THEN a ELSE b
Greater(a, b) == IF a < b THEN b ELSE a

-----------------------------------------------------------------------------
(* The answer *)

\* get_all_fixes drops entries without a correct value, so only a seeded one lacks it.
Complete(fixes) == fixes # {} /\ fixes \intersect { "blank", "inferred" } = {}

Mismatched(fixes) == "invented" \in fixes

\* The rule classifier's confidence is the least.
Floored(r, conf) == Greater(conf, rca[r].rule)

\* A complete list of fixes adds a tenth, up to Top; it never takes away.
Boosted(conf, fixes) ==
    IF Complete(fixes) THEN Greater(conf, Lesser(conf + Boost, Top)) ELSE conf

\* Mutated form: the mismatch is logged and the confidence stays.
Capped_Logged(conf) == conf

\* "Cap confidence so the mismatched fixes don't auto-deploy without LLM review."
Capped(conf) == Lesser(conf, CapAt)

\* _extract_prop_from_xml finds a property only in a text that is the iFlow.
Searchable(raw) == raw = "xml"

\* It fills blank values in, those that the iFlow has: every
\* outcome between none and all of them.  With no fixes at all one may be seeded.
FilledIn(fixes, raw) ==
    IF ~Searchable(raw) THEN {fixes}
    ELSE IF fixes = {} THEN { {}, {"inferred"} }
    ELSE IF "blank" \in fixes THEN { fixes, fixes \union {"exact"}, (fixes \ {"blank"}) \union {"exact"} }
    ELSE {fixes}

\* What a run returns, with the text its values were checked against.
Returned(raw, fixes, conf) == State("returned", raw, 0, conf, fixes)

\* What run_rca does with the fixes and the confidence it ended up with.
Concluded(r, fixes, conf) ==
    \E filled \in FilledIn(fixes, rca[r].raw) :
        rca' = [ rca EXCEPT ![r] = Returned(rca[r].raw, filled, Boosted(conf, filled)) ]

-----------------------------------------------------------------------------
(* Steps *)

\* Mutated form: the fields keep what the first run set.
Shared_Once(r) == IF current = NoRun THEN r ELSE current

\* Every run overwrites the agent's fields.
Shared(r) == r

\* run_rca begins: an unknown error is classified again first.
BeginRca(r, rule) ==
    /\ rca[r].at = "idle"
    /\ current' = Shared(r)
    /\ began' = Append(began, r)
    /\ \E at \in { "agent", "reclassify" } :
          rca' = [ rca EXCEPT ![r] = State(at, "none", rule, 0, {}) ]
    /\ UNCHANGED << agentReady, notesOf >>

\* reclassify_with_llm has answered, or failed: the type changes, the fields do not.
Reclassified(r) ==
    /\ rca[r].at = "reclassify"
    /\ rca' = [ rca EXCEPT ![r].at = "agent" ]
    /\ UNCHANGED << agentReady, current, began, notesOf >>

\* Without an agent one is built; when that fails run_rca raises.
NeedAgent(r) ==
    /\ rca[r].at = "agent"
    /\ \/ rca' = [ rca EXCEPT ![r].at = "prefetch" ] /\ agentReady' = TRUE
       \/ ~agentReady /\ rca' = [ rca EXCEPT ![r] = Raised ] /\ UNCHANGED agentReady
    /\ UNCHANGED << current, began, notesOf >>

\* Six lookups at a time, none of whose failures matters: the iFlow is there or not.
Prefetched(r) ==
    /\ rca[r].at = "prefetch"
    /\ \E xml \in { "none", "xml" } :
          rca' = [ rca EXCEPT ![r].at = "ask", ![r].raw = xml ]
    /\ UNCHANGED << agentReady, current, began, notesOf >>

\* The agent uses get_vector_store_notes: the tool reads the agent's fields, not the run's.
ReadNotes(r) ==
    /\ rca[r].at \in { "ask", "correct" }
    /\ notesOf' = [ notesOf EXCEPT ![r] = @ \union {current} ]
    /\ UNCHANGED << agentReady, current, rca, began >>

\* Mutated form: a retry does not count.
NextAttempt_Same(n) == n

NextAttempt(n) == n + 1

\* An attempt times out or fails: two more, then the last one's kind decides between the
\* classifier's fallback and nothing at all.
AttemptFails(r) ==
    /\ rca[r].at = "ask"
    /\ \/ /\ rca[r].attempt < Attempts
          /\ rca' = [ rca EXCEPT ![r].attempt = NextAttempt(@) ]
       \/ /\ rca[r].attempt = Attempts
          /\ \E conf \in { Lesser(rca[r].rule, Fallback), 0 } :
                rca' = [ rca EXCEPT ![r] = Returned("none", {}, conf) ]
    /\ UNCHANGED << agentReady, current, began, notesOf >>

\* The answer is not an object, or its confidence not a number: outside the try.
Unusable(r) ==
    /\ rca[r].at = "ask"
    /\ rca' = [ rca EXCEPT ![r] = Raised ]
    /\ UNCHANGED << agentReady, current, began, notesOf >>

\* What the values are checked against: the output of the agent's own first get-iflow,
\* which may be an error text that contains none of them, or what was fetched before.
RawOf(r) == { rca[r].raw, "xml", "error" }

\* Values are checked only when there is a text to find them in.
FixesSeen(fixes, raw) == IF raw = "error" /\ "exact" \in fixes THEN fixes \union {"invented"} ELSE fixes

\* The answer arrives: floor, boost, and the check of the values, which caps the
\* confidence and asks once more.
Answered(r, conf, fixes) ==
    /\ rca[r].at = "ask"
    /\ LET boosted == Boosted(Floored(r, conf), fixes)
       IN  \E raw \in RawOf(r) :
             IF raw # "none" /\ Mismatched(FixesSeen(fixes, raw))
             THEN rca' = [ rca EXCEPT ![r] = State("correct", raw, 0, Capped(boosted), FixesSeen(fixes, raw)) ]
             ELSE \E filled \in FilledIn(fixes, raw) :
                    rca' = [ rca EXCEPT ![r] = Returned(raw, filled, Boosted(boosted, filled)) ]
    /\ UNCHANGED << agentReady, current, began, notesOf >>

\* The correction: taken over when none of its values is missing from the iFlow; with a
\* confidence that is null the fixes are taken over and the confidence is not.
Corrected(r, conf, fixes) ==
    /\ rca[r].at = "correct"
    /\ ~Mismatched(FixesSeen(fixes, rca[r].raw))
    /\ Concluded(r, fixes, Lesser(conf, Top)) \/ Concluded(r, fixes, rca[r].conf)
    /\ UNCHANGED << agentReady, current, began, notesOf >>

\* The correction fails, times out, or is no better.
NotCorrected(r) ==
    /\ rca[r].at = "correct"
    /\ Concluded(r, rca[r].fixes, rca[r].conf)
    /\ UNCHANGED << agentReady, current, began, notesOf >>

\* How each await ends at the latest.
AwaitEnds(r) == Reclassified(r) \/ NeedAgent(r) \/ Prefetched(r) \/ AttemptFails(r) \/ NotCorrected(r)

RcaNext ==
    \E r \in Run :
        \/ \E rule \in RuleConfidence : BeginRca(r, rule)
        \/ ReadNotes(r) \/ AwaitEnds(r) \/ Unusable(r)
        \/ \E conf \in LlmConfidence : \E fixes \in Answers : Answered(r, conf, fixes) \/ Corrected(r, conf, fixes)

RcaSpec == RcaInit /\ [][RcaNext]_rcaVars

-----------------------------------------------------------------------------
(* Properties *)

\* A diagnosis that still names values the iFlow does not have is returned with at most
\* one boost over the cap, however sure the LLM was: the second boost, after the values
\* were filled in, asks only whether every entry has both values.
DoubtIsCapped ==
    \A r \in Run :
        rca[r].at = "returned" /\ rca[r].raw # "none" /\ Mismatched(rca[r].fixes)
            => rca[r].conf <= CapAt + Boost

\* A run is shown notes for the error of another one only if that one began after it.
NotesAreOwn ==
    \A r \in Run : \A q \in notesOf[r] \ {r} :
        \E i, j \in 1 .. Len(began) : i < j /\ began[i] = r /\ began[j] = q

\* Every diagnosis that was begun ends.
RcaEnds == \A r \in Run : (rca[r].at # "idle") ~> (rca[r].at \in { "returned", "raised" })
=============================================================================
