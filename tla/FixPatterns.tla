----------------------------- MODULE FixPatterns -----------------------------
(***************************************************************************)
(* EM_FIX_PATTERNS for one error signature: upsert_fix_pattern, called at  *)
(* the end of a fix, by the ITSM poller and, in a thread of its own, by    *)
(* the fix agent's record_fix_outcome tool, reads the signature's rows and *)
(* then updates one or inserts one.                                        *)
(***************************************************************************)
EXTENDS Integers, Sequences, FiniteSets, FiniteSetsExt

CONSTANTS
    Recorder,       \* callers of upsert_fix_pattern
    FixText,        \* fix_applied
    Strategy,       \* supervisor_strategy, NoStrategy when the caller has none
    NoStrategy,
    MaxRecords      \* bound on calls

ASSUME PatternConstants == FixText # {} /\ MaxRecords \in Nat

VARIABLES
    patterns,       \* the rows, in the order of insertion
    recorder,       \* [at, fix, outcome, fixes, strategy, row, whole: the full SELECT worked]
    \* history
    recorded,       \* recorded[x]: calls that wrote fix x
    succeeded,      \* succeeded[x]: those of them that were successes
    calls,
    crossed         \* two calls have overlapped

patternVars == << patterns, recorder, recorded, succeeded, calls, crossed >>

Outcome == { "SUCCESS", "PARTIAL", "FAILED" }

Patterns == [ fix : FixText, applied : 1 .. MaxRecords, success : 0 .. MaxRecords, outcome : Outcome,
              fixes : BOOLEAN, strategy : Strategy \union {NoStrategy}, counted : BOOLEAN ]

IdleRecorder == [ at |-> "idle", fix |-> CHOOSE x \in FixText : TRUE, outcome |-> "FAILED", fixes |-> FALSE,
                  strategy |-> NoStrategy, row |-> 0,
                  seen |-> [applied |-> 0, success |-> 0, fixes |-> FALSE], whole |-> TRUE ]

PatternTypeOK ==
    /\ patterns \in Seq(Patterns) /\ Len(patterns) <= MaxRecords
    /\ recorder \in [Recorder -> [ at : { "idle", "read" }, fix : FixText, outcome : Outcome, fixes : BOOLEAN,
                                   strategy : Strategy \union {NoStrategy}, row : 0 .. MaxRecords,
                                   seen : [applied : 0 .. MaxRecords, success : 0 .. MaxRecords,
                                           fixes : BOOLEAN], whole : BOOLEAN ]]
    /\ recorded \in [FixText -> 0 .. MaxRecords] /\ succeeded \in [FixText -> 0 .. MaxRecords]
    /\ calls \in 0 .. MaxRecords
    /\ crossed \in BOOLEAN

PatternInit ==
    /\ patterns = << >>
    /\ recorder = [r \in Recorder |-> IdleRecorder]
    /\ recorded = [x \in FixText |-> 0]
    /\ succeeded = [x \in FixText |-> 0]
    /\ calls = 0
    /\ crossed = FALSE

RowsOf(x) == { n \in 1 .. Len(patterns) : patterns[n].fix = x }

\* The SELECT, of the signature's rows with all columns or, when that fails, without the
\* counters: the row whose fix is the same, if there is one.  Only a success brings fixes.
ReadPatterns(r) ==
    /\ recorder[r].at = "idle"
    /\ calls < MaxRecords
    /\ calls' = calls + 1
    /\ crossed' = (crossed \/ \E q \in Recorder : recorder[q].at = "read")
    /\ \E x \in FixText, o \in Outcome, s \in Strategy \union {NoStrategy}, j \in BOOLEAN, w \in BOOLEAN :
          /\ j => o = "SUCCESS"
          /\ LET row == IF RowsOf(x) = {} THEN 0 ELSE Min(RowsOf(x))
             IN  recorder' = [ recorder EXCEPT ![r] =
                     [ at |-> "read", fix |-> x, outcome |-> o, fixes |-> j, strategy |-> s, row |-> row,
                       seen |-> IF row = 0 THEN IdleRecorder.seen
                                ELSE [applied |-> patterns[row].applied, success |-> patterns[row].success,
                                      fixes |-> patterns[row].fixes],
                       whole |-> w ] ]
    /\ UNCHANGED << patterns, recorded, succeeded >>

\* Mutated form: a partial success is one.
Scored_Half(outcome) == IF outcome \in { "SUCCESS", "PARTIAL" } THEN 1 ELSE 0

Scored(outcome) == IF outcome = "SUCCESS" THEN 1 ELSE 0

\* UPDATE and INSERT with all columns; without fixes and steps of its own a call writes
\* back those it has read.
Updated(row, c) ==
    [ row EXCEPT !.applied = c.seen.applied + 1, !.outcome = c.outcome,
                 !.success = c.seen.success + Scored(c.outcome),
                 !.fixes = c.seen.fixes \/ c.fixes, !.strategy = c.strategy ]

Inserted(c) ==
    [ fix |-> c.fix, applied |-> 1, success |-> Scored(c.outcome), outcome |-> c.outcome,
      fixes |-> c.fixes, strategy |-> c.strategy, counted |-> TRUE ]

\* The same without the counters.
UpdatedBare(row, c)  == [ row EXCEPT !.applied = c.seen.applied + 1, !.outcome = c.outcome, !.counted = FALSE ]
InsertedBare(c)      == [ Inserted(c) EXCEPT !.success = 0, !.fixes = FALSE, !.strategy = NoStrategy, !.counted = FALSE ]

WritePattern(r) ==
    LET c == recorder[r]
    IN  /\ c.at = "read"
        /\ patterns' =
              IF c.row = 0 THEN Append(patterns, IF c.whole THEN Inserted(c) ELSE InsertedBare(c))
              ELSE [ patterns EXCEPT ![c.row] = IF c.whole THEN Updated(@, c) ELSE UpdatedBare(@, c) ]
        /\ recorded' = [ recorded EXCEPT ![c.fix] = @ + 1 ]
        /\ succeeded' = [ succeeded EXCEPT ![c.fix] = @ + (IF c.outcome = "SUCCESS" THEN 1 ELSE 0) ]
        /\ recorder' = [ recorder EXCEPT ![r] = IdleRecorder ]
        /\ UNCHANGED << calls, crossed >>

\* Any statement fails: logged, nothing is written.
RecordFails(r) ==
    /\ recorder[r].at = "read"
    /\ recorder' = [ recorder EXCEPT ![r] = IdleRecorder ]
    /\ UNCHANGED << patterns, recorded, succeeded, calls, crossed >>

PatternNext == \E r \in Recorder : ReadPatterns(r) \/ WritePattern(r) \/ RecordFails(r)

PatternSpec == PatternInit /\ [][PatternNext]_patternVars

-----------------------------------------------------------------------------
(* Readers *)

\* get_similar_patterns: what an RCA or a fix is offered is what worked the last time.
Offered == { n \in 1 .. Len(patterns) : patterns[n].outcome = "SUCCESS" }

\* get_patterns_by_error_type: what is offered for other iFlows has worked once.
OfferedToOthers == { n \in 1 .. Len(patterns) : patterns[n].success >= 1 }

\* A pattern never claims more successes than it had, nor more than it was applied, unless
\* a write without the counters, late and so with too few applications, left the successes
\* of the calls it overlapped; its fixes are those of a success; what is offered has
\* worked.  When no two calls overlap, each fix has one row that counts all its
\* applications.
PatternsAddUp ==
    /\ \A n \in 1 .. Len(patterns) :
          /\ (patterns[n].counted \/ ~crossed) => patterns[n].success <= patterns[n].applied
          /\ patterns[n].success <= succeeded[patterns[n].fix]
          /\ patterns[n].applied <= recorded[patterns[n].fix]
          /\ patterns[n].fixes => succeeded[patterns[n].fix] > 0
    /\ \A n \in Offered : patterns[n].counted => n \in OfferedToOthers
    /\ ~crossed => \A x \in FixText :
          /\ Cardinality(RowsOf(x)) <= 1
          /\ \A n \in RowsOf(x) : patterns[n].applied = recorded[x]
=============================================================================
