--------------------------- MODULE TableMigration ---------------------------
(***************************************************************************)
(* scripts/migrate_hana_table.py: the table of the help documents that the *)
(* diagnoses search is copied to another instance, in batches, each a      *)
(* transaction with retries.  The script may be run again after it was     *)
(* aborted, and the source may change under it.                            *)
(***************************************************************************)
EXTENDS Integers, FiniteSets

CONSTANTS
    Id,             \* primary keys, natural numbers
    SourceIds,      \* those the source holds at first
    TargetIds,      \* those the target holds at first
    BatchSize,
    MaxRetries,
    MaxRuns,        \* bound on runs of the script
    MaxFaults       \* bound on failing statements and on changes of the source

ASSUME MigrationConstants ==
    /\ Id \subseteq Nat /\ IsFiniteSet(Id)
    /\ SourceIds \subseteq Id /\ TargetIds \subseteq Id
    /\ BatchSize \in Nat \ {0} /\ MaxRetries \in Nat \ {0} /\ MaxRuns \in Nat \ {0} /\ MaxFaults \in Nat

VARIABLES
    source,
    target,         \* [exists, rows: committed, open: written in the open transaction]
    job,            \* [at, mode, total, rows: what the cursor will give, batch, attempt, runs]
    faults,
    \* history
    copied          \* what the SELECT of this run found

migrationVars == << source, target, job, faults, copied >>

MigrationTypeOK ==
    /\ source \subseteq Id
    /\ target \in [ exists : BOOLEAN, rows : SUBSET Id, open : SUBSET Id ]
    /\ job.at \in { "prepare", "count", "select", "batch", "insert", "backoff", "validate", "done", "aborted" }
    /\ job.mode \in { "overwrite", "append" }
    /\ job.total \in 0 .. Cardinality(Id)
    /\ job.rows \subseteq Id /\ job.batch \subseteq Id
    /\ job.attempt \in 1 .. MaxRetries /\ job.runs \in 1 .. MaxRuns
    /\ faults \in 0 .. MaxFaults
    /\ copied \subseteq Id

NewJob(mode, run) == [ at |-> "prepare", mode |-> mode, total |-> 0, rows |-> {}, batch |-> {},
                       attempt |-> 1, runs |-> run ]

MigrationInit ==
    /\ source = SourceIds
    /\ target = [ exists |-> TargetIds # {}, rows |-> TargetIds, open |-> {} ]
    /\ \E mode \in { "overwrite", "append" } : job = NewJob(mode, 1)
    /\ faults = MaxFaults
    /\ copied = {}

Fault == faults > 0 /\ faults' = faults - 1

\* Closing the connection takes the open transaction back.
Aborted ==
    /\ job' = [ job EXCEPT !.at = "aborted" ]
    /\ target' = [ target EXCEPT !.open = {} ]

\* prepare_target_table: DROP and CREATE are committed one after the other.
PrepareTarget ==
    /\ job.at = "prepare"
    /\ \/ /\ job.mode = "overwrite" /\ target.exists
          /\ target' = [ target EXCEPT !.exists = FALSE, !.rows = {} ]
          /\ UNCHANGED job
       \/ /\ ~target.exists
          /\ target' = [ target EXCEPT !.exists = TRUE, !.rows = {} ]
          /\ job' = [ job EXCEPT !.at = "count" ]
       \/ /\ job.mode = "append" /\ target.exists
          /\ job' = [ job EXCEPT !.at = "count" ]
          /\ UNCHANGED target
    /\ UNCHANGED << source, faults, copied >>

\* The number of rows; an empty source ends the run.
CountSource ==
    /\ job.at = "count"
    /\ job' = [ job EXCEPT !.at = IF source = {} THEN "done" ELSE "select", !.total = Cardinality(source) ]
    /\ copied' = {}
    /\ UNCHANGED << source, target, faults >>

\* The rows, ordered by ID, in a statement of its own.
SelectRows ==
    /\ job.at = "select"
    /\ copied' = source
    /\ job' = [ job EXCEPT !.at = "batch", !.rows = source ]
    /\ UNCHANGED << source, target, faults >>

\* The next n rows, in the order of their keys.
First(rows, n) == { b \in SUBSET rows : Cardinality(b) = n /\ \A i \in b, j \in rows \ b : i < j }

\* Mutated form: a batch that is not full is not written.
NextBatch_Full(rows) == IF Cardinality(rows) < BatchSize THEN {{}} ELSE First(rows, BatchSize)

\* The last batch may be short.
NextBatch(rows) == First(rows, IF Cardinality(rows) < BatchSize THEN Cardinality(rows) ELSE BatchSize)

TakeBatch ==
    /\ job.at = "batch"
    /\ \E batch \in NextBatch(job.rows) :
          job' = [ job EXCEPT !.at = IF batch = {} THEN "validate" ELSE "insert", !.attempt = 1, !.batch = batch,
                              !.rows = @ \ batch ]
    /\ UNCHANGED << source, target, faults, copied >>

\* executemany and commit succeed; a row that is there already is an error.
InsertBatch ==
    /\ job.at = "insert"
    /\ job.batch \intersect (target.rows \union target.open) = {}
    /\ target' = [ target EXCEPT !.rows = @ \union target.open \union job.batch, !.open = {} ]
    /\ job' = [ job EXCEPT !.at = "batch" ]
    /\ UNCHANGED << source, faults, copied >>

Again == IF job.attempt = MaxRetries THEN Aborted
         ELSE job' = [ job EXCEPT !.at = "backoff" ] /\ UNCHANGED target

\* A key is there already: in append mode, or after a commit whose answer was lost.
InsertConflicts ==
    /\ job.at = "insert"
    /\ job.batch \intersect (target.rows \union target.open) # {}
    /\ Again
    /\ UNCHANGED << source, faults, copied >>

\* The statement fails with some rows written, or the answer to the commit is lost.
InsertFails ==
    /\ job.at = "insert" /\ Fault
    /\ job.batch \intersect (target.rows \union target.open) = {}
    /\ \E written \in { target, [ target EXCEPT !.open = @ \union job.batch ],
                        [ target EXCEPT !.rows = @ \union target.open \union job.batch, !.open = {} ] } :
          IF job.attempt = MaxRetries
          THEN target' = [ written EXCEPT !.open = {} ] /\ job' = [ job EXCEPT !.at = "aborted" ]
          ELSE target' = written /\ job' = [ job EXCEPT !.at = "backoff" ]
    /\ UNCHANGED << source, copied >>

\* After the pause the failed write is rolled back; when that fails it is ignored.
RollBack ==
    /\ job.at = "backoff"
    /\ \/ target' = [ target EXCEPT !.open = {} ] /\ UNCHANGED faults
       \/ Fault /\ UNCHANGED target
    /\ job' = [ job EXCEPT !.at = "insert", !.attempt = @ + 1 ]
    /\ UNCHANGED << source, copied >>

\* Only an overwritten table is counted.
Validate ==
    /\ job.at = "validate"
    /\ job' = [ job EXCEPT !.at = IF job.mode = "append" \/ Cardinality(target.rows) = job.total THEN "done" ELSE "aborted" ]
    /\ UNCHANGED << source, target, faults, copied >>

\* The script dies, or any other statement fails.
MigrationCrashes ==
    /\ job.at \notin { "done", "aborted" } /\ Fault
    /\ Aborted
    /\ UNCHANGED << source, copied >>

\* Somebody starts it again.
RunAgain(mode) ==
    /\ job.at = "aborted" /\ job.runs < MaxRuns
    /\ job' = NewJob(mode, job.runs + 1)
    /\ UNCHANGED << source, target, faults, copied >>

\* The source is written meanwhile.
SourceChanges(i) ==
    /\ Fault
    /\ source' = IF i \in source THEN source \ {i} ELSE source \union {i}
    /\ UNCHANGED << target, job, copied >>

MigrationNext ==
    \/ PrepareTarget \/ CountSource \/ SelectRows \/ TakeBatch \/ InsertBatch \/ InsertConflicts
    \/ InsertFails \/ RollBack \/ Validate \/ MigrationCrashes
    \/ \E mode \in { "overwrite", "append" } : RunAgain(mode)
    \/ \E i \in Id : SourceChanges(i)

MigrationSpec == MigrationInit /\ [][MigrationNext]_migrationVars

-----------------------------------------------------------------------------
\* A run that ends well has copied every row its cursor was given, whatever failed and was
\* retried before, in append mode too, where nothing counts them; an overwritten table
\* holds nothing else, and nothing is left in an open transaction.
CopyIsComplete ==
    job.at = "done" =>
        /\ copied \subseteq target.rows
        /\ job.mode = "overwrite" => target.rows = copied
        /\ target.open = {}
=============================================================================
