-------------------------- MODULE DiagnosisServices --------------------------
(***************************************************************************)
(* What a diagnosis and a fix are made with, and the two scripts that fill *)
(* the pipeline and the store of help documents: modules that share no     *)
(* state.  A behaviour here is a behaviour of one of them, chosen at the   *)
(* start, as in BackgroundServices.                                        *)
(***************************************************************************)
EXTENDS RcaRun, IflowValidator, FixPatterns, BulkLoad, TableMigration

CONSTANT Parts      \* the modules to check

VARIABLE part       \* the one this behaviour is about

vars == << part, rcaVars, validatorVars, patternVars, loadVars, migrationVars >>

\* A module that is not checked stays in one of its initial states.
Idle(p, value, values) == part # p => value = CHOOSE v \in values : TRUE

Init ==
    /\ part \in Parts
    /\ RcaInit /\ Idle("rca", agentReady, BOOLEAN)
    /\ ValidatorInit
    /\ PatternInit
    /\ LoadInit /\ Idle("load", load.limit, Limits)
    /\ MigrationInit /\ Idle("migration", job.mode, { "overwrite", "append" })

Next ==
    /\ UNCHANGED part
    /\ \/ part = "rca" /\ RcaNext /\ UNCHANGED << validatorVars, patternVars, loadVars, migrationVars >>
       \/ part = "validator" /\ ValidatorNext /\ UNCHANGED << rcaVars, patternVars, loadVars, migrationVars >>
       \/ part = "patterns" /\ PatternNext /\ UNCHANGED << rcaVars, validatorVars, loadVars, migrationVars >>
       \/ part = "load" /\ LoadNext /\ UNCHANGED << rcaVars, validatorVars, patternVars, migrationVars >>
       \/ part = "migration" /\ MigrationNext /\ UNCHANGED << rcaVars, validatorVars, patternVars, loadVars >>

\* Every await of a diagnosis ends: an attempt and the correction by a timeout of their
\* own, the lookups by those of the clients.
Fairness ==
    \A r \in Run :
        WF_vars(part = "rca" /\ AwaitEnds(r) /\ UNCHANGED << part, validatorVars, patternVars, loadVars, migrationVars >>)

Spec == Init /\ [][Next]_vars /\ Fairness

-----------------------------------------------------------------------------
\* Each module keeps its variables in their types.
TypeOK ==
    /\ RcaTypeOK /\ ValidatorTypeOK /\ PatternTypeOK
    /\ LoadTypeOK /\ MigrationTypeOK
=============================================================================
