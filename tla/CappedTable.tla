----------------------------- MODULE CappedTable -----------------------------
(***************************************************************************)
(* The two tables in memory with a lifetime and a capacity: FIX_PROGRESS   *)
(* (entries written while a fix runs, trimmed by writers and readers) and  *)
(* the chat memory (trimmed before a session is written).  Both drop       *)
(* expired entries first and then the oldest ones beyond the capacity.     *)
(***************************************************************************)
EXTENDS Integers, FiniteSets

CONSTANTS
    Entry,          \* incidents or sessions
    Capacity,       \* MAX_FIX_PROGRESS_ENTRIES, MAX_MEMORY_SESSIONS
    EntryTtl,       \* FIX_PROGRESS_TTL_SECONDS, MEMORY_SESSION_TTL_SECONDS
    TableTime       \* bound on time

ASSUME TableConstants == Capacity \in Nat /\ EntryTtl \in Nat /\ TableTime \in Nat

VARIABLES
    tableTime,
    entries         \* when an entry was last written, -1 if it is not in the table

tableVars == << tableTime, entries >>

TableTypeOK == tableTime \in 0 .. TableTime /\ entries \in [Entry -> -1 .. TableTime]

TableInit == tableTime = 0 /\ entries = [e \in Entry |-> -1]

Present(t) == { e \in Entry : t[e] >= 0 }

Unexpired(t) == [ e \in Entry |-> IF tableTime - t[e] > EntryTtl THEN -1 ELSE t[e] ]

Excess(t) == Cardinality(Present(t)) - Capacity

\* Mutated form: the newest entries make room.
MakesRoom_Newest(t, D) ==
    Cardinality(D) = Excess(t) /\ \A d \in D, e \in Present(t) \ D : t[d] >= t[e]

\* The oldest entries make room, as many as there are too many.
MakesRoom(t, D) ==
    Cardinality(D) = Excess(t) /\ \A d \in D, e \in Present(t) \ D : t[d] <= t[e]

\* cleanup_fix_progress, cleanup_memory: the tables they may leave behind (entries of the
\* same age are dropped in any order).
Trimmed(t) ==
    IF Excess(t) <= 0 THEN {t}
    ELSE { [ e \in Entry |-> IF e \in D THEN -1 ELSE t[e] ] :
               D \in { C \in SUBSET Present(t) : MakesRoom(t, C) } }

TableTick ==
    /\ tableTime < TableTime /\ tableTime' = tableTime + 1
    /\ UNCHANGED entries

\* get_fix_progress, cleanup before a chat query: trimmed, and nothing written.
Look == entries' \in Trimmed(Unexpired(entries)) /\ UNCHANGED tableTime

\* _set_progress, update_memory: trimmed first, then written, so the table may hold one
\* entry more than its capacity.
Write(e) ==
    /\ \E t \in Trimmed(Unexpired(entries)) : entries' = [ t EXCEPT ![e] = tableTime ]
    /\ UNCHANGED tableTime

TableNext == TableTick \/ Look \/ \E e \in Entry : Write(e)

TableSpec == TableInit /\ [][TableNext]_tableVars

-----------------------------------------------------------------------------
\* The table never holds more than one entry beyond its capacity, and an entry that has
\* not expired is dropped only for a full table of entries that are no older: a fix in
\* progress keeps its entry while it is among the newest ones.
TableKeepsNewest ==
    [][ /\ Cardinality(Present(entries')) <= Capacity + 1
        /\ \A e \in Present(entries) \ Present(entries') :
              \/ tableTime - entries[e] > EntryTtl
              \/ Cardinality({ f \in Entry \ {e} : entries[f] >= entries[e] }) >= Capacity ]_tableVars
=============================================================================
