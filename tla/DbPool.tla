------------------------------- MODULE DbPool -------------------------------
(***************************************************************************)
(* The connection pool of db/database.py and the statements that use it,   *)
(* from the event loop and from the dashboard's threads.  A call site      *)
(* takes a connection, runs its statements and closes the connection,      *)
(* which puts it back; when a statement raises, the call site's except     *)
(* clause logs and returns, and nobody closes the connection.              *)
(***************************************************************************)
EXTENDS Integers, Sequences, FiniteSets

CONSTANTS
    DbUser,         \* the event loop and the threads of asyncio.to_thread
    PoolSize,       \* HANA_POOL_SIZE
    DbFaults        \* bound on failing statements and refused logons

ASSUME PoolConstants == PoolSize \in Nat /\ DbFaults \in Nat

VARIABLES
    pool,           \* _pool_queue: the state of each waiting connection, oldest first
    dbUser,         \* connection in use, or none
    dbFaults        \* failing statements and refused logons still to come

dbVars == << pool, dbUser, dbFaults >>

PoolTypeOK ==
    /\ pool \in Seq({ "up", "down" }) /\ Len(pool) <= PoolSize
    /\ dbUser \in [DbUser -> { "none", "up", "down" }]
    /\ dbFaults \in 0 .. DbFaults

\* _get_pool has opened the connections; while HANA refuses them there is no pool, every
\* call site fails and the next one starts over.
PoolInit ==
    /\ pool = [i \in 1 .. PoolSize |-> "up"]
    /\ dbUser = [u \in DbUser |-> "none"]
    /\ dbFaults = DbFaults

DbFault == dbFaults > 0 /\ dbFaults' = dbFaults - 1

\* get_connection: a broken connection is replaced; when that fails, the slot is lost.
Acquire(u) ==
    /\ dbUser[u] = "none" /\ pool # << >>
    /\ pool' = Tail(pool)
    /\ \/ dbUser' = [ dbUser EXCEPT ![u] = "up" ] /\ UNCHANGED dbFaults
       \/ Head(pool) = "down" /\ DbFault /\ UNCHANGED dbUser

\* A statement raises: the connection is not closed.
StatementRaises(u) ==
    /\ dbUser[u] # "none" /\ DbFault
    /\ dbUser' = [ dbUser EXCEPT ![u] = "none" ]
    /\ UNCHANGED pool

\* Mutated form: a broken connection is not put back, nor replaced.
CloseConnection_NoReplacement(u) ==
    /\ dbUser[u] # "none"
    /\ dbUser' = [ dbUser EXCEPT ![u] = "none" ]
    /\ pool' = IF dbUser[u] = "up" THEN Append(pool, "up") ELSE pool
    /\ UNCHANGED dbFaults

\* _PooledConnection.close: back to the queue, or a new one in its place.
CloseConnection(u) ==
    /\ dbUser[u] # "none"
    /\ dbUser' = [ dbUser EXCEPT ![u] = "none" ]
    /\ \/ pool' = Append(pool, "up") /\ UNCHANGED dbFaults
       \/ dbUser[u] = "down" /\ DbFault /\ UNCHANGED pool

Breaks ==
    /\ \/ \E i \in DOMAIN pool : pool' = [ pool EXCEPT ![i] = "down" ] /\ UNCHANGED dbUser
       \/ \E u \in DbUser : dbUser[u] = "up" /\ dbUser' = [ dbUser EXCEPT ![u] = "down" ] /\ UNCHANGED pool
    /\ UNCHANGED dbFaults

PoolNext == (\E u \in DbUser : Acquire(u) \/ StatementRaises(u) \/ CloseConnection(u)) \/ Breaks

PoolSpec == PoolInit /\ [][PoolNext]_dbVars

Held == { u \in DbUser : dbUser[u] # "none" }

-----------------------------------------------------------------------------
\* The queue and the users hold PoolSize connections, less at most one for each statement
\* that raised and each logon that was refused: a broken connection alone costs nothing,
\* and no connection is put back twice.  Nothing adds a lost one again, so PoolSize such
\* failures in the life of the process leave every caller waiting 30 seconds to fail.
PoolAccounts ==
    LET have == Len(pool) + Cardinality(Held) IN
    PoolSize - (DbFaults - dbFaults) <= have /\ have <= PoolSize
=============================================================================
