------------------------------ MODULE FixMutex ------------------------------
(***************************************************************************)
(* What the per-iFlow locks of the orchestrator promise, without a word    *)
(* about incidents: under every key at most one coroutine is inside, and a *)
(* newcomer does not overtake the ones that already wait.                  *)
(***************************************************************************)
CONSTANTS Task, Key

VARIABLES holders, waiters   \* [Key -> SUBSET Task]

Init == holders = [k \in Key |-> {}] /\ waiters = [k \in Key |-> {}]

Absent(t) == \A k \in Key : t \notin holders[k] \union waiters[k]

\* lock.acquire() of a free lock that nobody waits for.
Enter(t, k) ==
    /\ Absent(t)
    /\ holders[k] = {} /\ waiters[k] = {}
    /\ holders' = [holders EXCEPT ![k] = {t}]
    /\ UNCHANGED waiters

\* lock.acquire() has to wait.
Wait(t, k) ==
    /\ Absent(t)
    /\ holders[k] # {} \/ waiters[k] # {}
    /\ waiters' = [waiters EXCEPT ![k] = @ \union {t}]
    /\ UNCHANGED holders

Acquire(t, k) ==
    /\ t \in waiters[k]
    /\ holders[k] = {}
    /\ holders' = [holders EXCEPT ![k] = {t}]
    /\ waiters' = [waiters EXCEPT ![k] = @ \ {t}]

GiveUp(t, k) ==
    /\ t \in waiters[k]
    /\ waiters' = [waiters EXCEPT ![k] = @ \ {t}]
    /\ UNCHANGED holders

Leave(t, k) ==
    /\ t \in holders[k]
    /\ holders' = [holders EXCEPT ![k] = @ \ {t}]
    /\ UNCHANGED waiters

\* The locks live in the process and go with it.
Restart ==
    /\ holders' = [k \in Key |-> {}]
    /\ waiters' = [k \in Key |-> {}]

Next ==
    \/ \E t \in Task, k \in Key :
         Enter(t, k) \/ Wait(t, k) \/ Acquire(t, k) \/ GiveUp(t, k) \/ Leave(t, k)
    \/ Restart

Spec == Init /\ [][Next]_<< holders, waiters >>

\* At most one coroutine is inside under each key.
AtMostOne == \A k \in Key : \A t, u \in holders[k] : t = u
=============================================================================
