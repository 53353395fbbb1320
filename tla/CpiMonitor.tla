----------------------------- MODULE CpiMonitor -----------------------------
(***************************************************************************)
(* The monitor that asks CPI for failed messages and publishes each one to *)
(* Event Mesh: the background loop, the endpoint that runs another cycle   *)
(* at once, and the table of published messages that keeps a message from  *)
(* being published twice.                                                  *)
(***************************************************************************)
EXTENDS Integers, FiniteSets

CONSTANTS
    Guid,           \* messages that may fail
    NoGuid,         \* stands for no message
    Cycle,          \* "loop" and the requests of POST /cpi-monitor/trigger
    Window,         \* CPI_POLL_INTERVAL_SECONDS: length of the query's window and of the sleep
    Ttl,            \* _DEDUP_TTL
    PageSize,       \* $top
    MaxTime,        \* bound on time
    CpiConfigs      \* [faults, restarts: how many, cycles: the ones in use]

\* Times are natural numbers, and no message has the id that stands for none.
ASSUME CpiConstants ==
    /\ { Window, Ttl, MaxTime } \subseteq Nat /\ NoGuid \notin Guid
    /\ CpiConfigs \subseteq [ faults : Nat, restarts : Nat, cycles : SUBSET Cycle ]

VARIABLES
    cpiTime,        \* the clock; time passes at any step
    logEnd,         \* when a message failed, -1 if it has not
    wake,           \* when the loop's sleep ends
    cycle,          \* the running cycles
    published,      \* _published: expiry per message, 0 when there is no entry
    cpiCfg,         \* faults and restarts left, cycles in use
    \* history
    delivered,      \* how often Event Mesh accepted the message
    again           \* messages that may be delivered again, and why: see NoDuplicate

cpiVars == << cpiTime, logEnd, wake, cycle, published, cpiCfg, delivered, again >>

NoCycle == [ at |-> "asleep", since |-> 0, todo |-> {}, of |-> NoGuid ]

CpiTypeOK ==
    /\ cpiTime \in 0 .. MaxTime
    /\ logEnd \in [Guid -> -1 .. MaxTime]
    /\ wake \in 0 .. MaxTime + Window
    /\ cycle \in [Cycle -> [ at : { "asleep", "credentials", "next", "publish", "mark" },
                             since : 0 .. MaxTime, todo : SUBSET Guid, of : Guid \union {NoGuid} ]]
    /\ published \in [Guid -> 0 .. MaxTime + Ttl]
    /\ cpiCfg \in [ faults : Nat, restarts : Nat, cycles : SUBSET Cycle ]
    /\ delivered \in [Guid -> Nat]
    /\ again \subseteq Guid

CpiInit ==
    /\ cpiTime = 0
    /\ logEnd = [g \in Guid |-> -1]
    /\ wake = 0
    /\ cycle = [c \in Cycle |-> NoCycle]
    /\ published = [g \in Guid |-> 0]
    /\ cpiCfg \in CpiConfigs
    /\ delivered = [g \in Guid |-> 0]
    /\ again = {}

Tick ==
    /\ cpiTime < MaxTime
    /\ cpiTime' = cpiTime + 1
    /\ UNCHANGED << logEnd, wake, cycle, published, cpiCfg, delivered, again >>

MessageFails(g) ==
    /\ logEnd[g] = -1
    /\ logEnd' = [ logEnd EXCEPT ![g] = cpiTime ]
    /\ UNCHANGED << cpiTime, wake, cycle, published, cpiCfg, delivered, again >>

Fault == cpiCfg.faults > 0 /\ cpiCfg' = [ cpiCfg EXCEPT !.faults = @ - 1 ]

\* The cycle of c is over.  The loop sleeps one interval, counted from the end of its
\* cycle, so its windows leave a gap as long as a cycle takes.
Finish(c) ==
    /\ cycle' = [ cycle EXCEPT ![c] = NoCycle ]
    /\ wake' = IF c = "loop" THEN cpiTime + Window ELSE wake

\* The answer of _fetch_failed_messages: the newest messages of the window.
Newest(L) ==
    LET Found == { g \in Guid : logEnd[g] >= 0 /\ logEnd[g] >= cpiTime - Window } IN
    /\ L \subseteq Found
    /\ Cardinality(L) = IF Cardinality(Found) < PageSize THEN Cardinality(Found) ELSE PageSize
    /\ \A g \in L, h \in Found \ L : logEnd[g] >= logEnd[h]

\* poll_failed_messages: any error gives the empty list.
Query(c) ==
    /\ c \in cpiCfg.cycles /\ cycle[c].at = "asleep" /\ (c = "loop" => cpiTime >= wake)
    /\ \/ \E L \in SUBSET Guid \ {{}} :
            /\ Newest(L)
            /\ cycle' = [ cycle EXCEPT ![c] = [ at |-> "credentials", since |-> cpiTime, todo |-> L, of |-> NoGuid ] ]
            /\ UNCHANGED << wake, cpiCfg >>
       \/ c = "loop" /\ Newest({}) /\ Finish(c) /\ UNCHANGED cpiCfg
       \/ c = "loop" /\ Fault /\ Finish(c)
    /\ UNCHANGED << cpiTime, logEnd, published, delivered, again >>

\* Without CPI credentials or an Event Mesh token the whole list is given up.
PublisherCredentials(c) ==
    /\ cycle[c].at = "credentials"
    /\ \/ cycle' = [ cycle EXCEPT ![c].at = "next" ] /\ UNCHANGED << wake, cpiCfg >>
       \/ Fault /\ Finish(c)
    /\ UNCHANGED << cpiTime, logEnd, published, delivered, again >>

\* Mutated form: the entry expires when the query's window does.
Expiry_Window == cpiTime

Expiry == cpiTime + Ttl

\* _is_duplicate; when the message is no duplicate, expired entries are dropped.
IsDuplicate(g) == published[g] # 0 /\ cpiTime < published[g]

Purged == [ g \in Guid |-> IF cpiTime >= published[g] THEN 0 ELSE published[g] ]

\* Mutated form: checking the message marks it.
Checked_Marks(g) == [ Purged EXCEPT ![g] = Expiry ]

\* The table after the check; the message itself is marked when it is published.
Checked(g) == Purged

\* Why g may be published twice from here on: another cycle is publishing it, or this
\* cycle has taken so long that the entry made since may have expired.
Unprotected(c, g) ==
    \/ \E d \in Cycle \ {c} : cycle[d].of = g
    \/ cpiTime - cycle[c].since >= Ttl - Window

Publishing(c, g) ==
    [ at |-> "publish", since |-> cycle[c].since, todo |-> cycle[c].todo \ {g}, of |-> g ]

\* The check for a duplicate, before the awaits of the error text and the publish.
Pick(c, g) ==
    /\ cycle[c].at = "next" /\ g \in cycle[c].todo
    /\ IF IsDuplicate(g)
       THEN /\ cycle' = [ cycle EXCEPT ![c].todo = @ \ {g} ]
            /\ UNCHANGED << published, again >>
       ELSE /\ cycle' = [ cycle EXCEPT ![c] = Publishing(c, g) ]
            /\ published' = Checked(g)
            /\ again' = IF Unprotected(c, g) THEN again \union {g} ELSE again
    /\ UNCHANGED << cpiTime, logEnd, wake, cpiCfg, delivered >>

Done(c) ==
    /\ cycle[c].at = "next" /\ cycle[c].todo = {}
    /\ Finish(c)
    /\ UNCHANGED << cpiTime, logEnd, published, cpiCfg, delivered, again >>

\* _publish_via_destination, at the broker: accepted, accepted with the answer lost, or
\* not accepted.  A message whose publish raised is not tried again in this cycle.
Accept(c) ==
    LET g == cycle[c].of IN
    /\ cycle[c].at = "publish"
    /\ \/ /\ cycle' = [ cycle EXCEPT ![c].at = "mark" ]
          /\ delivered' = [ delivered EXCEPT ![g] = @ + 1 ]
          /\ UNCHANGED << cpiCfg, again >>
       \/ /\ Fault
          /\ cycle' = [ cycle EXCEPT ![c].at = "next", ![c].of = NoGuid ]
          /\ \/ delivered' = [ delivered EXCEPT ![g] = @ + 1 ] /\ again' = again \union {g}
             \/ UNCHANGED << delivered, again >>
    /\ UNCHANGED << cpiTime, logEnd, wake, published >>

\* _mark_published, when the answer has arrived.
Mark(c) ==
    /\ cycle[c].at = "mark"
    /\ published' = [ published EXCEPT ![cycle[c].of] = Expiry ]
    /\ cycle' = [ cycle EXCEPT ![c].at = "next", ![c].of = NoGuid ]
    /\ UNCHANGED << cpiTime, logEnd, wake, cpiCfg, delivered, again >>

\* The table is in memory.
CpiRestart ==
    /\ cpiCfg.restarts > 0 /\ cpiCfg' = [ cpiCfg EXCEPT !.restarts = @ - 1 ]
    /\ cycle' = [c \in Cycle |-> NoCycle]
    /\ published' = [g \in Guid |-> 0]
    /\ wake' = cpiTime
    /\ again' = again \union { g \in Guid : delivered[g] > 0 }
    /\ UNCHANGED << cpiTime, logEnd, delivered >>

CycleStep(c) ==
    \/ Query(c) \/ PublisherCredentials(c) \/ Accept(c) \/ Mark(c) \/ Done(c)
    \/ \E g \in Guid : Pick(c, g)

CpiNext ==
    \/ Tick
    \/ \E g \in Guid : MessageFails(g)
    \/ \E c \in Cycle : CycleStep(c)
    \/ CpiRestart

CpiSpec == CpiInit /\ [][CpiNext]_cpiVars

-----------------------------------------------------------------------------
\* A failed message is published once, although it can be listed as long as the window
\* lasts, by the loop and by requests: except when two cycles publish it at the same
\* time, a cycle is slower than the entry's lifetime, an answer was lost, or the process
\* restarted.
NoDuplicate == \A g \in Guid : delivered[g] > 1 => g \in again

\* What the table names as published has been accepted by Event Mesh: a failed publish
\* never hides the message from the next cycle.
MarkedIsDelivered == \A g \in Guid : published[g] # 0 => delivered[g] > 0
=============================================================================
