------------------------------ MODULE ItsmSync ------------------------------
(***************************************************************************)
(* Escalation tickets and their copies in the ITSM tool: the push that     *)
(* creates the copy, the operator's changes and their PATCHes, and the     *)
(* poller (with the endpoint that runs a second one) that brings a         *)
(* resolution back to the ticket, the incident and the fix patterns.       *)
(*                                                                         *)
(* A ticket takes the id of its incident, which is the primary key of the  *)
(* ticket table, so tickets and incidents are one set here.                *)
(***************************************************************************)
EXTENDS Integers, Sequences, FiniteSets

CONSTANTS
    Ticket,         \* incidents that may be escalated
    Pusher,         \* coroutines that push tickets, a bound of the model
    Poller,         \* the loop and the requests of POST /itsm/poll
    MaxRemote,      \* bound on tickets in the ITSM tool
    MaxPushes,      \* bound on escalations and retries
    ItsmConfigs     \* numbers of faults and restarts, and the pollers in use

\* "once" marks the configurations in which at most one fault can happen.
ASSUME ItsmConstants ==
    /\ Ticket # {} /\ MaxRemote \in Nat /\ MaxPushes \in Nat
    /\ ItsmConfigs \subseteq [ faults : Nat, restarts : Nat, pushes : 0 .. MaxPushes,
                               pollers : SUBSET Poller, once : BOOLEAN ]
    /\ \A c \in ItsmConfigs : c.once => c.faults <= 1

VARIABLES
    itsmCfg,     \* faults and restarts left, pollers in use, whether at most one fault was ever possible
    pushes,      \* escalations and retries still to come
    ticket,      \* EM_ESCALATION_TICKETS
    incident,    \* status of the incident
    remote,      \* the ITSM tool's tickets, in order of creation
    push,        \* coroutines in _create_external_ticket and retry_itsm_push
    patches,     \* PATCHes sent and not yet served: a set of tasks
    poll,        \* coroutines in poll_itsm_tickets_once
    \* history
    learned,     \* how often the human fix of a ticket was counted as a pattern
    orphans,     \* remote tickets lost to a fault, a restart or a second push
    torn         \* tickets closed while the incident was not, for a known reason

itsmVars == << itsmCfg, pushes, ticket, incident, remote, push, patches, poll, learned, orphans, torn >>

NoPush == [ at |-> "idle", of |-> CHOOSE k \in Ticket : TRUE, kind |-> "none", id |-> 0, alone |-> TRUE ]
Asleep == [ at |-> "asleep", todo |-> {}, of |-> [ of |-> CHOOSE k \in Ticket : TRUE, id |-> 0, stored |-> FALSE ], got |-> "none" ]

RemoteStatus == { "New", "Assigned", "Resolved", "Cancelled" }
Polled == [ of : Ticket, id : 0 .. MaxRemote, stored : BOOLEAN ]

ItsmTypeOK ==
    /\ itsmCfg \in [ faults : Nat, restarts : Nat, pushes : 0 .. MaxPushes, pollers : SUBSET Poller, once : BOOLEAN ]
    /\ pushes \in 0 .. MaxPushes
    /\ ticket \in [Ticket -> [ st : { "none", "OPEN", "IN_PROGRESS", "RESOLVED", "STALE" },
                               id : 0 .. MaxRemote, stored : BOOLEAN ]]
    /\ incident \in [Ticket -> { "FIX_FAILED", "TICKET_CREATED", "HUMAN_RESOLVED" }]
    /\ remote \in Seq([ of : Ticket, st : RemoteStatus ]) /\ Len(remote) <= MaxRemote
    /\ push \in [Pusher -> [ at : { "idle", "enrich", "post", "answer" }, of : Ticket,
                             kind : { "none", "escalate", "retry" }, id : 0 .. MaxRemote, alone : BOOLEAN ]]
    /\ patches \subseteq (1 .. MaxRemote) \X { "Assigned", "Resolved" }
    /\ poll \in [Poller -> [ at : { "asleep", "creds", "next", "answer" }, todo : SUBSET Polled,
                             of : Polled, got : RemoteStatus \union {"none"} ]]
    /\ learned \in [Ticket -> Nat]
    /\ orphans \subseteq 1 .. MaxRemote
    /\ torn \subseteq Ticket

ItsmInit ==
    /\ itsmCfg \in ItsmConfigs
    /\ pushes = itsmCfg.pushes
    /\ ticket = [k \in Ticket |-> [ st |-> "none", id |-> 0, stored |-> FALSE ]]
    /\ incident = [k \in Ticket |-> "FIX_FAILED"]
    /\ remote = << >>
    /\ push = [w \in Pusher |-> NoPush]
    /\ patches = {}
    /\ poll = [p \in Poller |-> Asleep]
    /\ learned = [k \in Ticket |-> 0]
    /\ orphans = {} /\ torn = {}

\* A choice that may cost faults: statements or requests that fail.
Faults(n) ==
    /\ n <= itsmCfg.faults
    /\ itsmCfg' = [ itsmCfg EXCEPT !.faults = @ - n ]

\* Whether a failure happens here, at the price of one fault.
Failing(b) == b \in BOOLEAN /\ Faults(IF b THEN 1 ELSE 0)

Pushing(k) == { w \in Pusher : push[w].at # "idle" /\ push[w].of = k }

-----------------------------------------------------------------------------
(* Creating the copy *)

\* A push of k starts: none that overlaps with another one is alone.
StartPush(w, k, kind, at) ==
    /\ push[w].at = "idle" /\ pushes > 0
    /\ pushes' = pushes - 1
    /\ push' = [ v \in Pusher |->
           IF v = w THEN [ at |-> at, of |-> k, kind |-> kind, id |-> 0, alone |-> Pushing(k) = {} ]
           ELSE IF v \in Pushing(k) THEN [ push[v] EXCEPT !.alone = FALSE ] ELSE push[v] ]
    /\ UNCHANGED << itsmCfg, ticket, incident, remote, patches, poll, learned, orphans, torn >>

\* _create_external_ticket, up to the answer of the LLM that fills in the fields.
\* Nothing is asked of the incident: neither an earlier escalation nor a resolution
\* refuses another one.
Escalate(w, k) == StartPush(w, k, "escalate", "enrich")

\* create_escalation_ticket: the insert fails on a second escalation, as on any database
\* error, and the error is swallowed; the POST is sent all the same.
Insert(w) ==
    LET k == push[w].of IN
    /\ push[w].at = "enrich"
    /\ \E failed \in BOOLEAN :
        /\ Failing(failed)
        /\ ticket' = IF failed \/ ticket[k].st # "none" THEN ticket
                     ELSE [ ticket EXCEPT ![k].st = "OPEN" ]
    /\ push' = [ push EXCEPT ![w].at = "post" ]
    /\ UNCHANGED << pushes, incident, remote, patches, poll, learned, orphans, torn >>

\* Mutated form: whoever asks gets another ticket.
Retry_Unchecked(w, k) == ticket[k].st # "none" /\ StartPush(w, k, "retry", "post")

\* retry_itsm_push: only a ticket without a copy is pushed again.
Retry(w, k) == ticket[k].st # "none" /\ ticket[k].id = 0 /\ StartPush(w, k, "retry", "post")

\* The ITSM tool creates the ticket, or the request fails before.
Post(w) ==
    /\ push[w].at = "post"
    /\ \/ /\ Len(remote) < MaxRemote
          /\ remote' = Append(remote, [ of |-> push[w].of, st |-> "New" ])
          /\ push' = [ push EXCEPT ![w].at = "answer", ![w].id = Len(remote) + 1 ]
          /\ UNCHANGED itsmCfg
       \/ /\ Faults(1)
          /\ push' = [ push EXCEPT ![w].at = "answer" ]
          /\ UNCHANGED remote
    /\ UNCHANGED << pushes, ticket, incident, patches, poll, learned, orphans, torn >>

\* The answer is stored, unless it is lost or the database fails; the caller of
\* _create_external_ticket marks the incident in the same segment.
Stored(w) ==
    LET k == push[w].of  r == push[w].id IN
    /\ push[w].at = "answer"
    /\ \E failed \in BOOLEAN :
        /\ Failing(failed)
        /\ IF r = 0 \/ failed \/ ticket[k].st = "none"
           THEN /\ UNCHANGED ticket
                /\ orphans' = orphans \union ({r} \ {0})
           ELSE /\ ticket' = [ ticket EXCEPT ![k].id = r ]
                /\ orphans' = orphans \union
                       (IF push[w].kind = "escalate" \/ ~ push[w].alone THEN {ticket[k].id} \ {0} ELSE {})
    /\ incident' = IF push[w].kind = "escalate" THEN [ incident EXCEPT ![k] = "TICKET_CREATED" ] ELSE incident
    /\ torn' = IF push[w].kind = "escalate" /\ incident[k] = "HUMAN_RESOLVED" THEN torn \union {k} ELSE torn
    /\ push' = [ push EXCEPT ![w] = NoPush ]
    /\ UNCHANGED << pushes, remote, patches, poll, learned >>

-----------------------------------------------------------------------------
(* The operators of Orbit and of the ITSM tool *)

\* Mutated form: a closed ticket may be opened again.
Transitions_Reopen(st) ==
    CASE st = "OPEN" -> { "IN_PROGRESS" } [] st = "IN_PROGRESS" -> { "RESOLVED", "OPEN" }
      [] OTHER -> { "OPEN" }

Transitions(st) ==
    CASE st = "OPEN" -> { "IN_PROGRESS" } [] st = "IN_PROGRESS" -> { "RESOLVED", "OPEN" }
      [] OTHER -> {}

\* Mutated form: the status is sent as it is.
ToItsm_Raw(st) == st

\* _ORBIT_TO_ITSM_STATUS: going back to OPEN is not told to the ITSM tool.
ToItsm(st) == CASE st = "IN_PROGRESS" -> "Assigned" [] st = "RESOLVED" -> "Resolved" [] OTHER -> "none"

\* update_ticket_status: one segment, which also starts the PATCH.
UpdateTicket(k, new) ==
    /\ new \in Transitions(ticket[k].st)
    /\ \E failed \in BOOLEAN :
        /\ Failing(failed)
        /\ ticket' = IF failed THEN ticket ELSE [ ticket EXCEPT ![k].st = new ]
    /\ patches' = IF ticket[k].id # 0 /\ ToItsm(new) # "none"
                  THEN patches \union { << ticket[k].id, ToItsm(new) >> } ELSE patches
    /\ torn' = IF new = "RESOLVED" THEN torn \union {k} ELSE torn
    /\ UNCHANGED << pushes, incident, remote, push, poll, learned, orphans >>

\* patch_itsm_ticket: the tasks run in any order, and nobody retries one that fails.
Patch(m) ==
    /\ m \in patches
    /\ patches' = patches \ {m}
    /\ \/ remote' = [ remote EXCEPT ![m[1]].st = m[2] ] /\ UNCHANGED itsmCfg
       \/ Faults(1) /\ UNCHANGED remote
    /\ UNCHANGED << pushes, ticket, incident, push, poll, learned, orphans, torn >>

\* A person works on the ticket in the ITSM tool.
Close(r, st) ==
    /\ r \in DOMAIN remote /\ remote[r].st \in { "New", "Assigned" }
    /\ remote' = [ remote EXCEPT ![r].st = st ]
    /\ UNCHANGED << itsmCfg, pushes, ticket, incident, push, patches, poll, learned, orphans, torn >>

-----------------------------------------------------------------------------
(* The poller *)

\* get_open_itsm_tickets
Open == { k \in Ticket : ticket[k].st \in { "OPEN", "IN_PROGRESS" } /\ ticket[k].id # 0 }

\* The list is read once, before the awaits; a failing SELECT gives the empty list.
Begin(p) ==
    /\ p \in itsmCfg.pollers /\ poll[p].at = "asleep" /\ Open # {}
    /\ poll' = [ poll EXCEPT ![p].at = "creds", ![p].todo =
           { [ of |-> k, id |-> ticket[k].id, stored |-> ticket[k].stored ] : k \in Open } ]
    /\ UNCHANGED << itsmCfg, pushes, ticket, incident, remote, push, patches, learned, orphans, torn >>

\* Without a destination the whole cycle is skipped.
Credentials(p) ==
    /\ poll[p].at = "creds"
    /\ \E failed \in BOOLEAN :
        /\ Failing(failed)
        /\ poll' = [ poll EXCEPT ![p] = IF failed THEN Asleep ELSE [ @ EXCEPT !.at = "next" ] ]
    /\ UNCHANGED << pushes, ticket, incident, remote, push, patches, learned, orphans, torn >>

\* get_itsm_ticket: whatever goes wrong, the answer is None.
Ask(p) ==
    /\ poll[p].at = "next"
    /\ \E t \in poll[p].todo, failed \in BOOLEAN :
        /\ Failing(failed)
        /\ poll' = [ poll EXCEPT ![p] =
               [ at |-> "answer", todo |-> @.todo \ {t}, of |-> t,
                 got |-> IF failed THEN "none" ELSE remote[t.id].st ] ]
    /\ UNCHANGED << pushes, ticket, incident, remote, push, patches, learned, orphans, torn >>

\* The next ticket, or the end of the cycle: the loop sleeps, the request answers.
Continue(p) == [ poll EXCEPT ![p] = IF @.todo = {} THEN Asleep ELSE [ Asleep EXCEPT !.at = "next", !.todo = poll[p].todo ] ]

\* Mutated form: a ticket nobody finds counts as closed.
Missing_Closed == "RESOLVED"

Missing == "STALE"

\* No ticket data: whatever the ticket is by now, nobody will ask for it again.
Unanswered(p) ==
    /\ poll[p].at = "answer" /\ poll[p].got = "none"
    /\ \E failed \in BOOLEAN :
        /\ Failing(failed)
        /\ ticket' = IF failed THEN ticket ELSE [ ticket EXCEPT ![poll[p].of.of].st = Missing ]
    /\ poll' = Continue(p)
    /\ UNCHANGED << pushes, incident, remote, push, patches, learned, orphans, torn >>

\* Mutated form: a cancelled ticket is not a resolved one.
ResolvedStatuses_NotCancelled == { "Resolved" }

ResolvedStatuses == { "Resolved", "Cancelled" }

StillOpen(p) ==
    /\ poll[p].at = "answer" /\ poll[p].got \in RemoteStatus \ ResolvedStatuses
    /\ poll' = Continue(p)
    /\ UNCHANGED << itsmCfg, pushes, ticket, incident, remote, push, patches, learned, orphans, torn >>

\* Mutated form: the flag of the ticket is not looked at.
Learns_Again(t, notes) == notes

\* There are notes, and the row as it was listed has no pattern yet.
Learns(t, notes) == notes /\ ~ t.stored

\* The ticket is closed: ticket, incident, pattern and flag are written in one segment
\* by four statements.  A failing update of the incident raises, and the rest of the
\* ticket is skipped; the other failures are swallowed.
Resolve(p) ==
    LET t == poll[p].of  k == t.of IN
    /\ poll[p].at = "answer" /\ poll[p].got \in ResolvedStatuses
    /\ \E fail \in SUBSET { "ticket", "incident", "pattern", "flag" }, notes \in BOOLEAN :
        LET learns == "incident" \notin fail /\ Learns(t, notes) IN
        /\ Faults(Cardinality(fail))
        /\ ticket' = [ ticket EXCEPT
               ![k].st = IF "ticket" \in fail THEN @ ELSE "RESOLVED",
               ![k].stored = @ \/ (learns /\ "flag" \notin fail) ]
        /\ incident' = IF "incident" \in fail THEN incident ELSE [ incident EXCEPT ![k] = "HUMAN_RESOLVED" ]
        /\ learned' = IF learns /\ "pattern" \notin fail THEN [ learned EXCEPT ![k] = @ + 1 ] ELSE learned
        /\ torn' = IF "incident" \in fail THEN torn \union {k} ELSE torn
    /\ poll' = Continue(p)
    /\ UNCHANGED << pushes, remote, push, patches, orphans >>

-----------------------------------------------------------------------------
\* Coroutines and tasks are lost; the loop starts again with the process.
Restart ==
    /\ itsmCfg.restarts > 0
    /\ itsmCfg' = [ itsmCfg EXCEPT !.restarts = @ - 1 ]
    /\ orphans' = orphans \union ({ push[w].id : w \in Pusher } \ {0})
    /\ push' = [w \in Pusher |-> NoPush]
    /\ poll' = [p \in Poller |-> Asleep]
    /\ patches' = {}
    /\ UNCHANGED << pushes, ticket, incident, remote, learned, torn >>

Pushes(w) == (\E k \in Ticket : Escalate(w, k) \/ Retry(w, k)) \/ Insert(w) \/ Post(w) \/ Stored(w)

Polls(p) == Begin(p) \/ Credentials(p) \/ Ask(p) \/ Unanswered(p) \/ StillOpen(p) \/ Resolve(p)

People ==
    \/ \E k \in Ticket : \E new \in Transitions(ticket[k].st) : UpdateTicket(k, new)
    \/ \E r \in DOMAIN remote, st \in { "Resolved", "Cancelled" } : Close(r, st)

ItsmNext ==
    \/ \E w \in Pusher : Pushes(w)
    \/ \E p \in Poller : Polls(p)
    \/ \E m \in patches : Patch(m)
    \/ People
    \/ Restart

ItsmSpec == ItsmInit /\ [][ItsmNext]_itsmVars

-----------------------------------------------------------------------------
\* Every ticket in the ITSM tool is the one the Orbit row points to, is about to be, or
\* was lost to a fault, a restart, an overlapping push or another escalation: a retry
\* alone (retry_itsm_push) never creates a second one.
NoOrphan ==
    \A r \in DOMAIN remote :
        \/ ticket[remote[r].of].id = r
        \/ r \in orphans
        \/ \E w \in Pusher : push[w].id = r

\* The poller writes the ticket and the incident in two statements: a closed ticket
\* leaves the incident HUMAN_RESOLVED, except when an operator closed it in Orbit
\* (update_ticket_status never touches the incident), when the second statement failed,
\* or when a later escalation of the same incident overwrote the status.
ResolvedTogether ==
    \A k \in Ticket : ticket[k].st = "RESOLVED" => incident[k] = "HUMAN_RESOLVED" \/ k \in torn

\* One poller and at most one failing statement: the human fix of a ticket is counted
\* once.  The status keeps the ticket out of the next cycle, and when that update was
\* the one that failed, pattern_stored keeps the pattern from being counted again.
LearnedOnce ==
    \A k \in Ticket : itsmCfg.pollers = {"loop"} /\ itsmCfg.once => learned[k] <= 1

\* No push, poll or PATCH brings back a ticket that was closed.
ClosedStaysClosed ==
    [][\A k \in Ticket : ticket[k].st \in { "RESOLVED", "STALE" } =>
          ticket'[k].st \in { "RESOLVED", "STALE" }]_ticket

\* A ticket closed in the ITSM tool does not stay open in Orbit while it is closed there.
StillWaiting(k, r) ==
    /\ ticket[k].id = r /\ ticket[k].st \in { "OPEN", "IN_PROGRESS" }
    /\ r \in DOMAIN remote /\ remote[r].st \in { "Resolved", "Cancelled" }

ResolutionArrives ==
    \A k \in Ticket, r \in 1 .. MaxRemote : StillWaiting(k, r) ~> ~ StillWaiting(k, r)
=============================================================================
