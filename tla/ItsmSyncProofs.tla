--------------------------- MODULE ItsmSyncProofs ---------------------------
(***************************************************************************)
(* For any number of tickets, pushes and pollers and any numbers of faults *)
(* and restarts: which tickets of the ITSM tool may be left without an     *)
(* Orbit row, when ticket and incident may disagree, and that one poller   *)
(* with at most one fault counts a human fix once.                         *)
(***************************************************************************)
EXTENDS ItsmSync, FiniteSetTheorems, TLAPS

ConfigType == [ faults : Nat, restarts : Nat, pushes : 0 .. MaxPushes, pollers : SUBSET Poller, once : BOOLEAN ]

TicketRow == [ st : { "none", "OPEN", "IN_PROGRESS", "RESOLVED", "STALE" }, id : 0 .. MaxRemote, stored : BOOLEAN ]

RemoteTicket == [ of : Ticket, st : RemoteStatus ]

PushState == [ at : { "idle", "enrich", "post", "answer" }, of : Ticket,
               kind : { "none", "escalate", "retry" }, id : 0 .. MaxRemote, alone : BOOLEAN ]

PollState == [ at : { "asleep", "creds", "next", "answer" }, todo : SUBSET Polled,
               of : Polled, got : RemoteStatus \union {"none"} ]

\* Whoever names a ticket of the ITSM tool names one that was created.
Created(r) == r \in 1 .. Len(remote)

Pointing ==
    /\ \A k \in Ticket : ticket[k].id # 0 => Created(ticket[k].id)
    /\ \A w \in Pusher : push[w].id # 0 => Created(push[w].id)
    /\ \A m \in patches : Created(m[1])
    /\ \A p \in Poller : \A t \in poll[p].todo : Created(t.id)

ItsmInv == ItsmTypeOK /\ Pointing

\* The type invariant, part by part.
LEMMA ItsmParts ==
  ASSUME ItsmTypeOK
  PROVE  /\ itsmCfg \in ConfigType /\ pushes \in 0 .. MaxPushes
         /\ ticket \in [Ticket -> TicketRow]
         /\ incident \in [Ticket -> { "FIX_FAILED", "TICKET_CREATED", "HUMAN_RESOLVED" }]
         /\ remote \in Seq(RemoteTicket) /\ Len(remote) \in Nat /\ Len(remote) <= MaxRemote
         /\ push \in [Pusher -> PushState]
         /\ patches \subseteq (1 .. MaxRemote) \X { "Assigned", "Resolved" }
         /\ poll \in [Poller -> PollState]
         /\ learned \in [Ticket -> Nat] /\ orphans \subseteq 1 .. MaxRemote /\ torn \subseteq Ticket
  BY DEF ItsmTypeOK, ConfigType, TicketRow, RemoteTicket, PushState, PollState

LEMMA ItsmWhole ==
  ASSUME itsmCfg' \in ConfigType, pushes' \in 0 .. MaxPushes,
         ticket' \in [Ticket -> TicketRow],
         incident' \in [Ticket -> { "FIX_FAILED", "TICKET_CREATED", "HUMAN_RESOLVED" }],
         remote' \in Seq(RemoteTicket), Len(remote') <= MaxRemote,
         push' \in [Pusher -> PushState],
         patches' \subseteq (1 .. MaxRemote) \X { "Assigned", "Resolved" },
         poll' \in [Poller -> PollState],
         learned' \in [Ticket -> Nat], orphans' \subseteq 1 .. MaxRemote, torn' \subseteq Ticket
  PROVE  ItsmTypeOK'
  BY DEF ItsmTypeOK, ConfigType, TicketRow, RemoteTicket, PushState, PollState

\* The idle states of a push and of a poller.
LEMMA IdleStates ==
  /\ NoPush \in PushState /\ NoPush.id = 0 /\ NoPush.at = "idle" /\ NoPush.alone = TRUE
  /\ Asleep \in PollState /\ Asleep.todo = {} /\ Asleep.at = "asleep"
  <1>1. (CHOOSE k \in Ticket : TRUE) \in Ticket  BY ItsmConstants
  <1>2. NoPush \in PushState  BY <1>1, ItsmConstants DEF NoPush, PushState
  <1>3. [ of |-> CHOOSE k \in Ticket : TRUE, id |-> 0, stored |-> FALSE ] \in Polled
    BY <1>1, ItsmConstants DEF Polled
  <1>4. Asleep \in PollState  BY <1>3 DEF Asleep, PollState
  <1> QED  BY <1>2, <1>4 DEF NoPush, Asleep

\* The bounds of the configuration: what a fault costs.
LEMMA FaultsKeep ==
  ASSUME itsmCfg \in ConfigType, NEW n \in Nat, Faults(n)
  PROVE  /\ itsmCfg' \in ConfigType /\ itsmCfg'.faults = itsmCfg.faults - n
         /\ itsmCfg'.once = itsmCfg.once /\ itsmCfg'.pollers = itsmCfg.pollers
         /\ n <= itsmCfg.faults
  BY DEF Faults, ConfigType

LEMMA FailingKeeps ==
  ASSUME itsmCfg \in ConfigType, NEW b, Failing(b)
  PROVE  /\ itsmCfg' \in ConfigType /\ itsmCfg'.faults <= itsmCfg.faults
         /\ itsmCfg'.once = itsmCfg.once /\ itsmCfg'.pollers = itsmCfg.pollers
  <1>1. b \in BOOLEAN /\ Faults(IF b THEN 1 ELSE 0)  BY DEF Failing
  <1>2. (IF b THEN 1 ELSE 0) \in Nat  BY <1>1
  <1> QED  BY <1>1, <1>2, FaultsKeep DEF ConfigType

\* One record of a table changes in one or two fields.
LEMMA PushAt ==
  ASSUME push \in [Pusher -> PushState], NEW w \in Pusher, NEW at \in { "post", "answer" },
         push' = [ push EXCEPT ![w].at = at ]
  PROVE  /\ push' \in [Pusher -> PushState]
         /\ \A v \in Pusher : push'[v].id = push[v].id /\ push'[v].of = push[v].of
                              /\ push'[v].kind = push[v].kind /\ push'[v].alone = push[v].alone
                              /\ push'[v].at = IF v = w THEN at ELSE push[v].at
  BY DEF PushState

LEMMA PushAnswered ==
  ASSUME push \in [Pusher -> PushState], NEW w \in Pusher, NEW r \in 0 .. MaxRemote,
         push' = [ push EXCEPT ![w].at = "answer", ![w].id = r ]
  PROVE  /\ push' \in [Pusher -> PushState] /\ \A v \in Pusher \ {w} : push'[v] = push[v]
         /\ push'[w].id = r /\ push'[w].at = "answer" /\ push'[w].of = push[w].of
         /\ push'[w].kind = push[w].kind /\ push'[w].alone = push[w].alone
  <1> DEFINE a == [ push[w] EXCEPT !.at = "answer" ]
             b == [ a EXCEPT !.id = r ]
  <1>1. push[w] \in PushState  OBVIOUS
  <1>2. a \in PushState /\ a.at = "answer" /\ a.of = push[w].of /\ a.kind = push[w].kind /\ a.alone = push[w].alone
    BY <1>1 DEF PushState
  <1>3. push' = [ push EXCEPT ![w] = b ]  BY Zenon
  <1> HIDE DEF a
  <1>4. b \in PushState /\ b.id = r /\ b.at = a.at /\ b.of = a.of /\ b.kind = a.kind /\ b.alone = a.alone
    BY <1>2 DEF PushState
  <1> HIDE DEF b
  <1> QED  BY <1>2, <1>3, <1>4

LEMMA TicketStatus ==
  ASSUME ticket \in [Ticket -> TicketRow], NEW k \in Ticket,
         NEW st \in { "none", "OPEN", "IN_PROGRESS", "RESOLVED", "STALE" },
         ticket' = [ ticket EXCEPT ![k].st = st ]
  PROVE  /\ ticket' \in [Ticket -> TicketRow]
         /\ \A j \in Ticket : ticket'[j].id = ticket[j].id /\ ticket'[j].stored = ticket[j].stored
                              /\ ticket'[j].st = IF j = k THEN st ELSE ticket[j].st
  BY DEF TicketRow

LEMMA TicketId ==
  ASSUME ticket \in [Ticket -> TicketRow], NEW k \in Ticket, NEW r \in 0 .. MaxRemote,
         ticket' = [ ticket EXCEPT ![k].id = r ]
  PROVE  /\ ticket' \in [Ticket -> TicketRow]
         /\ \A j \in Ticket : ticket'[j].st = ticket[j].st /\ ticket'[j].stored = ticket[j].stored
                              /\ ticket'[j].id = IF j = k THEN r ELSE ticket[j].id
  BY DEF TicketRow

LEMMA ItsmInitInv == ASSUME ItsmInit PROVE ItsmInv
  <1> USE DEF ItsmInit
  <1>1. itsmCfg \in ConfigType /\ pushes \in 0 .. MaxPushes  BY ItsmConstants DEF ConfigType
  <1>2. ticket \in [Ticket -> TicketRow]  BY ItsmConstants DEF TicketRow
  <1>3. push \in [Pusher -> PushState] /\ poll \in [Poller -> PollState]  BY IdleStates
  <1>4. remote \in Seq(RemoteTicket) /\ Len(remote) <= MaxRemote  BY ItsmConstants
  <1>5. ItsmTypeOK
    BY <1>1, <1>2, <1>3, <1>4 DEF ItsmTypeOK, ConfigType, TicketRow, RemoteTicket, PushState, PollState
  <1>6. Pointing  BY IdleStates DEF Pointing
  <1> QED  BY <1>5, <1>6 DEF ItsmInv

-----------------------------------------------------------------------------
(* Types and bounds: pushes *)

LEMMA StartPushTyped ==
  ASSUME ItsmInv, NEW w \in Pusher, NEW k \in Ticket, NEW kind \in { "escalate", "retry" },
         NEW at \in { "enrich", "post" }, StartPush(w, k, kind, at)
  PROVE  ItsmInv'
  <1> USE DEF ItsmInv, StartPush
  <1>1. pushes' \in 0 .. MaxPushes  BY ItsmParts, ItsmConstants
  <1>2. ASSUME NEW v \in Pusher
        PROVE  push'[v] \in PushState /\ (push'[v].id = 0 \/ push'[v].id = push[v].id)
    <2>1. push[v] \in PushState  BY ItsmParts
    <2>2. [ at |-> at, of |-> k, kind |-> kind, id |-> 0, alone |-> Pushing(k) = {} ] \in PushState
      BY ItsmConstants DEF PushState
    <2>3. [ push[v] EXCEPT !.alone = FALSE ] \in PushState /\ [ push[v] EXCEPT !.alone = FALSE ].id = push[v].id
      BY <2>1 DEF PushState
    <2> QED  BY <2>1, <2>2, <2>3
  <1>3. push' \in [Pusher -> PushState]  BY <1>2
  <1>4. ItsmTypeOK'  BY <1>1, <1>3, ItsmParts, ItsmWhole
  <1>5. Pointing'  BY <1>2 DEF Pointing, Created
  <1> QED  BY <1>4, <1>5

LEMMA InsertTyped == ASSUME ItsmInv, NEW w \in Pusher, Insert(w) PROVE ItsmInv'
  <1> USE DEF ItsmInv, Insert
  <1>1. itsmCfg' \in ConfigType  BY ItsmParts, FailingKeeps
  <1>2. push' \in [Pusher -> PushState] /\ \A v \in Pusher : push'[v].id = push[v].id
    BY ItsmParts, PushAt
  <1>3. push[w].of \in Ticket  BY ItsmParts DEF PushState
  <1>4. ticket' \in [Ticket -> TicketRow] /\ \A k \in Ticket : ticket'[k].id = ticket[k].id
    BY <1>3, ItsmParts, TicketStatus
  <1>5. ItsmTypeOK'  BY <1>1, <1>2, <1>4, ItsmParts, ItsmWhole
  <1>6. Pointing'  BY <1>2, <1>4 DEF Pointing, Created
  <1> QED  BY <1>5, <1>6

\* A new ticket leaves the others where they are.
LEMMA Appended ==
  ASSUME ItsmTypeOK, Len(remote) < MaxRemote, NEW k \in Ticket,
         remote' = Append(remote, [ of |-> k, st |-> "New" ])
  PROVE  /\ remote' \in Seq(RemoteTicket) /\ Len(remote') = Len(remote) + 1 /\ Len(remote') <= MaxRemote
         /\ remote'[Len(remote) + 1] = [ of |-> k, st |-> "New" ]
         /\ \A r \in 1 .. Len(remote) : remote'[r] = remote[r]
  <1>1. [ of |-> k, st |-> "New" ] \in RemoteTicket  BY DEF RemoteTicket, RemoteStatus
  <1>2. remote \in Seq(RemoteTicket) /\ Len(remote) \in Nat  BY ItsmParts
  <1> QED  BY <1>1, <1>2, ItsmConstants

LEMMA PostTyped == ASSUME ItsmInv, NEW w \in Pusher, Post(w) PROVE ItsmInv'
  <1> USE DEF ItsmInv
  <1>1. push[w].of \in Ticket  BY ItsmParts DEF PushState
  <1>2. CASE /\ Len(remote) < MaxRemote
             /\ remote' = Append(remote, [ of |-> push[w].of, st |-> "New" ])
             /\ push' = [ push EXCEPT ![w].at = "answer", ![w].id = Len(remote) + 1 ]
             /\ UNCHANGED itsmCfg
    <2>1. /\ remote' \in Seq(RemoteTicket) /\ Len(remote') = Len(remote) + 1 /\ Len(remote') <= MaxRemote
          /\ Len(remote) \in Nat
      BY <1>1, <1>2, Appended, ItsmParts
    <2>2. Len(remote) + 1 \in 0 .. MaxRemote  BY <2>1, ItsmConstants
    <2>6. push' \in [Pusher -> PushState] /\ push'[w].id = Len(remote) + 1
          /\ \A v \in Pusher \ {w} : push'[v] = push[v]
      <3>1. PICK r \in 0 .. MaxRemote : r = Len(remote) + 1  BY <2>2
      <3>2. push' = [ push EXCEPT ![w].at = "answer", ![w].id = r ]  BY <1>2, <3>1
      <3>3. push \in [Pusher -> PushState]  BY ItsmParts
      <3>4. /\ push' \in [Pusher -> PushState] /\ push'[w].id = r
            /\ \A v \in Pusher \ {w} : push'[v] = push[v]
        BY <3>2, <3>3, PushAnswered, Zenon
      <3> QED  BY <3>1, <3>4
    <2>7. ItsmTypeOK'  BY <1>2, <2>1, <2>6, ItsmParts, ItsmWhole DEF Post
    <2>8. Pointing'
      <3>1. \A r \in 1 .. Len(remote) : r \in 1 .. Len(remote')  BY <2>1
      <3>2. Len(remote) + 1 \in 1 .. Len(remote')  BY <2>1
      <3>3. ticket' = ticket /\ patches' = patches /\ poll' = poll  BY DEF Post
      <3>4. \A v \in Pusher : push'[v].id # 0 => push'[v].id \in 1 .. Len(remote')
        BY <2>6, <3>1, <3>2 DEF Pointing, Created
      <3> QED  BY <3>1, <3>3, <3>4 DEF Pointing, Created
    <2> QED  BY <2>7, <2>8
  <1>3. CASE /\ Faults(1)
             /\ push' = [ push EXCEPT ![w].at = "answer" ]
             /\ UNCHANGED remote
    <2>1. itsmCfg' \in ConfigType  BY <1>3, ItsmParts, FaultsKeep
    <2>2. push' \in [Pusher -> PushState] /\ \A v \in Pusher : push'[v].id = push[v].id
      BY <1>3, ItsmParts, PushAt
    <2>3. ItsmTypeOK'  BY <1>3, <2>1, <2>2, ItsmParts, ItsmWhole DEF Post
    <2> QED  BY <1>3, <2>2, <2>3 DEF Post, Pointing, Created
  <1> QED  BY <1>2, <1>3 DEF Post

LEMMA StoredTyped == ASSUME ItsmInv, NEW w \in Pusher, Stored(w) PROVE ItsmInv'
  <1> USE DEF ItsmInv
  <1> DEFINE k == push[w].of
  <1> DEFINE r == push[w].id
  <1>1. k \in Ticket /\ r \in 0 .. MaxRemote /\ (r # 0 => Created(r))
    BY ItsmParts DEF PushState, Pointing
  <1>2. itsmCfg' \in ConfigType  BY ItsmParts, FailingKeeps DEF Stored
  <1>3. push' \in [Pusher -> PushState] /\ \A v \in Pusher : push'[v].id \in { 0, push[v].id }
    BY ItsmParts, IdleStates DEF Stored
  <1>4. ticket' = ticket \/ (r # 0 /\ ticket' = [ ticket EXCEPT ![k].id = r ])
    BY DEF Stored
  <1>5. ticket' \in [Ticket -> TicketRow] /\ \A j \in Ticket : ticket'[j].id \in { r, ticket[j].id }
    BY <1>1, <1>4, ItsmParts, TicketId
  <1>6. ticket[k].id \in 0 .. MaxRemote  BY <1>1, ItsmParts DEF TicketRow
  <1>7. orphans' \subseteq 1 .. MaxRemote
    <2>1. \/ orphans' = orphans \union ({r} \ {0})
          \/ orphans' = orphans \union ({ticket[k].id} \ {0})
          \/ orphans' = orphans \union {}
      BY DEF Stored
    <2>2. {r} \ {0} \subseteq 1 .. MaxRemote /\ {ticket[k].id} \ {0} \subseteq 1 .. MaxRemote
      BY <1>1, <1>6, ItsmConstants
    <2> QED  BY <2>1, <2>2, ItsmParts
  <1>8. /\ incident' \in [Ticket -> { "FIX_FAILED", "TICKET_CREATED", "HUMAN_RESOLVED" }]
        /\ torn' \subseteq Ticket
    BY <1>1, ItsmParts DEF Stored
  <1>9. pushes' = pushes /\ remote' = remote /\ patches' = patches /\ poll' = poll /\ learned' = learned
    BY DEF Stored
  <1>10. ItsmTypeOK'  BY <1>2, <1>3, <1>5, <1>7, <1>8, <1>9, ItsmParts, ItsmWhole
  <1>11. Pointing'  BY <1>1, <1>3, <1>5, <1>9 DEF Pointing, Created
  <1> QED  BY <1>10, <1>11

-----------------------------------------------------------------------------
(* Types and bounds: the operators *)

LEMMA UpdateTicketTyped ==
  ASSUME ItsmInv, NEW k \in Ticket, NEW new \in Transitions(ticket[k].st), UpdateTicket(k, new)
  PROVE  ItsmInv'
  <1> USE DEF ItsmInv
  <1>1. new \in { "IN_PROGRESS", "RESOLVED", "OPEN" }  BY DEF Transitions
  <1>2. itsmCfg' \in ConfigType  BY ItsmParts, FailingKeeps DEF UpdateTicket
  <1>3. ticket' \in [Ticket -> TicketRow] /\ \A j \in Ticket : ticket'[j].id = ticket[j].id
    BY <1>1, ItsmParts, TicketStatus DEF UpdateTicket
  <1>4. /\ patches' \subseteq (1 .. MaxRemote) \X { "Assigned", "Resolved" }
        /\ \A m \in patches' : m \in patches \/ (m[1] = ticket[k].id /\ m[1] # 0)
    <2>1. ticket[k].id \in 0 .. MaxRemote  BY ItsmParts DEF TicketRow
    <2>2. ToItsm(new) \in { "Assigned", "Resolved", "none" }  BY DEF ToItsm
    <2>3. CASE ticket[k].id # 0 /\ ToItsm(new) # "none"
      <3>1. ticket[k].id \in 1 .. MaxRemote  BY <2>1, <2>3, ItsmConstants
      <3> DEFINE m == << ticket[k].id, ToItsm(new) >>
      <3>2. m \in (1 .. MaxRemote) \X { "Assigned", "Resolved" } /\ m[1] = ticket[k].id
        BY <2>2, <2>3, <3>1
      <3>3. patches' = patches \union {m}  BY <2>3 DEF UpdateTicket
      <3> HIDE DEF m
      <3> QED  BY <2>3, <3>2, <3>3, ItsmParts
    <2>4. CASE ~ (ticket[k].id # 0 /\ ToItsm(new) # "none")
      BY <2>4, ItsmParts DEF UpdateTicket
    <2> QED  BY <2>3, <2>4
  <1>5. torn' \subseteq Ticket  BY ItsmParts DEF UpdateTicket
  <1>6. /\ pushes' = pushes /\ incident' = incident /\ remote' = remote /\ push' = push
        /\ poll' = poll /\ learned' = learned /\ orphans' = orphans
    BY DEF UpdateTicket
  <1>7. ItsmTypeOK'  BY <1>2, <1>3, <1>4, <1>5, <1>6, ItsmParts, ItsmWhole
  <1>8. Pointing'  BY <1>3, <1>4, <1>6 DEF Pointing, Created
  <1> QED  BY <1>7, <1>8

\* A ticket of the ITSM tool changes its status.
LEMMA RemoteChanged ==
  ASSUME ItsmTypeOK, NEW r \in 1 .. Len(remote), NEW st \in RemoteStatus,
         remote' = [ remote EXCEPT ![r].st = st ]
  PROVE  /\ remote' \in Seq(RemoteTicket) /\ Len(remote') = Len(remote)
         /\ \A q \in 1 .. Len(remote) : remote'[q].of = remote[q].of
  <1>1. remote \in Seq(RemoteTicket) /\ Len(remote) \in Nat  BY ItsmParts
  <1>2. [ remote[r] EXCEPT !.st = st ] \in RemoteTicket /\ [ remote[r] EXCEPT !.st = st ].of = remote[r].of
    <2>1. remote[r] \in RemoteTicket  BY <1>1
    <2> QED  BY <2>1 DEF RemoteTicket
  <1> DEFINE x == [ remote[r] EXCEPT !.st = st ]
  <1>3. remote' = [ remote EXCEPT ![r] = x ]  OBVIOUS
  <1> HIDE DEF x
  <1> QED  BY <1>1, <1>2, <1>3 DEF x

LEMMA PatchTyped == ASSUME ItsmInv, NEW m \in patches, Patch(m) PROVE ItsmInv'
  <1> USE DEF ItsmInv
  <1>1. m[1] \in 1 .. Len(remote) /\ m[2] \in RemoteStatus
    BY ItsmParts DEF Pointing, Created, RemoteStatus
  <1>2. patches' \subseteq patches  BY DEF Patch
  <1>3. itsmCfg' \in ConfigType  BY ItsmParts, FaultsKeep DEF Patch
  <1>4. remote' \in Seq(RemoteTicket) /\ Len(remote') = Len(remote)
    BY <1>1, ItsmParts, RemoteChanged DEF Patch
  <1>5. /\ pushes' = pushes /\ ticket' = ticket /\ incident' = incident /\ push' = push
        /\ poll' = poll /\ learned' = learned /\ orphans' = orphans /\ torn' = torn
    BY DEF Patch
  <1>6. ItsmTypeOK'  BY <1>2, <1>3, <1>4, <1>5, ItsmParts, ItsmWhole
  <1>7. Pointing'  BY <1>2, <1>4, <1>5 DEF Pointing, Created
  <1> QED  BY <1>6, <1>7

LEMMA CloseTyped ==
  ASSUME ItsmInv, NEW r \in DOMAIN remote, NEW st \in { "Resolved", "Cancelled" }, Close(r, st)
  PROVE  ItsmInv'
  <1> USE DEF ItsmInv
  <1>1. r \in 1 .. Len(remote) /\ st \in RemoteStatus  BY ItsmParts DEF RemoteStatus
  <1>2. remote' \in Seq(RemoteTicket) /\ Len(remote') = Len(remote)
    BY <1>1, RemoteChanged DEF Close
  <1>3. /\ itsmCfg' = itsmCfg /\ pushes' = pushes /\ ticket' = ticket /\ incident' = incident
        /\ push' = push /\ patches' = patches /\ poll' = poll /\ learned' = learned
        /\ orphans' = orphans /\ torn' = torn
    BY DEF Close
  <1>4. ItsmTypeOK'  BY <1>2, <1>3, ItsmParts, ItsmWhole
  <1>5. Pointing'  BY <1>2, <1>3 DEF Pointing, Created
  <1> QED  BY <1>4, <1>5

-----------------------------------------------------------------------------
(* Types and bounds: the poller *)

LEMMA Continues ==
  ASSUME poll \in [Poller -> PollState], NEW p \in Poller, poll' = Continue(p)
  PROVE  /\ poll' \in [Poller -> PollState] /\ \A q \in Poller \ {p} : poll'[q] = poll[q]
         /\ poll'[p].todo = poll[p].todo /\ poll'[p].at \in { "asleep", "next" }
         /\ poll'[p].at = "asleep" => poll'[p].todo = {}
  <1>1. CASE poll[p].todo = {}
    <2>1. poll' = [ poll EXCEPT ![p] = Asleep ]  BY <1>1 DEF Continue
    <2> QED  BY <1>1, <2>1, IdleStates
  <1>2. CASE poll[p].todo # {}
    <2> DEFINE a == [ Asleep EXCEPT !.at = "next", !.todo = poll[p].todo ]
               b == [ [ Asleep EXCEPT !.at = "next" ] EXCEPT !.todo = poll[p].todo ]
    <2>1. a = b  BY SMT DEF Asleep
    <2>2. [ Asleep EXCEPT !.at = "next" ] \in PollState /\ [ Asleep EXCEPT !.at = "next" ].at = "next"
      BY IdleStates DEF PollState
    <2>3. poll[p].todo \in SUBSET Polled  BY DEF PollState
    <2>4. b \in PollState /\ b.at = "next" /\ b.todo = poll[p].todo  BY <2>2, <2>3 DEF PollState
    <2>5. poll' = [ poll EXCEPT ![p] = a ]  BY <1>2 DEF Continue
    <2> HIDE DEF a, b
    <2> QED  BY <2>1, <2>4, <2>5
  <1> QED  BY <1>1, <1>2

LEMMA BeginTyped == ASSUME ItsmInv, NEW p \in Poller, Begin(p) PROVE ItsmInv'
  <1> USE DEF ItsmInv
  <1> DEFINE list == { [ of |-> k, id |-> ticket[k].id, stored |-> ticket[k].stored ] : k \in Open }
  <1>1. \A t \in list : t \in Polled /\ t.id \in 1 .. Len(remote)
    <2>1. \A k \in Open : k \in Ticket /\ ticket[k].id # 0  BY DEF Open
    <2>2. \A k \in Open : ticket[k].id \in 1 .. Len(remote)  BY <2>1 DEF Pointing, Created
    <2>3. \A k \in Open : ticket[k].id \in 0 .. MaxRemote /\ ticket[k].stored \in BOOLEAN
      BY <2>1, ItsmParts DEF TicketRow
    <2> QED  BY <2>1, <2>2, <2>3 DEF Polled
  <1> DEFINE a == [ poll[p] EXCEPT !.at = "creds" ]
             b == [ a EXCEPT !.todo = list ]
  <1>2. poll[p] \in PollState  BY ItsmParts
  <1>3. a \in PollState  BY <1>2 DEF PollState
  <1> HIDE DEF list
  <1>4. poll' = [ poll EXCEPT ![p] = b ]  BY ItsmParts, Zenon DEF Begin, list
  <1>5. list \in SUBSET Polled  BY <1>1
  <1> HIDE DEF a
  <1>6. b \in PollState /\ b.todo = list  BY <1>3, <1>5 DEF PollState
  <1> HIDE DEF b
  <1>7. poll' \in [Poller -> PollState] /\ poll'[p].todo = list /\ \A q \in Poller \ {p} : poll'[q] = poll[q]
    BY <1>4, <1>6, ItsmParts
  <1>8. /\ itsmCfg' = itsmCfg /\ pushes' = pushes /\ ticket' = ticket /\ incident' = incident
        /\ remote' = remote /\ push' = push /\ patches' = patches /\ learned' = learned
        /\ orphans' = orphans /\ torn' = torn
    BY DEF Begin
  <1>9. ItsmTypeOK'  BY <1>7, <1>8, ItsmParts, ItsmWhole
  <1>10. Pointing'  BY <1>1, <1>7, <1>8 DEF Pointing, Created
  <1> QED  BY <1>9, <1>10

LEMMA CredentialsTyped == ASSUME ItsmInv, NEW p \in Poller, Credentials(p) PROVE ItsmInv'
  <1> USE DEF ItsmInv
  <1>1. itsmCfg' \in ConfigType  BY ItsmParts, FailingKeeps DEF Credentials
  <1>2. poll' \in [Poller -> PollState] /\ \A q \in Poller : poll'[q].todo \in { {}, poll[q].todo }
    <2>1. \/ poll' = [ poll EXCEPT ![p] = Asleep ]
          \/ poll' = [ poll EXCEPT ![p] = [ poll[p] EXCEPT !.at = "next" ] ]
      BY ItsmParts DEF Credentials
    <2>2. [ poll[p] EXCEPT !.at = "next" ] \in PollState /\ [ poll[p] EXCEPT !.at = "next" ].todo = poll[p].todo
      BY ItsmParts DEF PollState
    <2> QED  BY <2>1, <2>2, IdleStates, ItsmParts
  <1>3. /\ pushes' = pushes /\ ticket' = ticket /\ incident' = incident
        /\ remote' = remote /\ push' = push /\ patches' = patches /\ learned' = learned
        /\ orphans' = orphans /\ torn' = torn
    BY DEF Credentials
  <1>4. ItsmTypeOK'  BY <1>1, <1>2, <1>3, ItsmParts, ItsmWhole
  <1>5. Pointing'  BY <1>2, <1>3 DEF Pointing, Created
  <1> QED  BY <1>4, <1>5

LEMMA AskTyped == ASSUME ItsmInv, NEW p \in Poller, Ask(p) PROVE ItsmInv'
  <1> USE DEF ItsmInv
  <1>1. itsmCfg' \in ConfigType  BY ItsmParts, FailingKeeps DEF Ask
  <1>2. poll' \in [Poller -> PollState] /\ \A q \in Poller : poll'[q].todo \subseteq poll[q].todo
    <2>1. PICK t \in poll[p].todo, failed \in BOOLEAN :
             poll' = [ poll EXCEPT ![p] = [ at |-> "answer", todo |-> poll[p].todo \ {t}, of |-> t,
                                            got |-> IF failed THEN "none" ELSE remote[t.id].st ] ]
      BY ItsmParts DEF Ask
    <2>2. t \in Polled /\ t.id \in 1 .. Len(remote) /\ poll[p].todo \in SUBSET Polled
      BY ItsmParts DEF PollState, Pointing, Created
    <2>3. remote[t.id] \in RemoteTicket  BY <2>2, ItsmParts
    <2>4. remote[t.id].st \in RemoteStatus  BY <2>3 DEF RemoteTicket
    <2>5. [ at |-> "answer", todo |-> poll[p].todo \ {t}, of |-> t,
            got |-> IF failed THEN "none" ELSE remote[t.id].st ] \in PollState
      BY <2>2, <2>4 DEF PollState
    <2> QED  BY <2>1, <2>5, ItsmParts
  <1>3. /\ pushes' = pushes /\ ticket' = ticket /\ incident' = incident
        /\ remote' = remote /\ push' = push /\ patches' = patches /\ learned' = learned
        /\ orphans' = orphans /\ torn' = torn
    BY DEF Ask
  <1>4. ItsmTypeOK'  BY <1>1, <1>2, <1>3, ItsmParts, ItsmWhole
  <1>5. Pointing'  BY <1>2, <1>3 DEF Pointing, Created
  <1> QED  BY <1>4, <1>5

LEMMA StillOpenTyped == ASSUME ItsmInv, NEW p \in Poller, StillOpen(p) PROVE ItsmInv'
  <1> USE DEF ItsmInv
  <1>1. poll' \in [Poller -> PollState] /\ \A q \in Poller : poll'[q].todo = poll[q].todo
    BY ItsmParts, Continues DEF StillOpen
  <1>2. /\ itsmCfg' = itsmCfg /\ pushes' = pushes /\ ticket' = ticket /\ incident' = incident
        /\ remote' = remote /\ push' = push /\ patches' = patches /\ learned' = learned
        /\ orphans' = orphans /\ torn' = torn
    BY DEF StillOpen
  <1>3. ItsmTypeOK'  BY <1>1, <1>2, ItsmParts, ItsmWhole
  <1>4. Pointing'  BY <1>1, <1>2 DEF Pointing, Created
  <1> QED  BY <1>3, <1>4

LEMMA UnansweredTyped == ASSUME ItsmInv, NEW p \in Poller, Unanswered(p) PROVE ItsmInv'
  <1> USE DEF ItsmInv
  <1>1. poll' \in [Poller -> PollState] /\ \A q \in Poller : poll'[q].todo = poll[q].todo
    BY ItsmParts, Continues DEF Unanswered
  <1>2. itsmCfg' \in ConfigType  BY ItsmParts, FailingKeeps DEF Unanswered
  <1>3. poll[p].of.of \in Ticket  BY ItsmParts DEF PollState, Polled
  <1>4. ticket' \in [Ticket -> TicketRow] /\ \A k \in Ticket : ticket'[k].id = ticket[k].id
    BY <1>3, ItsmParts, TicketStatus DEF Unanswered, Missing
  <1>5. /\ pushes' = pushes /\ incident' = incident
        /\ remote' = remote /\ push' = push /\ patches' = patches /\ learned' = learned
        /\ orphans' = orphans /\ torn' = torn
    BY DEF Unanswered
  <1>6. ItsmTypeOK'  BY <1>1, <1>2, <1>4, <1>5, ItsmParts, ItsmWhole
  <1>7. Pointing'  BY <1>1, <1>4, <1>5 DEF Pointing, Created
  <1> QED  BY <1>6, <1>7

\* A resolved ticket: its status and its flag.
ResolvedTable(k, b, c) ==
    [ ticket EXCEPT ![k].st = IF b THEN @ ELSE "RESOLVED", ![k].stored = @ \/ c ]

LEMMA TicketResolved ==
  ASSUME ticket \in [Ticket -> TicketRow], NEW k \in Ticket, NEW b \in BOOLEAN, NEW c \in BOOLEAN,
         ticket' = ResolvedTable(k, b, c)
  PROVE  /\ ticket' \in [Ticket -> TicketRow]
         /\ \A j \in Ticket : ticket'[j].id = ticket[j].id
         /\ \A j \in Ticket \ {k} : ticket'[j] = ticket[j]
         /\ ticket'[k].st = IF b THEN ticket[k].st ELSE "RESOLVED"
         /\ ticket'[k].stored = (ticket[k].stored \/ c)
  <1> DEFINE st == IF b THEN ticket[k].st ELSE "RESOLVED"
             a == [ ticket[k] EXCEPT !.st = st ]
             flag == ticket[k].stored \/ c
             d == [ a EXCEPT !.stored = flag ]
  <1>1. ticket[k] \in TicketRow  OBVIOUS
  <1>2. a \in TicketRow /\ a.id = ticket[k].id /\ a.stored = ticket[k].stored /\ a.st = st
    BY <1>1 DEF TicketRow
  <1>3. a.stored \/ c <=> flag  BY <1>2
  <1>4. ticket' = [ ticket EXCEPT ![k] = [ a EXCEPT !.stored = a.stored \/ c ] ]  BY Zenon DEF ResolvedTable
  <1> HIDE DEF a
  <1>5. [ a EXCEPT !.stored = a.stored \/ c ] = d  BY <1>2, Zenon
  <1>6. d \in TicketRow /\ d.id = a.id /\ d.st = a.st /\ d.stored = flag
    BY <1>2 DEF TicketRow
  <1> HIDE DEF d, st, flag
  <1>7. ticket' = [ ticket EXCEPT ![k] = d ]  BY <1>4, <1>5
  <1>8. /\ ticket' \in [Ticket -> TicketRow] /\ ticket'[k] = d
        /\ \A j \in Ticket \ {k} : ticket'[j] = ticket[j]
    BY <1>6, <1>7
  <1>9. d.id = ticket[k].id /\ d.st = st /\ d.stored = flag  BY <1>2, <1>6
  <1>10. \A j \in Ticket : ticket'[j].id = ticket[j].id  BY <1>8, <1>9
  <1> QED  BY <1>8, <1>9, <1>10, Zenon DEF st, flag

\* What the end of a ticket's poll does, in the terms the proofs use.
ResolveParts(p, k, fail, learns) ==
    /\ fail \in SUBSET { "ticket", "incident", "pattern", "flag" } /\ learns \in BOOLEAN
    /\ k = poll[p].of.of /\ k \in Ticket
    /\ poll[p].at = "answer"
    /\ learns => "incident" \notin fail /\ ~ poll[p].of.stored
    /\ Faults(Cardinality(fail))
    /\ ticket' \in [Ticket -> TicketRow]
    /\ \A j \in Ticket : ticket'[j].id = ticket[j].id
    /\ \A j \in Ticket \ {k} : ticket'[j] = ticket[j]
    /\ ticket'[k].st = IF "ticket" \in fail THEN ticket[k].st ELSE "RESOLVED"
    /\ ticket'[k].stored = (ticket[k].stored \/ (learns /\ "flag" \notin fail))
    /\ incident' = IF "incident" \in fail THEN incident ELSE [ incident EXCEPT ![k] = "HUMAN_RESOLVED" ]
    /\ learned' = IF learns /\ "pattern" \notin fail THEN [ learned EXCEPT ![k] = @ + 1 ] ELSE learned
    /\ torn' = IF "incident" \in fail THEN torn \union {k} ELSE torn
    /\ poll' = Continue(p)
    /\ pushes' = pushes /\ remote' = remote /\ push' = push /\ patches' = patches /\ orphans' = orphans

LEMMA Resolves ==
  ASSUME ItsmTypeOK, NEW p \in Poller, Resolve(p)
  PROVE  \E k, fail, learns : ResolveParts(p, k, fail, learns)
  <1> DEFINE k == poll[p].of.of
  <1>1. PICK fail \in SUBSET { "ticket", "incident", "pattern", "flag" }, notes \in BOOLEAN :
          LET learns == "incident" \notin fail /\ Learns(poll[p].of, notes) IN
          /\ Faults(Cardinality(fail))
          /\ ticket' = [ ticket EXCEPT
                 ![k].st = IF "ticket" \in fail THEN @ ELSE "RESOLVED",
                 ![k].stored = @ \/ (learns /\ "flag" \notin fail) ]
          /\ incident' = IF "incident" \in fail THEN incident ELSE [ incident EXCEPT ![k] = "HUMAN_RESOLVED" ]
          /\ learned' = IF learns /\ "pattern" \notin fail THEN [ learned EXCEPT ![k] = @ + 1 ] ELSE learned
          /\ torn' = IF "incident" \in fail THEN torn \union {k} ELSE torn
    BY Zenon DEF Resolve
  <1> DEFINE learns == "incident" \notin fail /\ Learns(poll[p].of, notes)
             b == "ticket" \in fail
             c == learns /\ "flag" \notin fail
  <1>2. k \in Ticket /\ learns \in BOOLEAN /\ b \in BOOLEAN /\ c \in BOOLEAN
    BY ItsmParts DEF PollState, Polled
  <1>3. learns => "incident" \notin fail /\ ~ poll[p].of.stored  BY DEF Learns
  <1>4. ticket' = ResolvedTable(k, b, c)  BY <1>1, Zenon DEF ResolvedTable
  <1>5. ticket \in [Ticket -> TicketRow]  BY ItsmParts
  <1>6. /\ incident' = IF "incident" \in fail THEN incident ELSE [ incident EXCEPT ![k] = "HUMAN_RESOLVED" ]
        /\ learned' = IF learns /\ "pattern" \notin fail THEN [ learned EXCEPT ![k] = @ + 1 ] ELSE learned
        /\ torn' = IF "incident" \in fail THEN torn \union {k} ELSE torn
        /\ Faults(Cardinality(fail))
    BY <1>1, Zenon
  <1> HIDE DEF learns, k, b, c
  <1>7. /\ ticket' \in [Ticket -> TicketRow]
        /\ \A j \in Ticket : ticket'[j].id = ticket[j].id
        /\ \A j \in Ticket \ {k} : ticket'[j] = ticket[j]
        /\ ticket'[k].st = IF b THEN ticket[k].st ELSE "RESOLVED"
        /\ ticket'[k].stored = (ticket[k].stored \/ c)
    BY <1>2, <1>4, <1>5, TicketResolved, Zenon
  <1>8. /\ poll[p].at = "answer" /\ poll' = Continue(p)
        /\ pushes' = pushes /\ remote' = remote /\ push' = push /\ patches' = patches /\ orphans' = orphans
    BY DEF Resolve
  <1>9. ResolveParts(p, k, fail, learns)
    BY <1>2, <1>3, <1>6, <1>7, <1>8 DEF ResolveParts, k, b, c
  <1> QED  BY <1>9

\* The statements that fail are finitely many.
LEMMA FailedStatements ==
  ASSUME NEW fail \in SUBSET { "ticket", "incident", "pattern", "flag" }
  PROVE  IsFiniteSet(fail) /\ Cardinality(fail) \in Nat
  <1>1. IsFiniteSet({ "ticket" })  BY FS_Singleton
  <1>2. IsFiniteSet({ "ticket" } \union { "incident" })  BY <1>1, FS_AddElement
  <1>3. IsFiniteSet({ "ticket", "incident" } \union { "pattern" })
    <2>1. { "ticket" } \union { "incident" } = { "ticket", "incident" }  OBVIOUS
    <2> QED  BY <1>2, <2>1, FS_AddElement
  <1>4. IsFiniteSet({ "ticket", "incident", "pattern" } \union { "flag" })
    <2>1. { "ticket", "incident" } \union { "pattern" } = { "ticket", "incident", "pattern" }  OBVIOUS
    <2> QED  BY <1>3, <2>1, FS_AddElement
  <1>5. fail \in SUBSET ({ "ticket", "incident", "pattern" } \union { "flag" })  OBVIOUS
  <1> QED  BY <1>4, <1>5, FS_Subset, FS_CardinalityType

LEMMA ResolveTyped == ASSUME ItsmInv, NEW p \in Poller, Resolve(p) PROVE ItsmInv'
  <1> USE DEF ItsmInv
  <1>1. PICK k, fail, learns : ResolveParts(p, k, fail, learns)  BY Resolves
  <1>2. poll' \in [Poller -> PollState] /\ \A q \in Poller : poll'[q].todo = poll[q].todo
    BY <1>1, ItsmParts, Continues, ZenonT(40) DEF ResolveParts
  <1>3. Cardinality(fail) \in Nat  BY <1>1, FailedStatements DEF ResolveParts
  <1>4. itsmCfg' \in ConfigType  BY <1>1, <1>3, ItsmParts, FaultsKeep DEF ResolveParts
  <1>5. /\ incident' \in [Ticket -> { "FIX_FAILED", "TICKET_CREATED", "HUMAN_RESOLVED" }]
        /\ learned' \in [Ticket -> Nat] /\ torn' \subseteq Ticket
    BY <1>1, ItsmParts DEF ResolveParts
  <1>6. /\ ticket' \in [Ticket -> TicketRow] /\ \A j \in Ticket : ticket'[j].id = ticket[j].id
        /\ pushes' = pushes /\ remote' = remote /\ push' = push /\ patches' = patches /\ orphans' = orphans
    BY <1>1 DEF ResolveParts
  <1>7. ItsmTypeOK'  BY <1>2, <1>4, <1>5, <1>6, ItsmParts, ItsmWhole
  <1>8. Pointing'  BY <1>2, <1>6 DEF Pointing, Created
  <1> QED  BY <1>7, <1>8

LEMMA RestartTyped == ASSUME ItsmInv, Restart PROVE ItsmInv'
  <1> USE DEF ItsmInv
  <1>1. itsmCfg' \in ConfigType  BY ItsmParts DEF Restart, ConfigType
  <1>2. orphans' \subseteq 1 .. MaxRemote
    <2>1. \A w \in Pusher : push[w].id \in 0 .. MaxRemote  BY ItsmParts DEF PushState
    <2> QED  BY <2>1, ItsmParts, ItsmConstants DEF Restart
  <1>3. push' \in [Pusher -> PushState] /\ \A w \in Pusher : push'[w].id = 0
    BY IdleStates DEF Restart
  <1>4. poll' \in [Poller -> PollState] /\ \A p \in Poller : poll'[p].todo = {}
    BY IdleStates DEF Restart
  <1>5. /\ pushes' = pushes /\ ticket' = ticket /\ incident' = incident /\ remote' = remote
        /\ patches' = {} /\ learned' = learned /\ torn' = torn
    BY DEF Restart
  <1>6. ItsmTypeOK'  BY <1>1, <1>2, <1>3, <1>4, <1>5, ItsmParts, ItsmWhole
  <1>7. Pointing'  BY <1>3, <1>4, <1>5 DEF Pointing, Created
  <1> QED  BY <1>6, <1>7

LEMMA ItsmInductive == ItsmInv /\ [ItsmNext]_itsmVars => ItsmInv'
  <1> SUFFICES ASSUME ItsmInv, [ItsmNext]_itsmVars PROVE ItsmInv'  OBVIOUS
  <1>1. CASE UNCHANGED itsmVars
    BY <1>1 DEF itsmVars, ItsmInv, ItsmTypeOK, Pointing, Created
  <1>2. ASSUME NEW w \in Pusher, Pushes(w) PROVE ItsmInv'
    BY <1>2, StartPushTyped, InsertTyped, PostTyped, StoredTyped DEF Pushes, Escalate, Retry
  <1>3. ASSUME NEW p \in Poller, Polls(p) PROVE ItsmInv'
    BY <1>3, BeginTyped, CredentialsTyped, AskTyped, UnansweredTyped, StillOpenTyped, ResolveTyped
       DEF Polls
  <1>4. ASSUME People PROVE ItsmInv'
    BY <1>4, UpdateTicketTyped, CloseTyped DEF People
  <1> QED  BY <1>1, <1>2, <1>3, <1>4, PatchTyped, RestartTyped DEF ItsmNext

\* The tables and the coroutines keep their types, and every id that a ticket, a push, a PATCH
\* or a poller carries is one the ITSM tool has given out.
THEOREM ItsmTyped ==
  ItsmSpec => []ItsmTypeOK
  <1>1. ItsmInv => ItsmTypeOK  BY DEF ItsmInv
  <1> QED  BY <1>1, ItsmInitInv, ItsmInductive, PTL DEF ItsmSpec

-----------------------------------------------------------------------------
(* Whom the tickets of the ITSM tool belong to *)

Active(w) == push[w].at # "idle"

\* A push carries the ticket it had created, between the POST and the answer.
Carrying(w) ==
    /\ push[w].at \in { "idle", "enrich", "post" } => push[w].id = 0
    /\ push[w].id # 0 => remote[push[w].id].of = push[w].of
    /\ Active(w) => push[w].kind \in { "escalate", "retry" }

\* A push that is alone is the only one of its ticket, and if it is a retry the ticket has
\* no copy yet.
Solitary(w) ==
    Active(w) /\ push[w].alone =>
        /\ \A v \in Pusher \ {w} : Active(v) => push[v].of # push[w].of
        /\ push[w].kind = "retry" => ticket[push[w].of].id = 0

OrphanInv ==
    /\ ItsmInv
    /\ \A w \in Pusher : Carrying(w) /\ Solitary(w)
    /\ NoOrphan

LEMMA RemoteDomain == ASSUME ItsmTypeOK PROVE DOMAIN remote = 1 .. Len(remote)
  <1>1. remote \in Seq(RemoteTicket)  BY ItsmParts
  <1> QED  BY <1>1

LEMMA OrphanInitInv == ASSUME ItsmInit PROVE OrphanInv
  <1>1. ItsmInv  BY ItsmInitInv
  <1>2. \A w \in Pusher : push[w] = NoPush  BY DEF ItsmInit
  <1>3. remote = << >>  BY DEF ItsmInit
  <1> QED  BY <1>1, <1>2, <1>3, IdleStates DEF OrphanInv, Carrying, Solitary, Active, NoOrphan

\* A step that touches neither the ids nor the owners nor the pushes.
LEMMA OrphanKept ==
  ASSUME OrphanInv, ItsmInv', push' = push, orphans' = orphans,
         \A k \in Ticket : ticket'[k].id = ticket[k].id,
         Len(remote') = Len(remote), \A r \in 1 .. Len(remote) : remote'[r].of = remote[r].of
  PROVE  OrphanInv'
  <1> USE DEF OrphanInv
  <1>1. ItsmTypeOK /\ ItsmTypeOK'  BY DEF ItsmInv
  <1>2. DOMAIN remote = 1 .. Len(remote)  BY <1>1, RemoteDomain
  <1>3. DOMAIN remote' = 1 .. Len(remote')
    <2>1. remote' \in Seq(RemoteTicket)  BY <1>1 DEF ItsmTypeOK, RemoteTicket
    <2> QED  BY <2>1
  <1>4. \A w \in Pusher : push[w].of \in Ticket  BY <1>1, ItsmParts DEF PushState
  <1>5. \A w \in Pusher : Carrying(w)' /\ Solitary(w)'
    <2> TAKE w \in Pusher
    <2>1. push[w].id # 0 => push[w].id \in 1 .. Len(remote)  BY DEF ItsmInv, Pointing, Created
    <2>2. Carrying(w)'  BY <2>1 DEF Carrying, Active
    <2>3. Solitary(w)'  BY <1>4 DEF Solitary, Active
    <2> QED  BY <2>2, <2>3
  <1>6. \A r \in DOMAIN remote : remote[r].of \in Ticket
    <2> TAKE r \in DOMAIN remote
    <2>1. remote[r] \in RemoteTicket  BY <1>1, <1>2, ItsmParts
    <2> QED  BY <2>1 DEF RemoteTicket
  <1>7. NoOrphan'  BY <1>2, <1>3, <1>6 DEF NoOrphan
  <1> QED  BY <1>5, <1>7

LEMMA StartPushOrphan ==
  ASSUME OrphanInv, NEW w \in Pusher, NEW k \in Ticket, NEW kind \in { "escalate", "retry" },
         NEW at \in { "enrich", "post" }, StartPush(w, k, kind, at),
         kind = "retry" => ticket[k].id = 0
  PROVE  OrphanInv'
  <1> USE DEF OrphanInv
  <1>1. ItsmInv'  BY StartPushTyped
  <1>2. /\ push[w].at = "idle" /\ ticket' = ticket /\ remote' = remote /\ orphans' = orphans
        /\ push' = [ v \in Pusher |->
             IF v = w THEN [ at |-> at, of |-> k, kind |-> kind, id |-> 0, alone |-> Pushing(k) = {} ]
             ELSE IF v \in Pushing(k) THEN [ push[v] EXCEPT !.alone = FALSE ] ELSE push[v] ]
    BY DEF StartPush
  <1>3. push \in [Pusher -> PushState]  BY ItsmParts DEF ItsmInv
  <1>4. /\ push'[w].at = at /\ push'[w].of = k /\ push'[w].kind = kind /\ push'[w].id = 0
        /\ push'[w].alone => Pushing(k) = {}
    BY <1>2
  <1>5. ASSUME NEW v \in Pusher \ {w}
        PROVE  /\ push'[v].at = push[v].at /\ push'[v].of = push[v].of /\ push'[v].kind = push[v].kind
               /\ push'[v].id = push[v].id
               /\ push'[v].alone => push[v].alone /\ v \notin Pushing(k)
    <2>1. push[v] \in PushState  BY <1>3
    <2>2. CASE v \in Pushing(k)
      <3>1. push'[v] = [ push[v] EXCEPT !.alone = FALSE ]  BY <1>2, <2>2
      <3> QED  BY <2>1, <3>1 DEF PushState
    <2>3. CASE v \notin Pushing(k)
      BY <1>2, <2>3
    <2> QED  BY <2>2, <2>3
  <1>6. push[w].id = 0  BY <1>2 DEF Carrying, Active
  <1>7. \A v \in Pusher : Carrying(v)'  BY <1>2, <1>4, <1>5 DEF Carrying, Active
  <1>8. Solitary(w)'
    <2> SUFFICES ASSUME push'[w].alone
                 PROVE  /\ \A v \in Pusher \ {w} : push'[v].at # "idle" => push'[v].of # push'[w].of
                        /\ push'[w].kind = "retry" => ticket'[push'[w].of].id = 0
      BY DEF Solitary, Active
    <2>1. Pushing(k) = {}  BY <1>4
    <2> QED  BY <1>2, <1>4, <1>5, <2>1 DEF Pushing
  <1>9. ASSUME NEW v \in Pusher \ {w} PROVE Solitary(v)'
    <2> SUFFICES ASSUME push'[v].at # "idle", push'[v].alone
                 PROVE  /\ \A u \in Pusher \ {v} : push'[u].at # "idle" => push'[u].of # push'[v].of
                        /\ push'[v].kind = "retry" => ticket'[push'[v].of].id = 0
      BY DEF Solitary, Active
    <2>1. push[v].alone /\ v \notin Pushing(k) /\ push[v].at # "idle"  BY <1>5
    <2>2. push[v].of # k  BY <2>1 DEF Pushing
    <2>3. Solitary(v)  OBVIOUS
    <2> QED  BY <1>2, <1>4, <1>5, <2>1, <2>2, <2>3 DEF Solitary, Active
  <1>10. NoOrphan'
    <2>1. \A v \in Pusher : push'[v].id = push[v].id  BY <1>4, <1>5, <1>6
    <2> QED  BY <1>2, <2>1 DEF NoOrphan
  <1> QED  BY <1>1, <1>7, <1>8, <1>9, <1>10

LEMMA InsertOrphan == ASSUME OrphanInv, NEW w \in Pusher, Insert(w) PROVE OrphanInv'
  <1> USE DEF OrphanInv
  <1>1. ItsmInv'  BY InsertTyped
  <1>2. push[w].of \in Ticket  BY ItsmParts, SMTT(40) DEF ItsmInv, PushState
  <1>3. \A k \in Ticket : ticket'[k].id = ticket[k].id
    BY <1>2, ItsmParts, TicketStatus DEF ItsmInv, Insert
  <1>4. \A v \in Pusher : push'[v].id = push[v].id /\ push'[v].of = push[v].of
                          /\ push'[v].kind = push[v].kind /\ push'[v].alone = push[v].alone
                          /\ push'[v].at = IF v = w THEN "post" ELSE push[v].at
    BY ItsmParts, PushAt DEF ItsmInv, Insert
  <1>5. remote' = remote /\ orphans' = orphans /\ push[w].at = "enrich"  BY DEF Insert
  <1>6. \A v \in Pusher : Carrying(v)'  BY <1>4, <1>5 DEF Carrying, Active
  <1>7. \A v \in Pusher : push[v].of \in Ticket  BY ItsmParts DEF ItsmInv, PushState
  <1>8. \A v \in Pusher : Solitary(v)'  BY <1>3, <1>4, <1>5, <1>7 DEF Solitary, Active
  <1>9. \A r \in DOMAIN remote : remote[r].of \in Ticket
    <2> TAKE r \in DOMAIN remote
    <2>1. remote[r] \in RemoteTicket  BY ItsmParts, RemoteDomain DEF ItsmInv
    <2> QED  BY <2>1 DEF RemoteTicket
  <1>10. NoOrphan'  BY <1>3, <1>4, <1>5, <1>9 DEF NoOrphan
  <1> QED  BY <1>1, <1>6, <1>8, <1>10

LEMMA PostOrphan == ASSUME OrphanInv, NEW w \in Pusher, Post(w) PROVE OrphanInv'
  <1> USE DEF OrphanInv
  <1>1. ItsmInv'  BY PostTyped
  <1>2. push[w].of \in Ticket /\ push \in [Pusher -> PushState] /\ ItsmTypeOK
    BY ItsmParts DEF ItsmInv, PushState
  <1>3. push[w].at = "post" /\ push[w].id = 0 /\ ticket' = ticket /\ orphans' = orphans
    BY DEF Post, Carrying
  <1>4. DOMAIN remote = 1 .. Len(remote) /\ Len(remote) \in Nat  BY <1>2, RemoteDomain, ItsmParts
  <1>5. CASE /\ Len(remote) < MaxRemote
             /\ remote' = Append(remote, [ of |-> push[w].of, st |-> "New" ])
             /\ push' = [ push EXCEPT ![w].at = "answer", ![w].id = Len(remote) + 1 ]
    <2>1. /\ remote' \in Seq(RemoteTicket) /\ Len(remote') = Len(remote) + 1
          /\ remote'[Len(remote) + 1].of = push[w].of
          /\ \A r \in 1 .. Len(remote) : remote'[r] = remote[r]
      BY <1>2, <1>5, Appended
    <2>2. PICK n \in 0 .. MaxRemote : n = Len(remote) + 1  BY <1>4, <1>5, ItsmConstants
    <2>3. push' = [ push EXCEPT ![w].at = "answer", ![w].id = n ]  BY <1>5, <2>2
    <2>4. /\ \A v \in Pusher \ {w} : push'[v] = push[v]
          /\ push'[w].id = n /\ push'[w].at = "answer" /\ push'[w].of = push[w].of
          /\ push'[w].kind = push[w].kind /\ push'[w].alone = push[w].alone
      BY <1>2, <2>3, PushAnswered, Zenon
    <2>5. Carrying(w)'  BY <1>3, <2>1, <2>2, <2>4 DEF Carrying, Active
    <2>6. ASSUME NEW v \in Pusher \ {w} PROVE Carrying(v)'
      <3>1. push[v].id # 0 => push[v].id \in 1 .. Len(remote)  BY DEF ItsmInv, Pointing, Created
      <3> QED  BY <2>1, <2>4, <3>1 DEF Carrying, Active
    <2>7. \A v \in Pusher : Solitary(v)'  BY <1>3, <2>4 DEF Solitary, Active
    <2>8. NoOrphan'
      <3>1. DOMAIN remote' = 1 .. Len(remote')  BY <2>1
      <3>2. ASSUME NEW r \in DOMAIN remote'
            PROVE  \/ ticket'[remote'[r].of].id = r \/ r \in orphans'
                   \/ \E v \in Pusher : push'[v].id = r
        <4>1. CASE r = n  BY <2>4, <4>1
        <4>2. CASE r # n
          <5>1. r \in DOMAIN remote /\ remote'[r] = remote[r] /\ r # 0
            BY <1>4, <2>1, <2>2, <3>1, <4>2
          <5> QED  BY <1>3, <2>4, <5>1 DEF NoOrphan
        <4> QED  BY <4>1, <4>2
      <3> QED  BY <3>2 DEF NoOrphan
    <2> QED  BY <1>1, <2>5, <2>6, <2>7, <2>8
  <1>6. CASE push' = [ push EXCEPT ![w].at = "answer" ] /\ UNCHANGED remote
    <2>1. \A v \in Pusher : push'[v].id = push[v].id /\ push'[v].of = push[v].of
                            /\ push'[v].kind = push[v].kind /\ push'[v].alone = push[v].alone
                            /\ push'[v].at = IF v = w THEN "answer" ELSE push[v].at
      BY <1>2, <1>6, PushAt
    <2>2. \A v \in Pusher : Carrying(v)'  BY <1>3, <1>6, <2>1 DEF Carrying, Active
    <2>3. \A v \in Pusher : Solitary(v)'  BY <1>3, <2>1 DEF Solitary, Active
    <2>4. NoOrphan'  BY <1>3, <1>6, <2>1 DEF NoOrphan
    <2> QED  BY <1>1, <2>2, <2>3, <2>4
  <1> QED  BY <1>5, <1>6 DEF Post

LEMMA StoredOrphan == ASSUME OrphanInv, NEW w \in Pusher, Stored(w) PROVE OrphanInv'
  <1> USE DEF OrphanInv
  <1> DEFINE k == push[w].of
             r == push[w].id
  <1>1. ItsmInv'  BY StoredTyped
  <1>2. /\ k \in Ticket /\ r \in 0 .. MaxRemote /\ push[w].kind \in { "none", "escalate", "retry" }
        /\ push \in [Pusher -> PushState] /\ ticket \in [Ticket -> TicketRow]
    BY ItsmParts DEF ItsmInv, PushState
  <1>3. /\ push[w].at = "answer" /\ remote' = remote /\ push' = [ push EXCEPT ![w] = NoPush ]
    BY DEF Stored
  <1>4. push'[w] = NoPush /\ \A v \in Pusher \ {w} : push'[v] = push[v]  BY <1>2, <1>3
  <1>5. r # 0 => remote[r].of = k  BY DEF Carrying, Active
  <1>6. \/ ticket' = ticket /\ orphans' = orphans \union ({r} \ {0})
        \/ /\ r # 0 /\ ticket' = [ ticket EXCEPT ![k].id = r ]
           /\ orphans' = orphans \union
                  (IF push[w].kind = "escalate" \/ ~ push[w].alone THEN {ticket[k].id} \ {0} ELSE {})
    BY DEF Stored
  <1>7. push[w].kind \in { "escalate", "retry" }  BY <1>3 DEF Carrying, Active
  <1>8. ASSUME NEW v \in Pusher PROVE Carrying(v)'
    <2>1. CASE v = w  BY <1>4, <2>1, IdleStates DEF Carrying, Active
    <2>2. CASE v # w  BY <1>3, <1>4, <2>2 DEF Carrying, Active
    <2> QED  BY <2>1, <2>2
  <1>9. \A j \in Ticket \ {k} : ticket'[j] = ticket[j]  BY <1>2, <1>6
  <1>10. ASSUME NEW v \in Pusher PROVE Solitary(v)'
    <2>1. CASE v = w  BY <1>4, <2>1, IdleStates DEF Solitary, Active
    <2>2. CASE v # w
      <3> SUFFICES ASSUME push[v].at # "idle", push[v].alone
                   PROVE  /\ \A u \in Pusher \ {v} : push'[u].at # "idle" => push'[u].of # push[v].of
                          /\ push[v].kind = "retry" => ticket'[push[v].of].id = 0
        BY <1>4, <2>2 DEF Solitary, Active
      <3>1. /\ \A u \in Pusher \ {v} : push[u].at # "idle" => push[u].of # push[v].of
            /\ push[v].kind = "retry" => ticket[push[v].of].id = 0
        BY DEF Solitary, Active
      <3>2. push[v].of # k /\ push[v].of \in Ticket  BY <1>2, <1>3, <2>2, <3>1 DEF PushState
      <3> QED  BY <1>4, <1>9, <3>1, <3>2, IdleStates
    <2> QED  BY <2>1, <2>2
  <1>11. DOMAIN remote = 1 .. Len(remote) /\ \A q \in DOMAIN remote : remote[q].of \in Ticket /\ q # 0
    <2>1. DOMAIN remote = 1 .. Len(remote)  BY RemoteDomain DEF ItsmInv
    <2>2. \A q \in DOMAIN remote : remote[q] \in RemoteTicket  BY <2>1, ItsmParts DEF ItsmInv
    <2> QED  BY <2>1, <2>2 DEF RemoteTicket
  <1>12. ASSUME NEW q \in DOMAIN remote
         PROVE  \/ ticket'[remote[q].of].id = q \/ q \in orphans'
                \/ \E v \in Pusher : push'[v].id = q
    <2>1. CASE q \in orphans  BY <1>6, <2>1
    <2>2. CASE \E v \in Pusher \ {w} : push[v].id = q  BY <1>4, <2>2
    <2>3. CASE q = r
      <3>1. CASE ticket' = ticket /\ orphans' = orphans \union ({r} \ {0})
        BY <1>11, <2>3, <3>1
      <3>2. CASE ticket' = [ ticket EXCEPT ![k].id = r ]
        <4>1. ticket'[k].id = r  BY <1>2, <3>2, TicketId
        <4> QED  BY <1>5, <1>11, <2>3, <4>1
      <3> QED  BY <1>6, <3>1, <3>2
    <2>4. CASE ticket[remote[q].of].id = q /\ q # r
      <3>1. CASE ticket' = ticket  BY <2>4, <3>1
      <3>2. CASE remote[q].of # k  BY <1>9, <1>11, <2>4, <3>2
      <3>3. CASE /\ remote[q].of = k
                 /\ orphans' = orphans \union
                       (IF push[w].kind = "escalate" \/ ~ push[w].alone THEN {ticket[k].id} \ {0} ELSE {})
        <4>1. CASE push[w].kind = "escalate" \/ ~ push[w].alone
          BY <1>11, <2>4, <3>3, <4>1
        <4>2. CASE push[w].kind = "retry" /\ push[w].alone
          <5>1. ticket[k].id = 0  BY <1>3, <4>2 DEF Solitary, Active
          <5> QED  BY <1>11, <2>4, <3>3, <5>1
        <4> QED  BY <1>2, <1>7, <4>1, <4>2
      <3> QED  BY <1>6, <3>1, <3>2, <3>3
    <2> QED  BY <1>4, <2>1, <2>2, <2>3, <2>4 DEF NoOrphan
  <1>13. NoOrphan'  BY <1>3, <1>12 DEF NoOrphan
  <1> QED  BY <1>1, <1>8, <1>10, <1>13

LEMMA OthersOrphan ==
  ASSUME OrphanInv,
         \/ \E k \in Ticket : \E new \in Transitions(ticket[k].st) : UpdateTicket(k, new)
         \/ \E m \in patches : Patch(m)
         \/ \E r \in DOMAIN remote, st \in { "Resolved", "Cancelled" } : Close(r, st)
         \/ \E p \in Poller : Polls(p)
  PROVE  OrphanInv'
  <1>1. ItsmInv /\ ItsmTypeOK /\ ticket \in [Ticket -> TicketRow]
    BY ItsmParts DEF OrphanInv, ItsmInv
  <1>2. ASSUME NEW k \in Ticket, NEW new \in Transitions(ticket[k].st), UpdateTicket(k, new)
        PROVE  OrphanInv'
    <2>1. new \in { "IN_PROGRESS", "RESOLVED", "OPEN" }  BY DEF Transitions
    <2>2. \A j \in Ticket : ticket'[j].id = ticket[j].id
      BY <1>1, <1>2, <2>1, TicketStatus DEF UpdateTicket
    <2>3. push' = push /\ orphans' = orphans /\ remote' = remote  BY <1>2 DEF UpdateTicket
    <2> QED  BY <1>1, <1>2, <2>2, <2>3, UpdateTicketTyped, OrphanKept
  <1>3. ASSUME NEW m \in patches, Patch(m) PROVE OrphanInv'
    <2>1. m[1] \in 1 .. Len(remote) /\ m[2] \in RemoteStatus
      BY <1>1, ItsmParts DEF ItsmInv, Pointing, Created, RemoteStatus
    <2>2. Len(remote') = Len(remote) /\ \A q \in 1 .. Len(remote) : remote'[q].of = remote[q].of
      BY <1>1, <1>3, <2>1, RemoteChanged DEF Patch
    <2>3. push' = push /\ orphans' = orphans /\ ticket' = ticket  BY <1>3 DEF Patch
    <2> QED  BY <1>1, <1>3, <2>2, <2>3, PatchTyped, OrphanKept
  <1>4. ASSUME NEW r \in DOMAIN remote, NEW st \in { "Resolved", "Cancelled" }, Close(r, st)
        PROVE  OrphanInv'
    <2>1. r \in 1 .. Len(remote) /\ st \in RemoteStatus
      BY <1>1, RemoteDomain DEF RemoteStatus
    <2>2. Len(remote') = Len(remote) /\ \A q \in 1 .. Len(remote) : remote'[q].of = remote[q].of
      BY <1>1, <1>4, <2>1, RemoteChanged DEF Close
    <2>3. push' = push /\ orphans' = orphans /\ ticket' = ticket  BY <1>4 DEF Close
    <2> QED  BY <1>1, <1>4, <2>2, <2>3, CloseTyped, OrphanKept
  <1>5. ASSUME NEW p \in Poller, Begin(p) \/ Credentials(p) \/ Ask(p) \/ StillOpen(p) PROVE OrphanInv'
    <2>1. push' = push /\ orphans' = orphans /\ ticket' = ticket /\ remote' = remote
      BY <1>5 DEF Begin, Credentials, Ask, StillOpen
    <2>2. ItsmInv'  BY <1>1, <1>5, BeginTyped, CredentialsTyped, AskTyped, StillOpenTyped
    <2> QED  BY <2>1, <2>2, OrphanKept
  <1>6. ASSUME NEW p \in Poller, Unanswered(p) PROVE OrphanInv'
    <2>1. poll[p].of.of \in Ticket  BY <1>1, ItsmParts DEF PollState, Polled
    <2>2. \A k \in Ticket : ticket'[k].id = ticket[k].id
      <3>1. ticket' = ticket \/ ticket' = [ ticket EXCEPT ![poll[p].of.of].st = "STALE" ]
        BY <1>6 DEF Unanswered, Missing
      <3> QED  BY <1>1, <2>1, <3>1, TicketStatus
    <2>3. push' = push /\ orphans' = orphans /\ remote' = remote  BY <1>6 DEF Unanswered
    <2> QED  BY <1>1, <1>6, <2>2, <2>3, UnansweredTyped, OrphanKept
  <1>7. ASSUME NEW p \in Poller, Resolve(p) PROVE OrphanInv'
    <2>1. PICK k, fail, learns : ResolveParts(p, k, fail, learns)  BY <1>1, <1>7, Resolves
    <2>2. /\ push' = push /\ orphans' = orphans /\ remote' = remote
          /\ \A j \in Ticket : ticket'[j].id = ticket[j].id
      BY <2>1 DEF ResolveParts
    <2> QED  BY <1>1, <1>7, <2>2, ResolveTyped, OrphanKept
  <1> QED  BY <1>2, <1>3, <1>4, <1>5, <1>6, <1>7 DEF Polls

LEMMA RestartOrphan == ASSUME OrphanInv, Restart PROVE OrphanInv'
  <1> USE DEF OrphanInv
  <1>1. ItsmInv'  BY RestartTyped
  <1>2. \A w \in Pusher : push'[w] = NoPush  BY DEF Restart
  <1>3. \A w \in Pusher : Carrying(w)' /\ Solitary(w)'
    BY <1>2, IdleStates DEF Carrying, Solitary, Active
  <1>4. \A r \in DOMAIN remote : r # 0  BY RemoteDomain, ItsmParts DEF ItsmInv
  <1>5. NoOrphan'  BY <1>4 DEF NoOrphan, Restart
  <1> QED  BY <1>1, <1>3, <1>5

LEMMA OrphanInductive == OrphanInv /\ [ItsmNext]_itsmVars => OrphanInv'
  <1> SUFFICES ASSUME OrphanInv, [ItsmNext]_itsmVars PROVE OrphanInv'  OBVIOUS
  <1>1. CASE UNCHANGED itsmVars
    <2>1. ItsmInv'  BY <1>1, ItsmInductive DEF OrphanInv
    <2>2. push' = push /\ orphans' = orphans /\ ticket' = ticket /\ remote' = remote
      BY <1>1 DEF itsmVars
    <2> QED  BY <2>1, <2>2, OrphanKept
  <1>2. ASSUME NEW w \in Pusher, Pushes(w) PROVE OrphanInv'
    <2>1. ASSUME NEW k \in Ticket, Escalate(w, k) PROVE OrphanInv'
      BY <2>1, StartPushOrphan DEF Escalate
    <2>2. ASSUME NEW k \in Ticket, Retry(w, k) PROVE OrphanInv'
      BY <2>2, StartPushOrphan DEF Retry
    <2> QED  BY <1>2, <2>1, <2>2, InsertOrphan, PostOrphan, StoredOrphan DEF Pushes
  <1> QED  BY <1>1, <1>2, OthersOrphan, RestartOrphan DEF ItsmNext, People

\* Every ticket of the ITSM tool belongs to the Orbit row that names it, to a push that is
\* about to store it, or was lost to a fault, a restart, an overlapping push or another
\* escalation, for any number of pushes (_create_external_ticket and retry_itsm_push).
THEOREM Owned ==
  ItsmSpec => []NoOrphan
  <1>1. OrphanInv => NoOrphan  BY DEF OrphanInv
  <1> QED  BY <1>1, OrphanInitInv, OrphanInductive, PTL DEF ItsmSpec

-----------------------------------------------------------------------------
(* A closed ticket stays closed, and its incident is closed with it *)

Closed(k) == ticket[k].st \in { "RESOLVED", "STALE" }

\* What a step does to the tables of tickets and incidents.
TablesStep ==
    /\ \A k \in Ticket :
          \/ ticket'[k].st = ticket[k].st
          \/ ticket[k].st = "none" /\ ticket'[k].st = "OPEN"
          \/ ~ Closed(k) /\ ticket'[k].st \in { "IN_PROGRESS", "OPEN" }
          \/ ~ Closed(k) /\ ticket'[k].st = "RESOLVED" /\ k \in torn'
          \/ ticket'[k].st = "STALE"
          \/ ticket'[k].st = "RESOLVED" /\ (incident'[k] = "HUMAN_RESOLVED" \/ k \in torn')
    /\ \A k \in Ticket : incident[k] = "HUMAN_RESOLVED" => incident'[k] = "HUMAN_RESOLVED" \/ k \in torn'
    /\ torn \subseteq torn'

LEMMA InsertTables == ASSUME ItsmTypeOK, NEW w \in Pusher, Insert(w) PROVE TablesStep
  <1> DEFINE k == push[w].of
  <1>1. k \in Ticket /\ ticket \in [Ticket -> TicketRow]  BY ItsmParts DEF PushState
  <1>2. ticket' = ticket \/ (ticket[k].st = "none" /\ ticket' = [ ticket EXCEPT ![k].st = "OPEN" ])
    BY DEF Insert
  <1>3. incident' = incident /\ torn' = torn  BY DEF Insert
  <1> HIDE DEF k
  <1>4. \A j \in Ticket : ticket'[j].st = ticket[j].st \/ (ticket[j].st = "none" /\ ticket'[j].st = "OPEN")
    BY <1>1, <1>2, TicketStatus
  <1> QED  BY <1>3, <1>4 DEF TablesStep

LEMMA StoredTables == ASSUME ItsmTypeOK, NEW w \in Pusher, Stored(w) PROVE TablesStep
  <1> DEFINE k == push[w].of
             r == push[w].id
  <1>1. k \in Ticket /\ r \in 0 .. MaxRemote /\ ticket \in [Ticket -> TicketRow]
    BY ItsmParts DEF PushState
  <1>2. ticket' = ticket \/ ticket' = [ ticket EXCEPT ![k].id = r ]  BY DEF Stored
  <1>3. \A j \in Ticket : ticket'[j].st = ticket[j].st  BY <1>1, <1>2, TicketId
  <1>4. /\ torn \subseteq torn'
        /\ \A j \in Ticket : incident[j] = "HUMAN_RESOLVED" => incident'[j] = "HUMAN_RESOLVED" \/ j \in torn'
    BY <1>1, ItsmParts DEF Stored
  <1> QED  BY <1>3, <1>4 DEF TablesStep

LEMMA UpdateTicketTables ==
  ASSUME ItsmTypeOK, NEW k \in Ticket, NEW new \in Transitions(ticket[k].st), UpdateTicket(k, new)
  PROVE  TablesStep
  <1>1. new \in { "IN_PROGRESS", "RESOLVED", "OPEN" } /\ ~ Closed(k)  BY DEF Transitions, Closed
  <1>2. /\ torn \subseteq torn' /\ incident' = incident /\ (new = "RESOLVED" => k \in torn')
        /\ ticket \in [Ticket -> TicketRow]
    BY ItsmParts DEF UpdateTicket
  <1>3. ticket' = ticket \/ ticket' = [ ticket EXCEPT ![k].st = new ]  BY DEF UpdateTicket
  <1>4. \A j \in Ticket : ticket'[j].st = ticket[j].st \/ (j = k /\ ticket'[j].st = new)
    BY <1>1, <1>2, <1>3, TicketStatus
  <1> QED  BY <1>1, <1>2, <1>4 DEF TablesStep

LEMMA UnansweredTables == ASSUME ItsmTypeOK, NEW p \in Poller, Unanswered(p) PROVE TablesStep
  <1>1. poll[p].of.of \in Ticket /\ ticket \in [Ticket -> TicketRow]
    BY ItsmParts DEF PollState, Polled
  <1>2. ticket' = ticket \/ ticket' = [ ticket EXCEPT ![poll[p].of.of].st = "STALE" ]
    BY DEF Unanswered, Missing
  <1>3. \A j \in Ticket : ticket'[j].st = ticket[j].st \/ ticket'[j].st = "STALE"
    BY <1>1, <1>2, TicketStatus
  <1>4. incident' = incident /\ torn' = torn  BY DEF Unanswered
  <1> QED  BY <1>3, <1>4 DEF TablesStep

LEMMA ResolveTables == ASSUME ItsmTypeOK, NEW p \in Poller, Resolve(p) PROVE TablesStep
  <1>1. PICK k, fail, learns : ResolveParts(p, k, fail, learns)  BY Resolves
  <1>2. /\ \A j \in Ticket \ {k} : ticket'[j] = ticket[j]
        /\ ticket'[k].st = ticket[k].st \/ ticket'[k].st = "RESOLVED"
        /\ k \in Ticket
    BY <1>1 DEF ResolveParts
  <1>3. /\ incident'[k] = "HUMAN_RESOLVED" \/ k \in torn'
        /\ \A j \in Ticket : incident[j] = "HUMAN_RESOLVED" => incident'[j] = "HUMAN_RESOLVED"
        /\ torn \subseteq torn'
    BY <1>1, ItsmParts DEF ResolveParts
  <1> QED  BY <1>2, <1>3 DEF TablesStep

LEMMA EveryTablesStep == ASSUME ItsmTypeOK, [ItsmNext]_itsmVars PROVE TablesStep
  <1>1. CASE /\ ticket' = ticket /\ incident' = incident /\ torn' = torn
    BY <1>1 DEF TablesStep
  <1>2. CASE UNCHANGED itsmVars  BY <1>1, <1>2 DEF itsmVars
  <1>3. ASSUME NEW w \in Pusher, Pushes(w) PROVE TablesStep
    BY <1>1, <1>3, InsertTables, StoredTables DEF Pushes, Escalate, Retry, StartPush, Post
  <1>4. ASSUME NEW p \in Poller, Polls(p) PROVE TablesStep
    BY <1>1, <1>4, UnansweredTables, ResolveTables DEF Polls, Begin, Credentials, Ask, StillOpen
  <1>5. CASE (\E m \in patches : Patch(m)) \/ Restart
    BY <1>1, <1>5 DEF Patch, Restart
  <1>6. CASE People
    BY <1>1, <1>6, UpdateTicketTables DEF People, Close
  <1> QED  BY <1>2, <1>3, <1>4, <1>5, <1>6 DEF ItsmNext

LEMMA StaysClosed ==
  ASSUME ItsmTypeOK, [ItsmNext]_itsmVars, NEW k \in Ticket, Closed(k)
  PROVE  ticket'[k].st \in { "RESOLVED", "STALE" }
  BY EveryTablesStep DEF TablesStep, Closed

LEMMA TogetherInductive ==
  ItsmTypeOK /\ ResolvedTogether /\ [ItsmNext]_itsmVars => ResolvedTogether'
  BY EveryTablesStep DEF TablesStep, ResolvedTogether, Closed

\* A ticket that was closed leaves its incident HUMAN_RESOLVED, except for the three reasons
\* ResolvedTogether names (poll_itsm_tickets_once of jobs/itsm_poller.py, update_ticket_status and
\* _create_external_ticket).
THEOREM Together ==
  ItsmSpec => []ResolvedTogether
  <1>1. ItsmInit => ResolvedTogether  BY DEF ItsmInit, ResolvedTogether
  <1> QED  BY <1>1, ItsmTyped, TogetherInductive, PTL DEF ItsmSpec

\* No push, poll, PATCH, change by an operator or restart brings a closed ticket back, for any
\* number of coroutines (update_ticket_status, create_escalation_ticket, jobs/itsm_poller.py).
THEOREM StayClosed ==
  ItsmSpec => ClosedStaysClosed
  <1>1. ItsmTypeOK /\ [ItsmNext]_itsmVars =>
           [\A k \in Ticket : ticket[k].st \in { "RESOLVED", "STALE" } =>
                 ticket'[k].st \in { "RESOLVED", "STALE" }]_ticket
    BY StaysClosed DEF Closed
  <1> QED  BY <1>1, ItsmTyped, PTL DEF ItsmSpec, ClosedStaysClosed

-----------------------------------------------------------------------------
(* A human fix is counted once *)

\* A poller that is not in use sleeps, and a list names no ticket twice, nor again the one
\* that is being asked for.
Listing(p) ==
    /\ p \notin itsmCfg.pollers => poll[p].at = "asleep"
    /\ poll[p].at = "asleep" => poll[p].todo = {}
    /\ \A t, u \in poll[p].todo : t.of = u.of => t = u
    /\ poll[p].at = "answer" => \A t \in poll[p].todo : t.of # poll[p].of.of

\* The poller p has ticket k on its list, if at all, with the flag set.
Known(p, k) ==
    /\ \A t \in poll[p].todo : t.of = k => t.stored
    /\ poll[p].at = "answer" /\ poll[p].of.of = k => poll[p].of.stored

\* A fix that was counted is marked, or its ticket is closed, and every list knows.
Counted(k) ==
    /\ learned[k] <= 1
    /\ learned[k] = 1 => (ticket[k].stored \/ Closed(k)) /\ \A p \in Poller : Known(p, k)

OnceInv ==
    /\ ItsmInv
    /\ itsmCfg.once => itsmCfg.faults <= 1
    /\ \A p \in Poller : Listing(p)
    /\ itsmCfg.once /\ itsmCfg.pollers = {"loop"} => \A k \in Ticket : Counted(k)

\* What a step may do to the configuration.
CfgStep ==
    /\ itsmCfg'.once = itsmCfg.once /\ itsmCfg'.pollers = itsmCfg.pollers
    /\ itsmCfg'.faults \in Nat /\ itsmCfg.faults \in Nat /\ itsmCfg'.faults <= itsmCfg.faults

\* A step that counts nothing.
LEMMA OnceStep ==
  ASSUME OnceInv, [ItsmNext]_itsmVars, CfgStep, learned' = learned,
         \A k \in Ticket : ticket'[k].stored = ticket[k].stored,
         \A p \in Poller : Listing(p)',
         \A p \in Poller, k \in Ticket :
            learned[k] = 1 /\ (ticket[k].stored \/ Closed(k)) /\ Known(p, k) => Known(p, k)'
  PROVE  OnceInv'
  <1>1. ItsmInv' /\ ItsmTypeOK  BY ItsmInductive DEF OnceInv, ItsmInv
  <1>2. itsmCfg'.once => itsmCfg'.faults <= 1  BY DEF OnceInv, CfgStep
  <1>3. ASSUME itsmCfg.once, itsmCfg.pollers = {"loop"}, NEW k \in Ticket PROVE Counted(k)'
    <2>1. Counted(k)  BY <1>3 DEF OnceInv
    <2>2. Closed(k) => Closed(k)'  BY <1>1, StaysClosed DEF Closed
    <2> QED  BY <2>1, <2>2 DEF Counted
  <1> QED  BY <1>1, <1>2, <1>3 DEF OnceInv, CfgStep

\* The same for a step that leaves the pollers alone.
LEMMA OnceSame ==
  ASSUME OnceInv, [ItsmNext]_itsmVars, CfgStep, learned' = learned,
         \A k \in Ticket : ticket'[k].stored = ticket[k].stored, poll' = poll
  PROVE  OnceInv'
  <1>1. \A p \in Poller : Listing(p)'  BY DEF OnceInv, Listing, CfgStep
  <1>2. \A p \in Poller, k \in Ticket : Known(p, k) => Known(p, k)'  BY DEF Known
  <1> QED  BY <1>1, <1>2, OnceStep

LEMMA OnceInitInv == ASSUME ItsmInit PROVE OnceInv
  <1>1. ItsmInv  BY ItsmInitInv
  <1>2. itsmCfg.once => itsmCfg.faults <= 1  BY ItsmConstants DEF ItsmInit
  <1>3. \A p \in Poller : Listing(p)  BY IdleStates DEF ItsmInit, Listing
  <1>4. \A k \in Ticket : Counted(k)  BY DEF ItsmInit, Counted
  <1> QED  BY <1>1, <1>2, <1>3, <1>4 DEF OnceInv

\* What the configuration is after a step with or without a fault.
LEMMA CfgSame == ASSUME ItsmTypeOK, itsmCfg' = itsmCfg PROVE CfgStep
  BY ItsmParts DEF ConfigType, CfgStep

LEMMA CfgFailing == ASSUME ItsmTypeOK, NEW b, Failing(b) PROVE CfgStep
  BY ItsmParts, FailingKeeps DEF ConfigType, CfgStep

LEMMA CfgFaults == ASSUME ItsmTypeOK, NEW n \in Nat, Faults(n) PROVE CfgStep
  BY ItsmParts, FaultsKeep DEF ConfigType, CfgStep

LEMMA PushesOnce ==
  ASSUME OnceInv, [ItsmNext]_itsmVars, NEW w \in Pusher, Pushes(w)
  PROVE  OnceInv'
  <1>1. ItsmTypeOK /\ ticket \in [Ticket -> TicketRow] /\ push[w].of \in Ticket
        /\ push[w].id \in 0 .. MaxRemote
    BY ItsmParts DEF OnceInv, ItsmInv, PushState
  <1>2. CASE \E k \in Ticket : Escalate(w, k) \/ Retry(w, k)
    <2>1. CfgStep  BY <1>1, <1>2, CfgSame DEF Escalate, Retry, StartPush
    <2> QED  BY <1>2, <2>1, OnceSame DEF Escalate, Retry, StartPush
  <1>3. CASE Insert(w)
    <2>1. CfgStep  BY <1>1, <1>3, CfgFailing DEF Insert
    <2>2. ticket' = ticket \/ ticket' = [ ticket EXCEPT ![push[w].of].st = "OPEN" ]
      BY <1>3 DEF Insert
    <2>3. \A k \in Ticket : ticket'[k].stored = ticket[k].stored  BY <1>1, <2>2, TicketStatus
    <2> QED  BY <1>3, <2>1, <2>3, OnceSame DEF Insert
  <1>4. CASE Post(w)
    <2>1. CfgStep  BY <1>1, <1>4, CfgSame, CfgFaults DEF Post
    <2> QED  BY <1>4, <2>1, OnceSame DEF Post
  <1>5. CASE Stored(w)
    <2>1. CfgStep  BY <1>1, <1>5, CfgFailing DEF Stored
    <2>2. ticket' = ticket \/ ticket' = [ ticket EXCEPT ![push[w].of].id = push[w].id ]
      BY <1>5 DEF Stored
    <2>3. \A k \in Ticket : ticket'[k].stored = ticket[k].stored  BY <1>1, <2>2, TicketId
    <2> QED  BY <1>5, <2>1, <2>3, OnceSame DEF Stored
  <1> QED  BY <1>2, <1>3, <1>4, <1>5 DEF Pushes

LEMMA PeopleOnce ==
  ASSUME OnceInv, [ItsmNext]_itsmVars, People \/ \E m \in patches : Patch(m)
  PROVE  OnceInv'
  <1>1. ItsmTypeOK /\ ticket \in [Ticket -> TicketRow]  BY ItsmParts DEF OnceInv, ItsmInv
  <1>2. ASSUME NEW k \in Ticket, NEW new \in Transitions(ticket[k].st), UpdateTicket(k, new)
        PROVE  OnceInv'
    <2>1. new \in { "IN_PROGRESS", "RESOLVED", "OPEN" }  BY DEF Transitions
    <2>2. CfgStep  BY <1>1, <1>2, CfgFailing DEF UpdateTicket
    <2>3. ticket' = ticket \/ ticket' = [ ticket EXCEPT ![k].st = new ]  BY <1>2 DEF UpdateTicket
    <2>4. \A j \in Ticket : ticket'[j].stored = ticket[j].stored  BY <1>1, <2>1, <2>3, TicketStatus
    <2> QED  BY <1>2, <2>2, <2>4, OnceSame DEF UpdateTicket
  <1>3. ASSUME NEW r \in DOMAIN remote, NEW st \in { "Resolved", "Cancelled" }, Close(r, st)
        PROVE  OnceInv'
    <2>1. CfgStep  BY <1>1, <1>3, CfgSame DEF Close
    <2> QED  BY <1>3, <2>1, OnceSame DEF Close
  <1>4. ASSUME NEW m \in patches, Patch(m) PROVE OnceInv'
    <2>1. CfgStep  BY <1>1, <1>4, CfgSame, CfgFaults DEF Patch
    <2> QED  BY <1>4, <2>1, OnceSame DEF Patch
  <1> QED  BY <1>2, <1>3, <1>4 DEF People

LEMMA BeginOnce == ASSUME OnceInv, [ItsmNext]_itsmVars, NEW p \in Poller, Begin(p) PROVE OnceInv'
  <1> DEFINE list == { [ of |-> k, id |-> ticket[k].id, stored |-> ticket[k].stored ] : k \in Open }
             a == [ poll[p] EXCEPT !.at = "creds" ]
             b == [ a EXCEPT !.todo = list ]
  <1>1. ItsmTypeOK /\ poll \in [Poller -> PollState]  BY ItsmParts DEF OnceInv, ItsmInv
  <1>2. a \in PollState /\ a.at = "creds"  BY <1>1 DEF PollState
  <1>3. poll' = [ poll EXCEPT ![p] = b ]  BY Zenon DEF Begin
  <1>4. p \in itsmCfg.pollers /\ itsmCfg' = itsmCfg /\ learned' = learned /\ ticket' = ticket
    BY DEF Begin
  <1>5. \A t \in list : t.of \in Open /\ t.stored = ticket[t.of].stored
                        /\ t = [ of |-> t.of, id |-> ticket[t.of].id, stored |-> ticket[t.of].stored ]
    OBVIOUS
  <1> HIDE DEF list, a
  <1>6. b.at = "creds" /\ b.todo = list  BY <1>2 DEF PollState
  <1> HIDE DEF b
  <1>7. poll'[p] = b /\ \A q \in Poller \ {p} : poll'[q] = poll[q]  BY <1>1, <1>3
  <1>8. \A q \in Poller : Listing(q)'
    BY <1>4, <1>5, <1>6, <1>7 DEF Listing, OnceInv
  <1>9. \A q \in Poller, k \in Ticket :
           (ticket[k].stored \/ Closed(k)) /\ Known(q, k) => Known(q, k)'
    <2> TAKE q \in Poller, k \in Ticket
    <2>1. Closed(k) => k \notin Open  BY DEF Closed, Open
    <2> QED  BY <1>5, <1>6, <1>7, <2>1 DEF Known
  <1>10. CfgStep  BY <1>1, <1>4, CfgSame
  <1> QED  BY <1>4, <1>8, <1>9, <1>10, OnceStep

LEMMA CredentialsOnce == ASSUME OnceInv, [ItsmNext]_itsmVars, NEW p \in Poller, Credentials(p) PROVE OnceInv'
  <1>1. ItsmTypeOK /\ poll \in [Poller -> PollState]  BY ItsmParts DEF OnceInv, ItsmInv
  <1>2. CfgStep  BY <1>1, CfgFailing DEF Credentials
  <1>3. /\ poll[p].at = "creds" /\ learned' = learned /\ ticket' = ticket
        /\ \/ poll' = [ poll EXCEPT ![p] = Asleep ]
           \/ poll' = [ poll EXCEPT ![p] = [ poll[p] EXCEPT !.at = "next" ] ]
    BY <1>1 DEF Credentials
  <1>4. [ poll[p] EXCEPT !.at = "next" ].todo = poll[p].todo /\ [ poll[p] EXCEPT !.at = "next" ].at = "next"
    BY <1>1 DEF PollState
  <1>5. /\ poll'[p].todo \in { {}, poll[p].todo } /\ poll'[p].at \in { "asleep", "next" }
        /\ poll'[p].at = "asleep" => poll'[p].todo = {}
        /\ \A q \in Poller \ {p} : poll'[q] = poll[q]
    BY <1>1, <1>3, <1>4, IdleStates
  <1>6. \A q \in Poller : Listing(q)'  BY <1>2, <1>3, <1>5 DEF Listing, OnceInv, CfgStep
  <1>7. \A q \in Poller, k \in Ticket : Known(q, k) => Known(q, k)'  BY <1>5 DEF Known
  <1> QED  BY <1>2, <1>3, <1>6, <1>7, OnceStep

LEMMA AskOnce == ASSUME OnceInv, [ItsmNext]_itsmVars, NEW p \in Poller, Ask(p) PROVE OnceInv'
  <1>1. ItsmTypeOK /\ poll \in [Poller -> PollState]  BY ItsmParts DEF OnceInv, ItsmInv
  <1>2. CfgStep  BY <1>1, CfgFailing DEF Ask
  <1>3. poll[p].at = "next" /\ learned' = learned /\ ticket' = ticket  BY DEF Ask
  <1>4. PICK t \in poll[p].todo : \E got :
           poll' = [ poll EXCEPT ![p] = [ at |-> "answer", todo |-> poll[p].todo \ {t}, of |-> t, got |-> got ] ]
    BY <1>1 DEF Ask
  <1>5. /\ poll'[p].at = "answer" /\ poll'[p].todo = poll[p].todo \ {t} /\ poll'[p].of = t
        /\ \A q \in Poller \ {p} : poll'[q] = poll[q]
    BY <1>1, <1>4
  <1>6. \A q \in Poller : Listing(q)'  BY <1>2, <1>3, <1>4, <1>5 DEF Listing, OnceInv, CfgStep
  <1>7. \A q \in Poller, k \in Ticket : Known(q, k) => Known(q, k)'  BY <1>4, <1>5 DEF Known
  <1> QED  BY <1>2, <1>3, <1>6, <1>7, OnceStep

\* The poller goes on after an answer.
LEMMA ContinueOnce ==
  ASSUME OnceInv, NEW p \in Poller, poll[p].at = "answer", poll' = Continue(p), CfgStep
  PROVE  /\ \A q \in Poller : Listing(q)'
         /\ \A q \in Poller, k \in Ticket : Known(q, k) => Known(q, k)'
         /\ \A k \in Ticket : k = poll[p].of.of => \A t \in poll'[p].todo : t.of # k
         /\ poll'[p].at # "answer"
  <1>1. poll \in [Poller -> PollState]  BY ItsmParts DEF OnceInv, ItsmInv
  <1>2. /\ \A q \in Poller \ {p} : poll'[q] = poll[q]
        /\ poll'[p].todo = poll[p].todo /\ poll'[p].at \in { "asleep", "next" }
        /\ poll'[p].at = "asleep" => poll'[p].todo = {}
    BY <1>1, Continues
  <1>3. \A q \in Poller : Listing(q)  BY DEF OnceInv
  <1>4. Listing(p)'  BY <1>2, <1>3 DEF Listing, CfgStep
  <1>5. \A q \in Poller \ {p} : Listing(q)'  BY <1>2, <1>3 DEF Listing, CfgStep
  <1>6. \A q \in Poller, k \in Ticket : Known(q, k) => Known(q, k)'  BY <1>2 DEF Known
  <1> QED  BY <1>2, <1>3, <1>4, <1>5, <1>6 DEF Listing

LEMMA AnsweredOnce ==
  ASSUME OnceInv, [ItsmNext]_itsmVars, NEW p \in Poller, Unanswered(p) \/ StillOpen(p)
  PROVE  OnceInv'
  <1>1. ItsmTypeOK /\ ticket \in [Ticket -> TicketRow] /\ poll[p].of.of \in Ticket
    BY ItsmParts DEF OnceInv, ItsmInv, PollState, Polled
  <1>2. CfgStep  BY <1>1, CfgFailing, CfgSame DEF Unanswered, StillOpen
  <1>3. poll[p].at = "answer" /\ poll' = Continue(p) /\ learned' = learned
    BY DEF Unanswered, StillOpen
  <1>4. ticket' = ticket \/ ticket' = [ ticket EXCEPT ![poll[p].of.of].st = "STALE" ]
    BY DEF Unanswered, StillOpen, Missing
  <1>5. \A k \in Ticket : ticket'[k].stored = ticket[k].stored  BY <1>1, <1>4, TicketStatus
  <1>6. /\ \A q \in Poller : Listing(q)'
        /\ \A q \in Poller, k \in Ticket : Known(q, k) => Known(q, k)'
    BY <1>2, <1>3, ContinueOnce
  <1> QED  BY <1>2, <1>3, <1>5, <1>6, OnceStep

LEMMA ResolveOnce == ASSUME OnceInv, [ItsmNext]_itsmVars, NEW p \in Poller, Resolve(p) PROVE OnceInv'
  <1>1. ItsmTypeOK  BY DEF OnceInv, ItsmInv
  <1>2. PICK k, fail, learns : ResolveParts(p, k, fail, learns)  BY <1>1, Resolves
  <1>3. IsFiniteSet(fail) /\ Cardinality(fail) \in Nat  BY <1>2, FailedStatements DEF ResolveParts
  <1>4. Faults(Cardinality(fail)) /\ poll[p].at = "answer" /\ poll' = Continue(p)
        /\ k = poll[p].of.of /\ k \in Ticket
    BY <1>2 DEF ResolveParts
  <1>5. CfgStep /\ Cardinality(fail) <= itsmCfg.faults
    BY <1>1, <1>3, <1>4, CfgFaults, FaultsKeep, ItsmParts
  <1>6. /\ \A q \in Poller : Listing(q)'
        /\ \A q \in Poller, j \in Ticket : Known(q, j) => Known(q, j)'
        /\ \A t \in poll'[p].todo : t.of # k
        /\ poll'[p].at # "answer"
    BY <1>4, <1>5, ContinueOnce
  <1>7. ItsmInv'  BY ItsmInductive DEF OnceInv
  <1>8. itsmCfg'.once => itsmCfg'.faults <= 1  BY <1>5 DEF OnceInv, CfgStep
  <1>9. ASSUME itsmCfg.once, itsmCfg.pollers = {"loop"}, NEW j \in Ticket PROVE Counted(j)'
    <2>1. Counted(j)  BY <1>9 DEF OnceInv
    <2>2. Closed(j) => Closed(j)'  BY <1>1, StaysClosed DEF Closed
    <2>3. learned \in [Ticket -> Nat] /\ ticket \in [Ticket -> TicketRow] /\ ticket' \in [Ticket -> TicketRow]
      BY <1>1, <1>2, ItsmParts DEF ResolveParts
    <2>4. ticket[j].stored => ticket'[j].stored
      BY <1>2, <1>4, <2>3 DEF ResolveParts
    <2>5. CASE learned'[j] = learned[j]
      BY <1>6, <2>1, <2>2, <2>4, <2>5 DEF Counted
    <2>6. CASE learned'[j] # learned[j]
      <3>1. /\ j = k /\ learns /\ ~ poll[p].of.stored /\ learned'[k] = learned[k] + 1
            /\ \/ ticket'[k].st = "RESOLVED" /\ "ticket" \notin fail
               \/ "ticket" \in fail
            /\ "flag" \notin fail => ticket'[k].stored
        <4>1. learns /\ learned' = [ learned EXCEPT ![k] = @ + 1 ]  BY <1>2, <2>6 DEF ResolveParts
        <4>2. j = k /\ learned'[k] = learned[k] + 1  BY <1>4, <2>3, <2>6, <4>1
        <4> QED  BY <1>2, <4>1, <4>2 DEF ResolveParts
      <3>2. ~ Known(p, k)  BY <1>4, <3>1 DEF Known
      <3>3. learned[k] = 0  BY <2>1, <2>3, <3>1, <3>2 DEF Counted
      <3>4. ~ ("ticket" \in fail /\ "flag" \in fail)
        <4> SUFFICES ASSUME "ticket" \in fail, "flag" \in fail PROVE FALSE  OBVIOUS
        <4>1. IsFiniteSet({ "ticket" }) /\ Cardinality({ "ticket" }) = 1  BY FS_Singleton
        <4>2. Cardinality({ "ticket" } \union { "flag" }) = 2
          <5>1. "flag" \notin { "ticket" }  OBVIOUS
          <5>2. Cardinality({ "ticket" } \union { "flag" }) =
                   (IF "flag" \in { "ticket" } THEN Cardinality({ "ticket" }) ELSE Cardinality({ "ticket" }) + 1)
            BY <4>1, FS_AddElement, Zenon
          <5> QED  BY <4>1, <5>1, <5>2
        <4>3. { "ticket" } \union { "flag" } \in SUBSET fail  OBVIOUS
        <4>4. Cardinality({ "ticket" } \union { "flag" }) <= Cardinality(fail)
          BY <1>3, <4>3, FS_Subset
        <4>5. itsmCfg.faults \in Nat /\ itsmCfg.faults <= 1  BY <1>5, <1>9 DEF OnceInv, CfgStep
        <4> QED  BY <1>3, <1>5, <4>2, <4>4, <4>5
      <3>5. ticket'[k].stored \/ Closed(k)'  BY <3>1, <3>4 DEF Closed
      <3>6. ASSUME NEW q \in Poller PROVE Known(q, k)'
        <4>1. CASE q = p  BY <1>6, <4>1 DEF Known
        <4>2. CASE q # p
          <5>1. p = "loop"  BY <1>4, <1>9 DEF OnceInv, Listing
          <5>2. q \notin itsmCfg'.pollers  BY <1>5, <1>9, <4>2, <5>1 DEF CfgStep
          <5>3. poll'[q].at = "asleep" /\ poll'[q].todo = {}  BY <1>6, <5>2 DEF Listing
          <5> QED  BY <5>3 DEF Known
        <4> QED  BY <4>1, <4>2
      <3> QED  BY <3>1, <3>3, <3>5, <3>6 DEF Counted
    <2> QED  BY <2>5, <2>6
  <1> QED  BY <1>5, <1>6, <1>7, <1>8, <1>9 DEF OnceInv, CfgStep

LEMMA RestartOnce == ASSUME OnceInv, [ItsmNext]_itsmVars, Restart PROVE OnceInv'
  <1>1. ItsmTypeOK  BY DEF OnceInv, ItsmInv
  <1>2. CfgStep  BY <1>1, ItsmParts DEF Restart, ConfigType, CfgStep
  <1>3. learned' = learned /\ ticket' = ticket /\ \A p \in Poller : poll'[p] = Asleep  BY DEF Restart
  <1>4. \A p \in Poller : Listing(p)'  BY <1>3, IdleStates DEF Listing
  <1>5. \A p \in Poller, k \in Ticket : Known(p, k)'  BY <1>3, IdleStates DEF Known
  <1> QED  BY <1>2, <1>3, <1>4, <1>5, OnceStep

LEMMA OnceInductive == OnceInv /\ [ItsmNext]_itsmVars => OnceInv'
  <1> SUFFICES ASSUME OnceInv, [ItsmNext]_itsmVars PROVE OnceInv'  OBVIOUS
  <1>1. CASE UNCHANGED itsmVars
    <2>1. CfgStep  BY <1>1, CfgSame DEF OnceInv, ItsmInv, itsmVars
    <2> QED  BY <1>1, <2>1, OnceSame DEF itsmVars
  <1>2. ASSUME NEW p \in Poller, Polls(p) PROVE OnceInv'
    BY <1>2, BeginOnce, CredentialsOnce, AskOnce, AnsweredOnce, ResolveOnce DEF Polls
  <1> QED  BY <1>1, <1>2, PushesOnce, PeopleOnce, RestartOnce DEF ItsmNext

\* With one poller and at most one fault the human fix of a ticket is counted at most once,
\* through failing statements, operators, pushes and restarts (poll_itsm_tickets_once of
\* jobs/itsm_poller.py: the status keeps the ticket off the list, pattern_stored the pattern
\* from being inserted again).
THEOREM CountedOnce ==
  ItsmSpec => []LearnedOnce
  <1>1. OnceInv => LearnedOnce  BY DEF OnceInv, LearnedOnce, Counted
  <1> QED  BY <1>1, OnceInitInv, OnceInductive, PTL DEF ItsmSpec
=============================================================================
