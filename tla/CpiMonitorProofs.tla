-------------------------- MODULE CpiMonitorProofs --------------------------
(***************************************************************************)
(* For any set of messages and cycles, any window and any lifetime of the  *)
(* table's entries: a message is published a second time only for one of   *)
(* the four reasons NoDuplicate allows.                                    *)
(***************************************************************************)
EXTENDS CpiMonitor, TLAPS

CycleState ==
    [ at : { "asleep", "credentials", "next", "publish", "mark" },
      since : Nat, todo : SUBSET Guid, of : Guid \union {NoGuid} ]

Typed ==
    /\ cpiTime \in Nat
    /\ logEnd \in [Guid -> Int]
    /\ cycle \in [Cycle -> CycleState]
    /\ published \in [Guid -> Nat]
    /\ delivered \in [Guid -> Nat]
    /\ again \subseteq Guid

\* What was listed failed no longer than a window before the list was made.
InWindow(g, since) == logEnd[g] >= 0 /\ logEnd[g] >= since - Window

\* A cycle has a message in hand exactly while it publishes or marks it.  One it publishes
\* has not been delivered, one it marks has, unless it may be delivered again.
InHand(c) ==
    /\ cycle[c].since <= cpiTime
    /\ \A g \in cycle[c].todo : InWindow(g, cycle[c].since)
    /\ cycle[c].at \in { "publish", "mark" } => cycle[c].of \in Guid /\ logEnd[cycle[c].of] >= 0
    /\ cycle[c].at \notin { "publish", "mark" } => cycle[c].of = NoGuid
    /\ cycle[c].at = "publish" /\ delivered[cycle[c].of] > 0 => cycle[c].of \in again
    /\ cycle[c].at = "mark" => delivered[cycle[c].of] > 0

\* Two cycles have the same message in hand only if it may be delivered again.
Sole == \A c \in Cycle : \A d \in Cycle \ {c} :
            cycle[c].of = cycle[d].of /\ cycle[c].of # NoGuid => cycle[c].of \in again

Marking(g) == \E c \in Cycle : cycle[c].at = "mark" /\ cycle[c].of = g

\* A delivered message is about to be marked, is marked for long enough, or too old for
\* any list that a cycle could hold without being slow.
Guarded(g) ==
    /\ logEnd[g] <= cpiTime
    /\ delivered[g] > 0 => logEnd[g] >= 0
    /\ delivered[g] > 0 /\ g \notin again =>
          \/ Marking(g)
          \/ published[g] >= logEnd[g] + Ttl
          \/ cpiTime >= logEnd[g] + Ttl

CInv ==
    /\ Typed
    /\ \A c \in Cycle : InHand(c)
    /\ Sole
    /\ \A g \in Guid : Guarded(g)
    /\ NoDuplicate
    /\ MarkedIsDelivered

LEMMA InitInv == ASSUME CpiInit PROVE CInv
  <1> DEFINE x == [ at |-> "asleep", since |-> 0, todo |-> {}, of |-> NoGuid ]
  <1>1. cycle = [c \in Cycle |-> x] /\ x \in CycleState  BY DEF CpiInit, NoCycle, CycleState
  <1>2. Typed  BY <1>1 DEF CpiInit, Typed
  <1>3. \A c \in Cycle : InHand(c)  BY <1>1 DEF CpiInit, InHand
  <1>4. Sole  BY <1>1 DEF Sole
  <1>5. \A g \in Guid : Guarded(g)  BY DEF CpiInit, Guarded
  <1> QED  BY <1>2, <1>3, <1>4, <1>5 DEF CpiInit, CInv, NoDuplicate, MarkedIsDelivered

-----------------------------------------------------------------------------
(* Time, the tenant, and a restart *)

LEMMA TickInv == ASSUME CInv, Tick PROVE CInv'
  <1> USE DEF CInv, Tick
  <1>1. Typed'  BY DEF Typed
  <1>2. \A c \in Cycle : InHand(c)'  BY DEF InHand, InWindow, Typed, CycleState
  <1>3. \A g \in Guid : Guarded(g)'  BY CpiConstants DEF Guarded, Marking, Typed
  <1> QED  BY <1>1, <1>2, <1>3 DEF Sole, NoDuplicate, MarkedIsDelivered

LEMMA MessageInv == ASSUME CInv, NEW g \in Guid, MessageFails(g) PROVE CInv'
  <1> USE DEF CInv, MessageFails
  <1>1. Typed'  BY DEF Typed
  <1>2. /\ logEnd'[g] = cpiTime /\ cpiTime \in Nat
        /\ \A h \in Guid \ {g} : logEnd'[h] = logEnd[h]
    BY DEF Typed
  <1>3. ASSUME NEW c \in Cycle PROVE InHand(c)'
    <2>1. cycle[c].todo \subseteq Guid  BY DEF Typed, CycleState
    <2>2. g \notin cycle[c].todo /\ (cycle[c].at \in { "publish", "mark" } => cycle[c].of # g)
      BY DEF InHand, InWindow
    <2> QED  BY <1>2, <2>1, <2>2 DEF InHand, InWindow
  <1>4. ASSUME NEW h \in Guid PROVE Guarded(h)'
    <2>1. CASE h = g
      <3>1. ~ (delivered[g] > 0)  BY DEF Guarded
      <3> QED  BY <1>2, <2>1, <3>1 DEF Guarded
    <2>2. CASE h # g  BY <1>2, <2>2 DEF Guarded, Marking
    <2> QED  BY <2>1, <2>2
  <1> QED  BY <1>1, <1>3, <1>4 DEF Sole, NoDuplicate, MarkedIsDelivered

LEMMA RestartInv == ASSUME CInv, CpiRestart PROVE CInv'
  <1> USE DEF CInv, CpiRestart
  <1> DEFINE x == [ at |-> "asleep", since |-> 0, todo |-> {}, of |-> NoGuid ]
  <1>1. cycle' = [c \in Cycle |-> x] /\ x \in CycleState  BY DEF NoCycle, CycleState
  <1>2. Typed'  BY <1>1 DEF Typed
  <1>3. \A c \in Cycle : InHand(c)'  BY <1>1 DEF InHand, Typed
  <1>4. Sole'  BY <1>1 DEF Sole
  <1>5. \A g \in Guid : Guarded(g)'  BY DEF Guarded
  <1>6. NoDuplicate' /\ MarkedIsDelivered'
    BY DEF NoDuplicate, MarkedIsDelivered, Typed
  <1> QED  BY <1>2, <1>3, <1>4, <1>5, <1>6

-----------------------------------------------------------------------------
(* The steps of a cycle *)

\* Between two messages nothing but the cycle changes.
LEMMA QuietInv ==
  ASSUME CInv, NEW c \in Cycle, cycle[c].at \notin { "publish", "mark" },
         NEW x \in CycleState, x.at \notin { "publish", "mark" }, x.of = NoGuid,
         x.since <= cpiTime, \A g \in x.todo : InWindow(g, x.since),
         cycle' = [ cycle EXCEPT ![c] = x ],
         UNCHANGED << cpiTime, logEnd, published, delivered, again >>
  PROVE  CInv'
  <1> USE DEF CInv
  <1>1. Typed'  BY DEF Typed
  <1>2. cycle'[c] = x /\ \A d \in Cycle \ {c} : cycle'[d] = cycle[d]  BY DEF Typed
  <1>3. \A d \in Cycle : InHand(d)'  BY <1>2 DEF InHand, InWindow
  <1>4. Sole'  BY <1>2 DEF Sole
  <1>5. \A g \in Guid : Guarded(g)'
    <2>1. ASSUME NEW g \in Guid, Marking(g) PROVE Marking(g)'  BY <1>2, <2>1 DEF Marking
    <2> QED  BY <2>1 DEF Guarded
  <1> QED  BY <1>1, <1>3, <1>4, <1>5 DEF NoDuplicate, MarkedIsDelivered

LEMMA FinishInv ==
  ASSUME CInv, NEW c \in Cycle, cycle[c].at \notin { "publish", "mark" }, Finish(c),
         UNCHANGED << cpiTime, logEnd, published, delivered, again >>
  PROVE  CInv'
  <1> DEFINE x == [ at |-> "asleep", since |-> 0, todo |-> {}, of |-> NoGuid ]
  <1>1. cycle' = [ cycle EXCEPT ![c] = x ]  BY DEF Finish, NoCycle
  <1>2. x \in CycleState  BY DEF CycleState
  <1>3. x.since <= cpiTime  BY DEF CInv, Typed
  <1>4. x.at \notin { "publish", "mark" } /\ x.of = NoGuid /\ x.todo = {}  OBVIOUS
  <1> HIDE DEF x
  <1> QED  BY <1>1, <1>2, <1>3, <1>4, QuietInv

LEMMA QueryInv == ASSUME CInv, NEW c \in Cycle, Query(c) PROVE CInv'
  <1>1. /\ cycle[c].at = "asleep"
        /\ UNCHANGED << cpiTime, logEnd, published, delivered, again >>
    BY DEF Query
  <1>2. CASE Finish(c)  BY <1>1, <1>2, FinishInv
  <1>3. ASSUME NEW L \in SUBSET Guid, Newest(L),
               cycle' = [ cycle EXCEPT ![c] = [ at |-> "credentials", since |-> cpiTime, todo |-> L, of |-> NoGuid ] ]
        PROVE  CInv'
    <2> DEFINE x == [ at |-> "credentials", since |-> cpiTime, todo |-> L, of |-> NoGuid ]
    <2>1. x \in CycleState /\ x.since <= cpiTime  BY DEF CycleState, CInv, Typed
    <2>2. \A g \in L : InWindow(g, cpiTime)  BY <1>3 DEF Newest, InWindow
    <2>3. x.at \notin { "publish", "mark" } /\ x.of = NoGuid /\ x.todo = L /\ x.since = cpiTime  OBVIOUS
    <2>4. cycle' = [ cycle EXCEPT ![c] = x ]  BY <1>3
    <2> HIDE DEF x
    <2> QED  BY <1>1, <2>1, <2>2, <2>3, <2>4, QuietInv
  <1> QED  BY <1>2, <1>3 DEF Query

LEMMA CredentialsInv ==
  ASSUME CInv, NEW c \in Cycle, PublisherCredentials(c) \/ Done(c)
  PROVE  CInv'
  <1>1. /\ cycle[c].at \in { "credentials", "next" }
        /\ UNCHANGED << cpiTime, logEnd, published, delivered, again >>
    BY DEF PublisherCredentials, Done
  <1>2. CASE Finish(c)  BY <1>1, <1>2, FinishInv
  <1>3. CASE cycle' = [ cycle EXCEPT ![c].at = "next" ]
    <2> DEFINE x == [ cycle[c] EXCEPT !.at = "next" ]
    <2>1. cycle[c] \in CycleState /\ InHand(c)  BY DEF CInv, Typed
    <2>2. /\ x \in CycleState /\ x.at = "next" /\ x.of = cycle[c].of
          /\ x.since = cycle[c].since /\ x.todo = cycle[c].todo
      BY <2>1 DEF CycleState
    <2>3. x.of = NoGuid /\ x.since <= cpiTime /\ \A g \in x.todo : InWindow(g, x.since)
      BY <1>1, <2>1, <2>2 DEF InHand
    <2>4. cycle' = [ cycle EXCEPT ![c] = x ]  BY <1>3
    <2> HIDE DEF x
    <2> QED  BY <1>1, <2>2, <2>3, <2>4, QuietInv
  <1> QED  BY <1>2, <1>3 DEF PublisherCredentials, Done

\* A message that is no duplicate for the table and has been delivered may be delivered
\* again, if only because the cycle was slow.
LEMMA NotHidden ==
  ASSUME CInv, NEW c \in Cycle, NEW g \in cycle[c].todo, g \in Guid,
         cycle[c].at = "next", ~ IsDuplicate(g), delivered[g] > 0
  PROVE  g \in again \/ Unprotected(c, g)
  <1> SUFFICES ASSUME g \notin again PROVE Unprotected(c, g)  OBVIOUS
  <1>1. /\ cpiTime \in Nat /\ logEnd[g] \in Int /\ published[g] \in Nat /\ cycle[c].since \in Nat
        /\ Window \in Nat /\ Ttl \in Nat
    BY CpiConstants DEF CInv, Typed, CycleState
  <1>2. CASE Marking(g)
    <2>1. PICK d \in Cycle : cycle[d].at = "mark" /\ cycle[d].of = g  BY <1>2 DEF Marking
    <2> QED  BY <2>1 DEF Unprotected
  <1>3. CASE ~ Marking(g)
    <2>1. published[g] >= logEnd[g] + Ttl \/ cpiTime >= logEnd[g] + Ttl
      BY <1>3 DEF CInv, Guarded
    <2>2. published[g] = 0 \/ cpiTime >= published[g]  BY <1>1 DEF IsDuplicate
    <2>3. cpiTime >= logEnd[g] + Ttl  BY <1>1, <2>1, <2>2
    <2>4. logEnd[g] >= cycle[c].since - Window  BY DEF CInv, InHand, InWindow
    <2>5. cpiTime - cycle[c].since >= Ttl - Window  BY <1>1, <2>3, <2>4
    <2> QED  BY <2>5 DEF Unprotected
  <1> QED  BY <1>2, <1>3

LEMMA PickInv == ASSUME CInv, NEW c \in Cycle, NEW g \in Guid, Pick(c, g) PROVE CInv'
  <1>1. /\ cycle[c].at = "next" /\ g \in cycle[c].todo
        /\ UNCHANGED << cpiTime, logEnd, delivered >>
        /\ cycle[c] \in CycleState /\ InHand(c)
    BY DEF Pick, CInv, Typed
  <1>2. CASE IsDuplicate(g)
    <2> DEFINE x == [ cycle[c] EXCEPT !.todo = cycle[c].todo \ {g} ]
    <2>1. cycle' = [ cycle EXCEPT ![c] = x ] /\ UNCHANGED << published, again >>
      BY <1>2 DEF Pick, CInv, Typed
    <2>2. /\ x \in CycleState /\ x.at = "next" /\ x.of = cycle[c].of
          /\ x.since = cycle[c].since /\ x.todo \subseteq cycle[c].todo
      BY <1>1 DEF CycleState
    <2>3. x.of = NoGuid /\ x.since <= cpiTime /\ \A h \in x.todo : InWindow(h, x.since)
      BY <1>1, <2>2 DEF InHand
    <2> HIDE DEF x
    <2> QED  BY <1>1, <2>1, <2>2, <2>3, QuietInv
  <1>3. CASE ~ IsDuplicate(g)
    <2> DEFINE x == [ at |-> "publish", since |-> cycle[c].since, todo |-> cycle[c].todo \ {g}, of |-> g ]
    <2>1. /\ cycle' = [ cycle EXCEPT ![c] = x ]
          /\ published' = Purged
          /\ again' = IF Unprotected(c, g) THEN again \union {g} ELSE again
      BY <1>3 DEF Pick, Publishing, Checked
    <2>2. /\ x \in CycleState /\ x.at = "publish" /\ x.of = g
          /\ x.since = cycle[c].since /\ x.todo \subseteq cycle[c].todo
      BY <1>1 DEF CycleState
    <2> HIDE DEF x
    <2>3. cycle'[c] = x /\ \A d \in Cycle \ {c} : cycle'[d] = cycle[d]  BY <2>1 DEF CInv, Typed
    <2>4. again \subseteq again' /\ (Unprotected(c, g) => g \in again')  BY <2>1
    <2>5. /\ published' \in [Guid -> Nat]
          /\ \A h \in Guid : published'[h] = published[h] \/ (published'[h] = 0 /\ cpiTime >= published[h])
      BY <2>1 DEF Purged, CInv, Typed
    <2>6. Typed'  BY <1>1, <2>1, <2>2, <2>5 DEF CInv, Typed
    <2>7. delivered[g] > 0 => g \in again'  BY <1>1, <1>3, <2>4, NotHidden
    <2>8. \A d \in Cycle : InHand(d)'
      <3>1. InHand(c)'  BY <1>1, <2>2, <2>3, <2>7 DEF InHand, InWindow
      <3>2. ASSUME NEW d \in Cycle \ {c} PROVE InHand(d)'
        BY <1>1, <2>3, <2>4, <3>2 DEF CInv, InHand, InWindow
      <3> QED  BY <3>1, <3>2
    <2>9. Sole'
      <3>1. ASSUME NEW d \in Cycle \ {c}, cycle[d].of = g PROVE g \in again'
        BY <2>4, <3>1 DEF Unprotected
      <3> QED  BY <2>2, <2>3, <2>4, <3>1 DEF CInv, Sole
    <2>10. ASSUME NEW h \in Guid PROVE Guarded(h)'
      <3>1. Marking(h) => Marking(h)'  BY <1>1, <2>3 DEF Marking
      <3>2. published[h] \in Nat /\ logEnd[h] \in Int /\ cpiTime \in Nat /\ Ttl \in Nat
        BY CpiConstants DEF CInv, Typed
      <3>3. published[h] >= logEnd[h] + Ttl =>
               published'[h] >= logEnd[h] + Ttl \/ cpiTime >= logEnd[h] + Ttl
        BY <2>5, <3>2
      <3> QED  BY <1>1, <2>4, <3>1, <3>3 DEF CInv, Guarded
    <2>11. NoDuplicate' /\ MarkedIsDelivered'
      BY <1>1, <2>4, <2>5 DEF CInv, NoDuplicate, MarkedIsDelivered
    <2> QED  BY <2>6, <2>8, <2>9, <2>10, <2>11 DEF CInv
  <1> QED  BY <1>2, <1>3

\* The message in hand is delivered: once, or g may be delivered again.
LEMMA DeliveredInv ==
  ASSUME CInv, NEW c \in Cycle, cycle[c].at = "publish",
         NEW x \in CycleState, NEW more \in { 0, 1 },
         x.since = cycle[c].since, x.todo = cycle[c].todo,
         \/ x.at = "mark" /\ x.of = cycle[c].of /\ more = 1
         \/ x.at = "next" /\ x.of = NoGuid /\ (more = 1 => cycle[c].of \in again'),
         cycle' = [ cycle EXCEPT ![c] = x ],
         delivered' = [ delivered EXCEPT ![cycle[c].of] = @ + more ],
         again \subseteq again', again' \subseteq Guid,
         UNCHANGED << cpiTime, logEnd, published >>
  PROVE  CInv'
  <1>1. PICK g \in Guid : cycle[c].of = g  BY DEF CInv, InHand
  <1>2. g \in Guid /\ g # NoGuid /\ InHand(c) /\ logEnd[g] >= 0
    BY <1>1, CpiConstants DEF CInv, InHand
  <1>3. cycle'[c] = x /\ \A d \in Cycle \ {c} : cycle'[d] = cycle[d]  BY DEF CInv, Typed
  <1>4. /\ delivered' \in [Guid -> Nat] /\ delivered'[g] = delivered[g] + more /\ delivered[g] \in Nat
        /\ \A h \in Guid \ {g} : delivered'[h] = delivered[h]
    BY <1>2, <1>1 DEF CInv, Typed
  <1>5. Typed'  BY <1>4 DEF CInv, Typed
  <1>6. InHand(c)'
    BY <1>2, <1>1, <1>3, <1>4 DEF InHand, InWindow
  <1>7. ASSUME NEW d \in Cycle \ {c} PROVE InHand(d)'
    <2>1. InHand(d) /\ cycle'[d] = cycle[d]  BY <1>3 DEF CInv
    <2>2. cycle[d].of = g => g \in again'
      BY <1>2, <1>1 DEF CInv, Sole
    <2>3. cycle[d].of \in Guid /\ cycle[d].of # g => delivered'[cycle[d].of] = delivered[cycle[d].of]
      BY <1>4
    <2>4. cycle[d].at = "publish" /\ delivered'[cycle[d].of] > 0 => cycle[d].of \in again'
      <3>1. CASE cycle[d].of = g  BY <2>2, <3>1
      <3>2. CASE cycle[d].of # g  BY <2>1, <2>3, <3>2 DEF InHand
      <3> QED  BY <3>1, <3>2
    <2>5. cycle[d].at = "mark" => delivered'[cycle[d].of] > 0
      <3>1. CASE cycle[d].of = g  BY <1>4, <2>1, <3>1 DEF InHand
      <3>2. CASE cycle[d].of # g  BY <2>1, <2>3, <3>2 DEF InHand
      <3> QED  BY <3>1, <3>2
    <2> QED  BY <2>1, <2>4, <2>5 DEF InHand, InWindow
  <1>8. Sole'
    <2> SUFFICES ASSUME NEW d \in Cycle, NEW e \in Cycle \ {d}, cycle'[d].of = cycle'[e].of,
                        cycle'[d].of # NoGuid
                 PROVE  cycle'[d].of \in again'
      BY DEF Sole
    <2>1. cycle'[c].of = NoGuid \/ cycle'[c].of = cycle[c].of  BY <1>3
    <2>2. cycle'[d].of = cycle[d].of  BY <1>3, <2>1
    <2>3. cycle'[e].of = cycle[e].of  BY <1>3, <2>1
    <2>4. cycle[d].of \in again  BY <2>2, <2>3 DEF CInv, Sole
    <2> QED  BY <2>2, <2>4
  <1>9. ASSUME NEW h \in Guid PROVE Guarded(h)'
    <2>1. Marking(h) => Marking(h)'  BY <1>3 DEF Marking
    <2>2. CASE h # g  BY <1>4, <2>1, <2>2 DEF CInv, Guarded
    <2>3. CASE h = g
      <3>1. CASE x.at = "mark"
        <4>1. Marking(g)'  BY <1>1, <1>3, <3>1 DEF Marking
        <4> QED  BY <1>2, <2>3, <4>1 DEF CInv, Guarded
      <3>2. CASE more = 1 /\ g \in again'  BY <1>2, <2>3, <3>2 DEF CInv, Guarded
      <3>3. CASE more = 0
        <4>1. delivered'[g] = delivered[g]  BY <1>4, <3>3
        <4> QED  BY <2>1, <2>3, <4>1 DEF CInv, Guarded
      <3> QED  BY <1>1, <3>1, <3>2, <3>3
    <2> QED  BY <2>2, <2>3
  <1>10. ASSUME NEW h \in Guid, delivered'[h] > 1 PROVE h \in again'
    <2>1. CASE h # g  BY <1>4, <1>10, <2>1 DEF CInv, NoDuplicate
    <2>2. CASE h = g
      <3>1. delivered[g] > 0  BY <1>4, <1>10, <2>2
      <3> QED  BY <1>2, <1>1, <2>2, <3>1 DEF InHand
    <2> QED  BY <2>1, <2>2
  <1>11. MarkedIsDelivered'  BY <1>4 DEF CInv, MarkedIsDelivered
  <1> QED  BY <1>5, <1>6, <1>7, <1>8, <1>9, <1>10, <1>11 DEF CInv, NoDuplicate

LEMMA AcceptInv == ASSUME CInv, NEW c \in Cycle, Accept(c) PROVE CInv'
  <1>1. /\ cycle[c].at = "publish" /\ UNCHANGED << cpiTime, logEnd, published >>
        /\ cycle[c] \in CycleState /\ cycle[c].of \in Guid
    BY DEF Accept, CInv, Typed, InHand
  <1>2. delivered = [ delivered EXCEPT ![cycle[c].of] = @ + 0 ] /\ again \subseteq Guid
    BY <1>1 DEF CInv, Typed
  <1>3. CASE /\ cycle' = [ cycle EXCEPT ![c].at = "mark" ]
             /\ delivered' = [ delivered EXCEPT ![cycle[c].of] = @ + 1 ]
             /\ UNCHANGED << cpiCfg, again >>
    <2> DEFINE x == [ cycle[c] EXCEPT !.at = "mark" ]
    <2>1. /\ x \in CycleState /\ x.at = "mark" /\ x.of = cycle[c].of
          /\ x.since = cycle[c].since /\ x.todo = cycle[c].todo
      BY <1>1 DEF CycleState
    <2>2. cycle' = [ cycle EXCEPT ![c] = x ]  BY <1>3
    <2> HIDE DEF x
    <2> QED  BY <1>1, <1>2, <1>3, <2>1, <2>2, DeliveredInv
  <1>4. CASE /\ cycle' = [ cycle EXCEPT ![c].at = "next", ![c].of = NoGuid ]
             /\ \/ /\ delivered' = [ delivered EXCEPT ![cycle[c].of] = @ + 1 ]
                   /\ again' = again \union { cycle[c].of }
                \/ UNCHANGED << delivered, again >>
    <2> DEFINE x == [ cycle[c] EXCEPT !.at = "next", !.of = NoGuid ]
    <2>1. /\ x \in CycleState /\ x.at = "next" /\ x.of = NoGuid
          /\ x.since = cycle[c].since /\ x.todo = cycle[c].todo
      BY <1>1 DEF CycleState
    <2>2. cycle' = [ cycle EXCEPT ![c] = x ]  BY <1>4 DEF CInv, Typed
    <2> HIDE DEF x
    <2>3. CASE /\ delivered' = [ delivered EXCEPT ![cycle[c].of] = @ + 1 ]
               /\ again' = again \union { cycle[c].of }
      <3>1. cycle[c].of \in again' /\ again \subseteq again' /\ again' \subseteq Guid
        BY <1>1, <1>2, <2>3
      <3> QED  BY <1>1, <2>1, <2>2, <2>3, <3>1, DeliveredInv
    <2>4. CASE UNCHANGED << delivered, again >>
      <3> DEFINE more == 0
      <3>1. more \in { 0, 1 } /\ more # 1  OBVIOUS
      <3>2. delivered' = [ delivered EXCEPT ![cycle[c].of] = @ + more ]  BY <1>2, <2>4
      <3>3. again \subseteq again' /\ again' \subseteq Guid  BY <1>2, <2>4
      <3> HIDE DEF more
      <3> QED  BY <1>1, <2>1, <2>2, <3>1, <3>2, <3>3, DeliveredInv
    <2> QED  BY <1>4, <2>3, <2>4
  <1> QED  BY <1>3, <1>4 DEF Accept

LEMMA MarkInv == ASSUME CInv, NEW c \in Cycle, Mark(c) PROVE CInv'
  <1> DEFINE g == cycle[c].of
             x == [ cycle[c] EXCEPT !.at = "next", !.of = NoGuid ]
  <1>1. /\ cycle[c].at = "mark" /\ UNCHANGED << cpiTime, logEnd, delivered, again >>
        /\ cycle[c] \in CycleState /\ g \in Guid /\ InHand(c) /\ delivered[g] > 0
    BY DEF Mark, CInv, Typed, InHand
  <1>2. /\ x \in CycleState /\ x.at = "next" /\ x.of = NoGuid
        /\ x.since = cycle[c].since /\ x.todo = cycle[c].todo
    BY <1>1 DEF CycleState
  <1>3. cycle' = [ cycle EXCEPT ![c] = x ]  BY DEF Mark, CInv, Typed
  <1>4. published' = [ published EXCEPT ![g] = cpiTime + Ttl ]  BY DEF Mark, Expiry
  <1> HIDE DEF g, x
  <1>5. cycle[c].of = g  BY DEF g
  <1>6. cycle'[c] = x /\ \A d \in Cycle \ {c} : cycle'[d] = cycle[d]  BY <1>3 DEF CInv, Typed
  <1>7. /\ published' \in [Guid -> Nat] /\ published'[g] = cpiTime + Ttl
        /\ \A h \in Guid \ {g} : published'[h] = published[h]
    BY <1>1, <1>4, CpiConstants DEF CInv, Typed
  <1>8. Typed'  BY <1>1, <1>2, <1>3, <1>7 DEF CInv, Typed
  <1>9. \A d \in Cycle : InHand(d)'
    BY <1>1, <1>2, <1>6 DEF CInv, InHand, InWindow
  <1>10. Sole'  BY <1>1, <1>2, <1>6 DEF CInv, Sole
  <1>11. ASSUME NEW h \in Guid PROVE Guarded(h)'
    <2>1. CASE h = g
      <3>1. logEnd[g] <= cpiTime /\ logEnd[g] \in Int /\ cpiTime \in Nat /\ Ttl \in Nat
        BY <1>1, CpiConstants DEF CInv, Guarded, Typed
      <3>2. published'[g] >= logEnd[g] + Ttl  BY <1>7, <3>1
      <3> QED  BY <1>1, <2>1, <3>2 DEF CInv, Guarded
    <2>2. CASE h # g
      <3>1. Marking(h) => Marking(h)'  BY <1>5, <1>6, <2>2 DEF Marking
      <3> QED  BY <1>1, <1>7, <2>2, <3>1 DEF CInv, Guarded
    <2> QED  BY <2>1, <2>2
  <1>12. NoDuplicate' /\ MarkedIsDelivered'
    BY <1>1, <1>7 DEF CInv, NoDuplicate, MarkedIsDelivered
  <1> QED  BY <1>8, <1>9, <1>10, <1>11, <1>12 DEF CInv

-----------------------------------------------------------------------------
LEMMA CpiInductive == CInv /\ [CpiNext]_cpiVars => CInv'
  <1> SUFFICES ASSUME CInv, [CpiNext]_cpiVars PROVE CInv'  OBVIOUS
  <1>1. CASE UNCHANGED cpiVars
    BY <1>1 DEF cpiVars, CInv, Typed, InHand, InWindow, Sole, Guarded, Marking, NoDuplicate, MarkedIsDelivered
  <1>2. CASE Tick  BY <1>2, TickInv
  <1>3. ASSUME NEW g \in Guid, MessageFails(g) PROVE CInv'  BY <1>3, MessageInv
  <1>4. ASSUME NEW c \in Cycle, CycleStep(c) PROVE CInv'
    BY <1>4, QueryInv, CredentialsInv, PickInv, AcceptInv, MarkInv DEF CycleStep
  <1>5. CASE CpiRestart  BY <1>5, RestartInv
  <1> QED  BY <1>1, <1>2, <1>3, <1>4, <1>5 DEF CpiNext

LEMMA Inductive ==
  CpiSpec => []CInv
  BY InitInv, CpiInductive, PTL DEF CpiSpec

-----------------------------------------------------------------------------
(* The bounds on time *)

CycleType == [ at : { "asleep", "credentials", "next", "publish", "mark" },
               since : 0 .. MaxTime, todo : SUBSET Guid, of : Guid \union {NoGuid} ]

LEMMA NoCycleTyped == NoCycle \in CycleType
  BY CpiConstants DEF NoCycle, CycleType

LEMMA CpiInitTyped == ASSUME CpiInit PROVE CpiTypeOK
  BY NoCycleTyped, CpiConstants DEF CpiInit, CpiTypeOK, CycleType

\* A cycle goes on with its list, no message in hand.
LEMMA CycleGoesOn ==
  ASSUME cycle \in [Cycle -> CycleType], NEW c \in Cycle,
         cycle' = [ cycle EXCEPT ![c].at = "next", ![c].of = NoGuid ]
  PROVE  cycle' \in [Cycle -> CycleType]
  <1> DEFINE a == [ cycle[c] EXCEPT !.at = "next" ]
             b == [ a EXCEPT !.of = NoGuid ]
  <1>1. cycle' = [ cycle EXCEPT ![c] = b ]  BY Zenon
  <1>2. a \in CycleType  BY DEF CycleType
  <1> HIDE DEF a
  <1>3. b \in CycleType  BY <1>2 DEF CycleType
  <1> HIDE DEF b
  <1> QED  BY <1>1, <1>3

LEMMA FinishTyped ==
  ASSUME CpiTypeOK, NEW c \in Cycle, Finish(c)
  PROVE  cycle' \in [Cycle -> CycleType] /\ wake' \in 0 .. MaxTime + Window
  BY NoCycleTyped, CpiConstants DEF CpiTypeOK, Finish, CycleType

LEMMA FaultTyped ==
  ASSUME CpiTypeOK, Fault
  PROVE  cpiCfg' \in [ faults : Nat, restarts : Nat, cycles : SUBSET Cycle ]
  BY DEF CpiTypeOK, Fault

LEMMA QueryTyped == ASSUME CpiTypeOK, NEW c \in Cycle, Query(c) PROVE CpiTypeOK'
  <1>1. UNCHANGED << cpiTime, logEnd, published, delivered, again >>  BY DEF Query
  <1>2. CASE \E L \in SUBSET Guid :
               /\ cycle' = [ cycle EXCEPT ![c] = [ at |-> "credentials", since |-> cpiTime, todo |-> L, of |-> NoGuid ] ]
               /\ UNCHANGED << wake, cpiCfg >>
    <2>1. PICK L \in SUBSET Guid :
               /\ cycle' = [ cycle EXCEPT ![c] = [ at |-> "credentials", since |-> cpiTime, todo |-> L, of |-> NoGuid ] ]
               /\ UNCHANGED << wake, cpiCfg >>
      BY <1>2
    <2>2. [ at |-> "credentials", since |-> cpiTime, todo |-> L, of |-> NoGuid ] \in CycleType
      BY DEF CpiTypeOK, CycleType
    <2>3. cycle' \in [Cycle -> CycleType]  BY <2>1, <2>2 DEF CpiTypeOK, CycleType
    <2> QED  BY <1>1, <2>1, <2>3 DEF CpiTypeOK, CycleType
  <1>3. CASE Finish(c) /\ (UNCHANGED cpiCfg \/ Fault)
    BY <1>1, <1>3, FinishTyped, FaultTyped DEF CpiTypeOK, CycleType
  <1> QED  BY <1>2, <1>3 DEF Query

LEMMA CredentialsStepTyped == ASSUME CpiTypeOK, NEW c \in Cycle, PublisherCredentials(c) PROVE CpiTypeOK'
  <1>1. UNCHANGED << cpiTime, logEnd, published, delivered, again >>  BY DEF PublisherCredentials
  <1>2. CASE cycle' = [ cycle EXCEPT ![c].at = "next" ] /\ UNCHANGED << wake, cpiCfg >>
    <2>1. cycle' \in [Cycle -> CycleType]  BY <1>2 DEF CpiTypeOK, CycleType
    <2> QED  BY <1>1, <1>2, <2>1 DEF CpiTypeOK, CycleType
  <1>3. CASE Fault /\ Finish(c)
    BY <1>1, <1>3, FinishTyped, FaultTyped DEF CpiTypeOK, CycleType
  <1> QED  BY <1>2, <1>3 DEF PublisherCredentials

LEMMA PickTyped == ASSUME CpiTypeOK, NEW c \in Cycle, NEW g \in Guid, Pick(c, g) PROVE CpiTypeOK'
  <1>1. UNCHANGED << cpiTime, logEnd, wake, cpiCfg, delivered >>  BY DEF Pick
  <1>2. published' \in [Guid -> 0 .. MaxTime + Ttl] /\ again' \subseteq Guid
    BY CpiConstants DEF CpiTypeOK, Pick, Checked, Purged
  <1>3. cycle' \in [Cycle -> CycleType]
    <2>1. CASE cycle' = [ cycle EXCEPT ![c].todo = @ \ {g} ]  BY <2>1 DEF CpiTypeOK, CycleType
    <2>2. CASE cycle' = [ cycle EXCEPT ![c] = Publishing(c, g) ]
      BY <2>2 DEF CpiTypeOK, CycleType, Publishing
    <2> QED  BY <2>1, <2>2 DEF Pick
  <1> QED  BY <1>1, <1>2, <1>3 DEF CpiTypeOK, CycleType

LEMMA AcceptTyped == ASSUME CpiTypeOK, CInv, NEW c \in Cycle, Accept(c) PROVE CpiTypeOK'
  <1>1. UNCHANGED << cpiTime, logEnd, wake, published >> /\ cycle[c].at = "publish"  BY DEF Accept
  <1>2. cycle[c].of \in Guid  BY <1>1 DEF CInv, InHand
  <1>3. cycle \in [Cycle -> CycleType]  BY DEF CpiTypeOK, CycleType
  <1>4. delivered' \in [Guid -> Nat] /\ again' \subseteq Guid  BY <1>2 DEF CpiTypeOK, Accept
  <1>5. CASE cycle' = [ cycle EXCEPT ![c].at = "mark" ] /\ UNCHANGED cpiCfg
    <2>1. cycle' \in [Cycle -> CycleType]  BY <1>3, <1>5 DEF CycleType
    <2> QED  BY <1>1, <1>4, <1>5, <2>1 DEF CpiTypeOK, CycleType
  <1>6. CASE Fault /\ cycle' = [ cycle EXCEPT ![c].at = "next", ![c].of = NoGuid ]
    <2>1. cycle' \in [Cycle -> CycleType]  BY <1>3, <1>6, CycleGoesOn, Zenon
    <2>2. cpiCfg' \in [ faults : Nat, restarts : Nat, cycles : SUBSET Cycle ]  BY <1>6, FaultTyped
    <2> QED  BY <1>1, <1>4, <2>1, <2>2 DEF CpiTypeOK, CycleType
  <1> QED  BY <1>5, <1>6 DEF Accept

LEMMA MarkTyped == ASSUME CpiTypeOK, CInv, NEW c \in Cycle, Mark(c) PROVE CpiTypeOK'
  <1>1. UNCHANGED << cpiTime, logEnd, wake, cpiCfg, delivered, again >> /\ cycle[c].at = "mark"
    BY DEF Mark
  <1>2. cycle[c].of \in Guid  BY <1>1 DEF CInv, InHand
  <1>3. published' \in [Guid -> 0 .. MaxTime + Ttl]
    BY <1>2, CpiConstants DEF CpiTypeOK, Mark, Expiry
  <1>4. cycle \in [Cycle -> CycleType]  BY DEF CpiTypeOK, CycleType
  <1>5. cycle' \in [Cycle -> CycleType]  BY <1>4, CycleGoesOn, Zenon DEF Mark
  <1> QED  BY <1>1, <1>3, <1>5 DEF CpiTypeOK, CycleType

LEMMA CpiTyping == CpiTypeOK /\ CInv /\ [CpiNext]_cpiVars => CpiTypeOK'
  <1> SUFFICES ASSUME CpiTypeOK, CInv, [CpiNext]_cpiVars PROVE CpiTypeOK'  OBVIOUS
  <1>1. CASE UNCHANGED cpiVars  BY <1>1 DEF cpiVars, CpiTypeOK
  <1>2. CASE Tick  BY <1>2, CpiConstants DEF Tick, CpiTypeOK
  <1>3. ASSUME NEW g \in Guid, MessageFails(g) PROVE CpiTypeOK'
    BY <1>3, CpiConstants DEF MessageFails, CpiTypeOK
  <1>4. ASSUME NEW c \in Cycle, Done(c) PROVE CpiTypeOK'
    BY <1>4, FinishTyped DEF Done, CpiTypeOK, CycleType
  <1>5. ASSUME NEW c \in Cycle, CycleStep(c) PROVE CpiTypeOK'
    BY <1>4, <1>5, QueryTyped, CredentialsStepTyped, PickTyped, AcceptTyped, MarkTyped DEF CycleStep
  <1>6. CASE CpiRestart
    <2>1. cycle' \in [Cycle -> CycleType]  BY <1>6, NoCycleTyped DEF CpiRestart
    <2>2. /\ wake' \in 0 .. MaxTime + Window /\ published' \in [Guid -> 0 .. MaxTime + Ttl]
          /\ again' \subseteq Guid
          /\ cpiCfg' \in [ faults : Nat, restarts : Nat, cycles : SUBSET Cycle ]
      BY <1>6, CpiConstants DEF CpiRestart, CpiTypeOK
    <2> QED  BY <1>6, <2>1, <2>2 DEF CpiRestart, CpiTypeOK, CycleType
  <1> QED  BY <1>1, <1>2, <1>3, <1>5, <1>6 DEF CpiNext

-----------------------------------------------------------------------------

\* A failed message is published a second time only when two cycles publish it at once, a
\* cycle outlasts what the entry's lifetime leaves beyond the window, an answer was lost, or
\* the process restarted (error_publisher.py: _is_duplicate, _mark_published).
THEOREM OncePublished ==
  CpiSpec => []NoDuplicate
  <1>1. CInv => NoDuplicate  BY DEF CInv
  <1> QED  BY <1>1, Inductive, PTL

\* What the table names as published was accepted by Event Mesh (error_publisher.py).
THEOREM NeverHidden ==
  CpiSpec => []MarkedIsDelivered
  <1>1. CInv => MarkedIsDelivered  BY DEF CInv
  <1> QED  BY <1>1, Inductive, PTL
=============================================================================
