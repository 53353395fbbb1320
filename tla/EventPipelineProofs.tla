------------------------- MODULE EventPipelineProofs -------------------------
(***************************************************************************)
(* What TLAPS proves of EventPipeline for any events, signatures, tasks    *)
(* and environments and any bounds. Every step is first reduced to what it *)
(* does to the incident table and to the coroutine that takes it (Entered, *)
(* Finished, Moves and the lemmas ...Does); each invariant is then proved  *)
(* from these effects.                                                     *)
(***************************************************************************)
EXTENDS EventPipeline, TLAPS, FiniteSetTheorems, WellFoundedInduction, NaturalsInduction,
        SequenceTheorems

-----------------------------------------------------------------------------
(* Lists *)

\* The first entry of a list and the others.
LEMMA ListParts ==
  ASSUME NEW S, NEW s \in Seq(S), s # << >>
  PROVE  /\ Head(s) \in S /\ Tail(s) \in Seq(S)
         /\ Range(s) = { Head(s) } \union Range(Tail(s))
         /\ Range(s) \subseteq S
         /\ Len(s) <= 1 => Tail(s) = << >>
         /\ Len(s) > 1 => Tail(s) # << >>
<1>1. /\ Head(s) \in S /\ Tail(s) \in Seq(S) /\ Head(s) = s[1]
      /\ Len(Tail(s)) = Len(s) - 1
      /\ \A i \in 1 .. Len(Tail(s)) : Tail(s)[i] = s[i + 1]
  BY HeadTailProperties
<1>2. Len(s) \in Nat /\ Len(s) # 0 /\ DOMAIN s = 1 .. Len(s)  BY EmptySeq
<1>3. DOMAIN Tail(s) = 1 .. Len(s) - 1  BY <1>1
<1>4. Len(s) <= 1 => Tail(s) = << >>
  <2>1. ASSUME Len(s) <= 1 PROVE Len(Tail(s)) = 0  BY <2>1, <1>1, <1>2
  <2> QED  BY <2>1, <1>1, EmptySeq
<1>5. Len(s) > 1 => Tail(s) # << >>
  <2>1. ASSUME Len(s) > 1 PROVE Len(Tail(s)) # 0  BY <2>1, <1>1, <1>2
  <2> QED  BY <2>1, EmptySeq
<1>6. Range(s) \subseteq S  BY <1>2 DEF Range
<1>7. Range(s) \subseteq { Head(s) } \union Range(Tail(s))
  <2> SUFFICES ASSUME NEW i \in 1 .. Len(s), i # 1 PROVE s[i] \in Range(Tail(s))
    BY <1>1, <1>2 DEF Range
  <2>1. i - 1 \in 1 .. Len(Tail(s)) /\ (i - 1) + 1 = i  BY <1>1, <1>2
  <2>2. Tail(s)[i - 1] = s[i]  BY <2>1, <1>1
  <2> QED  BY <2>1, <2>2, <1>1, <1>3 DEF Range
<1>8. { Head(s) } \union Range(Tail(s)) \subseteq Range(s)
  <2>1. s[1] \in Range(s)  BY <1>2 DEF Range
  <2>2. ASSUME NEW i \in 1 .. Len(Tail(s)) PROVE Tail(s)[i] \in Range(s)
    <3>1. i + 1 \in 1 .. Len(s) /\ Tail(s)[i] = s[i + 1]  BY <1>1, <1>2
    <3> QED  BY <3>1, <1>2 DEF Range
  <2>3. Range(Tail(s)) \subseteq Range(s)  BY <2>2, <1>1, <1>3 DEF Range
  <2> QED  BY <2>1, <2>3, <1>1
<1> QED  BY <1>1, <1>4, <1>5, <1>6, <1>7, <1>8

LEMMA OneEntry ==
  ASSUME NEW S, NEW s \in Seq(S), Len(s) = 1
  PROVE  s # << >> /\ Tail(s) = << >>
<1>1. s # << >>  BY EmptySeq
<1>2. Len(s) <= 1  OBVIOUS
<1> QED  BY <1>1, <1>2, ListParts

-----------------------------------------------------------------------------
(* The greatest number of a bounded set, and the number of the next incident *)

\* A set of natural numbers that is not empty has a least element.
LEMMA LeastNatural ==
  ASSUME NEW S, S \subseteq Nat, S # {}
  PROVE  \E x \in S : \A y \in S : x <= y
<1> DEFINE R == { ss \in Nat \X Nat : ss[1] < ss[2] }
<1>1. IsWellFoundedOn(R, Nat)
  BY NatLessThanWellFounded DEF OpToRel
<1>2. \A x, y \in Nat : ~ (<< y, x >> \in R) => x <= y
  BY SMT
<1>3. \A x \in S : x \in Nat  OBVIOUS
<1> HIDE DEF R
<1>4. \E x \in S : \A y \in S : ~ (<< y, x >> \in R)
  BY <1>1, WFMin
<1> QED  BY <1>2, <1>3, <1>4

\* Max returns an element no other exceeds.
LEMMA MaxOfBounded ==
  ASSUME NEW S, NEW n \in Nat, S \subseteq 0 .. n, S # {}
  PROVE  Max(S) \in S /\ \A y \in S : y <= Max(S)
<1> DEFINE T == { n - x : x \in S }
<1>1. T \subseteq Nat /\ T # {}
  <2>1. \A x \in S : x \in 0 .. n /\ n - x \in Nat  OBVIOUS
  <2>2. PICK x \in S : TRUE  OBVIOUS
  <2>3. n - x \in T  BY <2>2
  <2> QED  BY <2>1, <2>3
<1>2. PICK z \in T : \A y \in T : z <= y
  <2> HIDE DEF T
  <2> QED  BY <1>1, LeastNatural
<1>3. PICK x \in S : z = n - x  OBVIOUS
<1>4. \A y \in S : n - x <= n - y  BY <1>2, <1>3
<1>5. \A y \in S : x >= y  BY <1>4
<1> QED  BY <1>5 DEF Max

-----------------------------------------------------------------------------
(* Tables *)

\* The numbers in use are no greater than the number of rows, and every row counts a failure.
Dense(rs) == \A k \in 1 .. Len(rs) : rs[k].id <= Len(rs) /\ rs[k].n > 0

Table == { rs \in Seq(Row) : Len(rs) <= MaxRows /\ Dense(rs) }

\* The rows stay, with their numbers.
Grows(rs, r2) == Len(rs) <= Len(r2) /\ \A k \in 1 .. Len(rs) : r2[k].id = rs[k].id

\* Nothing but statuses and escalations changes, and these only in rows numbered i.
Restated(rs, r2, i) ==
    /\ Len(r2) = Len(rs)
    /\ \A k \in 1 .. Len(rs) :
         /\ r2[k].id = rs[k].id /\ r2[k].sig = rs[k].sig /\ r2[k].group = rs[k].group
         /\ r2[k].act = rs[k].act /\ r2[k].n = rs[k].n
         /\ rs[k].id # i => r2[k].st = rs[k].st

\* All rows numbered i have the status st.
Are(rs, i, st) == \A k \in 1 .. Len(rs) : rs[k].id = i => rs[k].st = st

\* generate_orbit_id returns a number no row has, at most one more than there are rows.
LEMMA NextIdIsNew ==
  ASSUME NEW rs \in Table
  PROVE  /\ NextId(rs) \in 1 .. Len(rs) + 1
         /\ \A k \in 1 .. Len(rs) : rs[k].id < NextId(rs)
<1> DEFINE n == Len(rs)
<1>1. rs \in Seq(Row) /\ n \in Nat /\ DOMAIN rs = 1 .. n  BY DEF Table
<1>2. \A k \in 1 .. n : rs[k] \in Row /\ rs[k].id \in 0 .. n
  <2> TAKE k \in 1 .. n
  <2>1. rs[k] \in Row  BY <1>1
  <2>2. rs[k].id \in Nat  BY <2>1, ConstantsAssumption DEF Row, Id
  <2>3. rs[k].id <= n  BY <1>1 DEF Table, Dense
  <2> QED  BY <2>1, <2>2, <2>3, <1>1
<1>3. CASE n = 0
  BY <1>1, <1>3 DEF NextId
<1>4. CASE n > 0
  <2>1. RowIds(rs) \subseteq 0 .. n /\ rs[1].id \in RowIds(rs)
    BY <1>1, <1>2, <1>4 DEF RowIds
  <2>2. Max(RowIds(rs)) \in RowIds(rs) /\ \A y \in RowIds(rs) : y <= Max(RowIds(rs))
    BY <2>1, <1>1, MaxOfBounded
  <2>3. rs # << >>  BY <1>1, <1>4
  <2>4. NextId(rs) = 1 + Max(RowIds(rs))  BY <2>3 DEF NextId
  <2>5. \A k \in 1 .. n : rs[k].id \in RowIds(rs)  BY <1>1 DEF RowIds
  <2> QED  BY <2>1, <2>2, <2>4, <2>5, <1>1, <1>2
<1> QED  BY <1>1, <1>3, <1>4

\* SetStatus writes the status of the rows numbered i.
LEMMA SetStatusRows ==
  ASSUME NEW rs \in Table, NEW i, NEW st \in PipelineStatus
  PROVE  /\ SetStatus(rs, i, st) \in Table
         /\ Restated(rs, SetStatus(rs, i, st), i)
         /\ Are(SetStatus(rs, i, st), i, st)
<1> DEFINE r2 == SetStatus(rs, i, st)
<1>1. rs \in Seq(Row) /\ Len(rs) \in Nat /\ Len(rs) <= MaxRows /\ Dense(rs)  BY DEF Table
<1>2. r2 = [k \in 1 .. Len(rs) |-> IF rs[k].id = i THEN [rs[k] EXCEPT !.st = st] ELSE rs[k]]
  BY <1>1 DEF SetStatus, SetWhere
<1>3. \A k \in 1 .. Len(rs) : rs[k] \in Row  BY <1>1
<1>4. \A k \in 1 .. Len(rs) : r2[k] \in Row
  BY <1>2, <1>3 DEF Row
<1>5. r2 \in Seq(Row) /\ Len(r2) = Len(rs)  BY <1>1, <1>2, <1>4
<1>6. \A k \in 1 .. Len(rs) :
        /\ r2[k].id = rs[k].id /\ r2[k].sig = rs[k].sig /\ r2[k].group = rs[k].group
        /\ r2[k].act = rs[k].act /\ r2[k].n = rs[k].n
        /\ r2[k].st = IF rs[k].id = i THEN st ELSE rs[k].st
  BY <1>2, <1>3 DEF Row
<1> HIDE DEF r2
<1>7. Dense(r2)  BY <1>1, <1>5, <1>6 DEF Dense
<1>8. r2 \in Table  BY <1>1, <1>5, <1>7 DEF Table
<1>9. Restated(rs, r2, i)  BY <1>5, <1>6 DEF Restated
<1>10. Are(r2, i, st)  BY <1>5, <1>6 DEF Are
<1> QED  BY <1>8, <1>9, <1>10 DEF r2

\* So does Escalated.
LEMMA EscalatedRows ==
  ASSUME NEW rs \in Table, NEW i
  PROVE  /\ Escalated(rs, i) \in Table
         /\ Restated(rs, Escalated(rs, i), i)
         /\ Are(Escalated(rs, i), i, "TICKET_CREATED")
<1> DEFINE r2 == Escalated(rs, i)
<1>1. rs \in Seq(Row) /\ Len(rs) \in Nat /\ Len(rs) <= MaxRows /\ Dense(rs)  BY DEF Table
<1>2. r2 = [k \in 1 .. Len(rs) |->
              IF rs[k].id = i THEN [rs[k] EXCEPT !.st = "TICKET_CREATED", !.esc = TRUE] ELSE rs[k]]
  BY <1>1 DEF Escalated, SetWhere
<1>3. \A k \in 1 .. Len(rs) : rs[k] \in Row  BY <1>1
<1>4. \A k \in 1 .. Len(rs) : r2[k] \in Row
  <2> TAKE k \in 1 .. Len(rs)
  <2>1. [rs[k] EXCEPT !.st = "TICKET_CREATED"] \in Row
    BY <1>3 DEF Row, PipelineStatus, Terminal
  <2>2. [[rs[k] EXCEPT !.st = "TICKET_CREATED"] EXCEPT !.esc = TRUE] \in Row
    BY <2>1 DEF Row
  <2>3. [rs[k] EXCEPT !.st = "TICKET_CREATED", !.esc = TRUE]
          = [[rs[k] EXCEPT !.st = "TICKET_CREATED"] EXCEPT !.esc = TRUE]
    BY <1>3, SMT DEF Row
  <2> QED  BY <1>2, <1>3, <2>2, <2>3
<1>5. r2 \in Seq(Row) /\ Len(r2) = Len(rs)
  <2>1. r2 = [k \in 1 .. Len(rs) |-> r2[k]]  BY <1>2, Zenon
  <2> HIDE DEF r2
  <2> QED  BY <2>1, <1>1, <1>4
<1>6. \A k \in 1 .. Len(rs) :
        /\ r2[k].id = rs[k].id /\ r2[k].sig = rs[k].sig /\ r2[k].group = rs[k].group
        /\ r2[k].act = rs[k].act /\ r2[k].n = rs[k].n
        /\ r2[k].st = IF rs[k].id = i THEN "TICKET_CREATED" ELSE rs[k].st
  BY <1>2, <1>3, ZenonT(40) DEF Row
<1> HIDE DEF r2
<1>7. Dense(r2)  BY <1>1, <1>5, <1>6 DEF Dense
<1>8. r2 \in Table  BY <1>1, <1>5, <1>7 DEF Table
<1>9. Restated(rs, r2, i)  BY <1>5, <1>6 DEF Restated
<1>10. Are(r2, i, "TICKET_CREATED")  BY <1>5, <1>6 DEF Are
<1> QED  BY <1>8, <1>9, <1>10 DEF r2
\* increment_incident_occurrence gives all rows with the number of row k one count more than
\* row k has.
LEMMA CountedRows ==
  ASSUME NEW rs \in Table, NEW k \in 1 .. Len(rs)
  PROVE  /\ Counted(rs, k) \in Table
         /\ Len(Counted(rs, k)) = Len(rs)
         /\ \A j \in 1 .. Len(rs) :
              /\ Counted(rs, k)[j].id = rs[j].id /\ Counted(rs, k)[j].sig = rs[j].sig
              /\ Counted(rs, k)[j].group = rs[j].group
              /\ Counted(rs, k)[j].act = rs[j].act /\ Counted(rs, k)[j].st = rs[j].st
              /\ Counted(rs, k)[j].n = IF rs[j].id = rs[k].id THEN rs[k].n + 1 ELSE rs[j].n
<1> DEFINE r2 == Counted(rs, k)
<1>1. rs \in Seq(Row) /\ Len(rs) \in Nat /\ Len(rs) <= MaxRows /\ Dense(rs)  BY DEF Table
<1>2. \A j \in 1 .. Len(rs) : rs[j] \in Row  BY <1>1
<1>3. rs[k].n + 1 \in Nat  BY <1>2 DEF Row
<1>4. r2 = [j \in 1 .. Len(rs) |->
              IF rs[j].id = rs[k].id THEN [rs[j] EXCEPT !.n = rs[k].n + 1] ELSE rs[j]]
  BY <1>1 DEF Counted, SetWhere
<1>5. \A j \in 1 .. Len(rs) : r2[j] \in Row
  BY <1>2, <1>3, <1>4, SMTT(40) DEF Row
<1>6. r2 \in Seq(Row) /\ Len(r2) = Len(rs)  BY <1>1, <1>4, <1>5
<1>7. \A j \in 1 .. Len(rs) :
        /\ r2[j].id = rs[j].id /\ r2[j].sig = rs[j].sig /\ r2[j].group = rs[j].group
        /\ r2[j].act = rs[j].act /\ r2[j].st = rs[j].st
        /\ r2[j].n = IF rs[j].id = rs[k].id THEN rs[k].n + 1 ELSE rs[j].n
  BY <1>2, <1>3, <1>4 DEF Row
<1> HIDE DEF r2
<1>8. Dense(r2)
  <2>1. rs[k].n \in Nat  BY <1>2 DEF Row
  <2> QED  BY <1>1, <1>6, <1>7, <2>1 DEF Dense
<1>9. r2 \in Table  BY <1>1, <1>6, <1>8 DEF Table
<1> QED  BY <1>6, <1>7, <1>9 DEF r2

\* A corrected signature changes nothing else.
LEMMA RetypedRows ==
  ASSUME NEW rs \in Table, NEW i, NEW s \in Sig
  PROVE  /\ Retyped(rs, i, s) \in Table
         /\ Len(Retyped(rs, i, s)) = Len(rs)
         /\ \A k \in 1 .. Len(rs) :
              /\ Retyped(rs, i, s)[k].id = rs[k].id /\ Retyped(rs, i, s)[k].act = rs[k].act
              /\ Retyped(rs, i, s)[k].st = rs[k].st /\ Retyped(rs, i, s)[k].n = rs[k].n
<1> DEFINE r2 == Retyped(rs, i, s)
<1>1. rs \in Seq(Row) /\ Len(rs) \in Nat /\ Len(rs) <= MaxRows /\ Dense(rs)  BY DEF Table
<1>2. \A k \in 1 .. Len(rs) : rs[k] \in Row  BY <1>1
<1>3. r2 = [k \in 1 .. Len(rs) |-> IF rs[k].id = i THEN [rs[k] EXCEPT !.sig = s] ELSE rs[k]]
  BY <1>1 DEF Retyped, SetWhere
<1>4. \A k \in 1 .. Len(rs) : r2[k] \in Row
  BY <1>2, <1>3 DEF Row
<1>5. r2 \in Seq(Row) /\ Len(r2) = Len(rs)  BY <1>1, <1>3, <1>4
<1>6. \A k \in 1 .. Len(rs) :
        /\ r2[k].id = rs[k].id /\ r2[k].act = rs[k].act
        /\ r2[k].st = rs[k].st /\ r2[k].n = rs[k].n
  BY <1>2, <1>3 DEF Row
<1> HIDE DEF r2
<1>7. Dense(r2)  BY <1>1, <1>5, <1>6 DEF Dense
<1>8. r2 \in Table  BY <1>1, <1>5, <1>7 DEF Table
<1> QED  BY <1>5, <1>6, <1>8 DEF r2

\* The result of RCA reaches the rows numbered i.
LEMMA DiagnosedRows ==
  ASSUME NEW rs \in Table, NEW i, NEW act \in BOOLEAN
  PROVE  /\ Diagnose(rs, i, act) \in Table
         /\ Len(Diagnose(rs, i, act)) = Len(rs)
         /\ \A k \in 1 .. Len(rs) :
              /\ Diagnose(rs, i, act)[k].id = rs[k].id /\ Diagnose(rs, i, act)[k].n = rs[k].n
              /\ Diagnose(rs, i, act)[k].sig = rs[k].sig
              /\ Diagnose(rs, i, act)[k].group = rs[k].group
              /\ rs[k].id # i => /\ Diagnose(rs, i, act)[k].act = rs[k].act
                                 /\ Diagnose(rs, i, act)[k].st = rs[k].st
         /\ Are(Diagnose(rs, i, act), i, "RCA_COMPLETE")
<1> DEFINE r2 == Diagnose(rs, i, act)
<1>1. rs \in Seq(Row) /\ Len(rs) \in Nat /\ Len(rs) <= MaxRows /\ Dense(rs)  BY DEF Table
<1>2. \A k \in 1 .. Len(rs) : rs[k] \in Row  BY <1>1
<1>3. r2 = [k \in 1 .. Len(rs) |->
              IF rs[k].id = i THEN [rs[k] EXCEPT !.st = "RCA_COMPLETE", !.act = act] ELSE rs[k]]
  BY <1>1 DEF Diagnose, SetWhere
<1>4. \A k \in 1 .. Len(rs) : r2[k] \in Row
  <2> TAKE k \in 1 .. Len(rs)
  <2>1. [rs[k] EXCEPT !.st = "RCA_COMPLETE"] \in Row
    BY <1>2 DEF Row, PipelineStatus
  <2>2. [[rs[k] EXCEPT !.st = "RCA_COMPLETE"] EXCEPT !.act = act] \in Row
    BY <2>1 DEF Row
  <2>3. [rs[k] EXCEPT !.st = "RCA_COMPLETE", !.act = act]
          = [[rs[k] EXCEPT !.st = "RCA_COMPLETE"] EXCEPT !.act = act]
    BY <1>2, SMT DEF Row
  <2> QED  BY <1>2, <1>3, <2>2, <2>3
<1>5. r2 \in Seq(Row) /\ Len(r2) = Len(rs)
  <2>1. r2 = [k \in 1 .. Len(rs) |-> r2[k]]  BY <1>3, Zenon
  <2> HIDE DEF r2
  <2> QED  BY <2>1, <1>1, <1>4
<1>6. \A k \in 1 .. Len(rs) :
        /\ r2[k].id = rs[k].id /\ r2[k].n = rs[k].n /\ r2[k].sig = rs[k].sig
        /\ r2[k].group = rs[k].group
        /\ rs[k].id # i => r2[k].act = rs[k].act /\ r2[k].st = rs[k].st
        /\ rs[k].id = i => r2[k].st = "RCA_COMPLETE"
  BY <1>2, <1>3, ZenonT(40) DEF Row
<1> HIDE DEF r2
<1>7. Dense(r2)  BY <1>1, <1>5, <1>6 DEF Dense
<1>8. r2 \in Table  BY <1>1, <1>5, <1>7 DEF Table
<1>9. Are(r2, i, "RCA_COMPLETE")  BY <1>5, <1>6 DEF Are
<1> QED  BY <1>5, <1>6, <1>8, <1>9 DEF r2

\* create_incident: the new row is the last one and counts one failure.
LEMMA AppendedRow ==
  ASSUME NEW rs \in Table, Len(rs) < MaxRows, NEW r \in Row, r.id <= Len(rs) + 1, r.n = 1
  PROVE  /\ Append(rs, r) \in Table
         /\ Len(Append(rs, r)) = Len(rs) + 1
         /\ Append(rs, r)[Len(rs) + 1] = r
         /\ \A k \in 1 .. Len(rs) : Append(rs, r)[k] = rs[k]
<1> DEFINE r2 == Append(rs, r)
<1>1. rs \in Seq(Row) /\ Len(rs) \in Nat /\ Dense(rs)  BY DEF Table
<1>2. r2 \in Seq(Row) /\ Len(r2) = Len(rs) + 1  BY <1>1
<1>3. r2[Len(rs) + 1] = r /\ \A k \in 1 .. Len(rs) : r2[k] = rs[k]  BY <1>1
<1>4. \A k \in 1 .. Len(rs) : rs[k].id \in Nat
  <2> TAKE k \in 1 .. Len(rs)
  <2>1. rs[k] \in Row  BY <1>1
  <2> QED  BY <2>1, ConstantsAssumption DEF Row, Id
<1> HIDE DEF r2
<1>5. \A k \in 1 .. Len(r2) : k \in 1 .. Len(rs) \/ k = Len(rs) + 1  BY <1>1, <1>2
<1>6. Dense(r2)
  <2> SUFFICES ASSUME NEW k \in 1 .. Len(r2) PROVE r2[k].id <= Len(r2) /\ r2[k].n > 0
    BY DEF Dense
  <2>1. CASE k = Len(rs) + 1  BY <2>1, <1>2, <1>3
  <2>2. CASE k \in 1 .. Len(rs)
    <3>1. rs[k].id <= Len(rs) /\ rs[k].n > 0 /\ r2[k] = rs[k]  BY <2>2, <1>1, <1>3 DEF Dense
    <3> QED  BY <3>1, <2>2, <1>1, <1>2, <1>4
  <2> QED  BY <2>1, <2>2, <1>5
<1>7. r2 \in Table  BY <1>1, <1>2, <1>6, ConstantsAssumption DEF Table
<1> QED  BY <1>2, <1>3, <1>7 DEF r2

-----------------------------------------------------------------------------
(* Coroutines *)

TaskType ==
    [ at : Labels, todo : Seq(Failure), id : Id, next : StageName \union {"none"},
      act : BOOLEAN ]

\* Only the coroutine t moves.
Alone(t) == task' \in [Task -> TaskType] /\ \A u \in Task \ {t} : task'[u] = task[u]

\* It ends, or goes on with the next entry of its list.
Finished(t) ==
    /\ Alone(t)
    /\ Len(task[t].todo) <= 1 => task'[t] = Idle
    /\ Len(task[t].todo) > 1 => task'[t].at = "meta" /\ task'[t].todo = Tail(task[t].todo)

LEMMA IdleTyped == Idle \in TaskType
  BY ConstantsAssumption DEF Idle, TaskType, Labels, Id

LEMMA FinishStep ==
  ASSUME task \in [Task -> TaskType], NEW t \in Task, Finish(t)
  PROVE  Finished(t)
<1>1. task[t] \in TaskType /\ task[t].todo \in Seq(Failure)  BY DEF TaskType
<1>2. CASE Len(task[t].todo) <= 1
  <2>1. task' = [task EXCEPT ![t] = Idle]  BY <1>2 DEF Finish
  <2> QED  BY <2>1, <1>2, <1>1, IdleTyped DEF Finished, Alone
<1>3. CASE Len(task[t].todo) > 1
  <2> DEFINE a == [Idle EXCEPT !.at = "meta", !.todo = Tail(task[t].todo)]
             b == [[Idle EXCEPT !.at = "meta"] EXCEPT !.todo = Tail(task[t].todo)]
  <2>1. Len(task[t].todo) \in Nat  BY <1>1
  <2>2. task' = [task EXCEPT ![t] = a]
    <3>1. task' = [task EXCEPT ![t] = IF Len(task[t].todo) <= 1 THEN Idle ELSE a]
      BY Zenon DEF Finish
    <3> HIDE DEF a
    <3>2. (IF Len(task[t].todo) <= 1 THEN Idle ELSE a) = a  BY <2>1, <1>3
    <3> QED  BY <3>1, <3>2, Zenon
  <2>3. a = b
    <3>1. \A r \in TaskType, s \in Seq(Failure) :
            [r EXCEPT !.at = "meta", !.todo = s] = [[r EXCEPT !.at = "meta"] EXCEPT !.todo = s]
      BY SMT DEF TaskType
    <3>2. Tail(task[t].todo) \in Seq(Failure)  BY <1>1, <1>3
    <3> QED  BY <3>1, <3>2, IdleTyped
  <2>4. [Idle EXCEPT !.at = "meta"] \in TaskType  BY IdleTyped DEF TaskType, Labels
  <2>5. Tail(task[t].todo) \in Seq(Failure)  BY <1>1, <1>3
  <2>6. b \in TaskType /\ b.at = "meta" /\ b.todo = Tail(task[t].todo)  BY <2>4, <2>5 DEF TaskType
  <2> HIDE DEF a, b
  <2> QED  BY <2>1, <2>2, <2>3, <2>6, <1>3 DEF Finished, Alone
<1> QED  BY <1>1, <1>2, <1>3

\* The coroutine t goes on, for incident i, under another label.
LEMMA AtStep ==
  ASSUME task \in [Task -> TaskType], NEW t \in Task, NEW label \in Labels, NEW i \in Id,
         At(t, label, i)
  PROVE  /\ Alone(t)
         /\ task'[t].at = label /\ task'[t].id = i
         /\ task'[t].todo = task[t].todo
<1> DEFINE a == [[task[t] EXCEPT !.at = label] EXCEPT !.id = i]
<1>1. task' = [task EXCEPT ![t] = a]  BY DEF At, TaskType
<1>2. [task[t] EXCEPT !.at = label] \in TaskType  BY DEF TaskType
<1>3. a \in TaskType /\ a.at = label /\ a.id = i /\ a.todo = task[t].todo  BY <1>2 DEF TaskType
<1> HIDE DEF a
<1> QED  BY <1>1, <1>3 DEF Alone

-----------------------------------------------------------------------------
(* What handing on does *)

\* The coroutine t goes on with incident i.
Moves(t, i) == Alone(t) /\ task'[t].id = i /\ task'[t].todo = task[t].todo

\* Some row numbered i has an actionable diagnosis.
Actionable(rs, i) == \E k \in 1 .. Len(rs) : rs[k].id = i /\ rs[k].act

Decided(t, rs, i, act) ==
    \/ Moves(t, i) /\ task'[t].at = "fixticket" /\ rows' = rs
    \/ Moves(t, i) /\ task'[t].at = "fix" /\ act /\ Are(rows', i, "FIX_IN_PROGRESS")
    \/ Finished(t) /\ Are(rows', i, "AWAITING_APPROVAL")

\* The table rs is left as rows' by the first segment of a stage or by a publish; a stage that
\* does not find its incident strands it.
Entered(t, rs, stage, i) ==
    /\ rows' \in Table /\ Restated(rs, rows', i)
    /\ \/ /\ Moves(t, i)
          /\ \/ task'[t].at = "publish" /\ task'[t].next = stage /\ rows' = rs
             \/ stage = "observer" /\ task'[t].at = "observe" /\ Are(rows', i, "OBSERVED")
             \/ stage = "rca" /\ task'[t].at = "rca" /\ Are(rows', i, "RCA_IN_PROGRESS")
             \/ /\ stage = "fixer" /\ task'[t].at = "replay" /\ rows' = rs
                /\ task'[t].act => Actionable(rs, i)
             \/ stage = "verifier" /\ task'[t].at = "verify" /\ rows' = rs
       \/ stage = "fixer" /\ Decided(t, rs, i, Actionable(rs, i))
       \/ Blind /\ Finished(t) /\ rows' = rs /\ i \in stranded'

\* A table is its own restatement.
LEMMA Unchanged ==
  ASSUME NEW rs, NEW i PROVE Restated(rs, rs, i)
  BY DEF Restated

LEMMA DecideStep ==
  ASSUME task \in [Task -> TaskType], NEW t \in Task, NEW rs \in Table, NEW i \in Id,
         NEW act \in BOOLEAN, Decide(t, rs, i, act)
  PROVE  rows' \in Table /\ Restated(rs, rows', i) /\ Decided(t, rs, i, act)
<1>1. CASE At(t, "fixticket", i) /\ rows' = rs
  BY <1>1, AtStep, Unchanged DEF Labels, Decided, Moves
<1>2. CASE Finish(t) /\ rows' = SetStatus(rs, i, "AWAITING_APPROVAL")
  BY <1>2, FinishStep, SetStatusRows DEF Decided, PipelineStatus
<1>3. CASE act /\ At(t, "fix", i) /\ rows' = SetStatus(rs, i, "FIX_IN_PROGRESS")
  BY <1>3, AtStep, SetStatusRows DEF Labels, Decided, Moves, PipelineStatus, InProgress
<1> QED  BY <1>1, <1>2, <1>3 DEF Decide

LEMMA EnterStep ==
  ASSUME task \in [Task -> TaskType], NEW t \in Task, NEW rs \in Table, NEW i \in Id,
         NEW stage, Enter(t, rs, stage, i)
  PROVE  Entered(t, rs, stage, i)
<1>1. CASE stage = "observer" /\ EnterObserver(t, rs, i)
  <2>1. At(t, "observe", i) /\ rows' = SetStatus(rs, i, "OBSERVED")  BY <1>1 DEF EnterObserver
  <2> QED  BY <1>1, <2>1, AtStep, SetStatusRows DEF Labels, Entered, Moves, PipelineStatus
<1>2. CASE stage = "rca" /\ EnterRca(t, rs, i)
  <2>1. At(t, "rca", i) /\ rows' = SetStatus(rs, i, "RCA_IN_PROGRESS")  BY <1>2 DEF EnterRca
  <2> QED
    BY <1>2, <2>1, AtStep, SetStatusRows DEF Labels, Entered, Moves, PipelineStatus, InProgress
<1>3. CASE stage = "fixer" /\ EnterFixer(t, rs, i)
  <2>1. rs \in Seq(Row) /\ DOMAIN rs = 1 .. Len(rs)  BY DEF Table
  <2>2. PICK k \in 1 .. Len(rs) :
          /\ rs[k].id = i
          /\ \/ /\ rows' = rs
                /\ task' = [task EXCEPT ![t].at = "replay", ![t].id = i, ![t].act = rs[k].act]
             \/ Decide(t, rs, i, rs[k].act)
    BY <1>3, <2>1 DEF EnterFixer
  <2>3. rs[k] \in Row /\ rs[k].act \in BOOLEAN
    <3>1. rs[k] \in Row  BY <2>1
    <3> QED  BY <3>1 DEF Row
  <2>4. rs[k].act => Actionable(rs, i)  BY <2>2 DEF Actionable
  <2>5. CASE Decide(t, rs, i, rs[k].act)
    <3>1. rows' \in Table /\ Restated(rs, rows', i) /\ Decided(t, rs, i, rs[k].act)
      BY <2>3, <2>5, DecideStep
    <3>2. Decided(t, rs, i, Actionable(rs, i))  BY <2>4, <3>1 DEF Decided
    <3> QED  BY <1>3, <3>1, <3>2 DEF Entered
  <2>6. CASE /\ rows' = rs
             /\ task' = [task EXCEPT ![t].at = "replay", ![t].id = i, ![t].act = rs[k].act]
    <3> DEFINE a == [[[task[t] EXCEPT !.at = "replay"] EXCEPT !.id = i] EXCEPT !.act = rs[k].act]
    <3>1. task' = [task EXCEPT ![t] = a]  BY <2>6 DEF TaskType
    <3>2. [task[t] EXCEPT !.at = "replay"] \in TaskType  BY DEF TaskType, Labels
    <3>3. [[task[t] EXCEPT !.at = "replay"] EXCEPT !.id = i] \in TaskType  BY <3>2 DEF TaskType
    <3>4. /\ a \in TaskType /\ a.at = "replay" /\ a.id = i
          /\ a.todo = task[t].todo /\ a.act = rs[k].act
      BY <2>3, <3>3 DEF TaskType
    <3> HIDE DEF a
    <3>5. Moves(t, i) /\ task'[t].at = "replay" /\ task'[t].act = rs[k].act
      BY <3>1, <3>4 DEF Moves, Alone
    <3> QED  BY <1>3, <2>4, <2>6, <3>5, Unchanged DEF Entered
  <2> QED  BY <2>2, <2>5, <2>6
<1>4. CASE stage = "verifier" /\ EnterVerifier(t, rs, i)
  BY <1>4, AtStep, Unchanged DEF EnterVerifier, Labels, Entered, Moves
<1> QED  BY <1>1, <1>2, <1>3, <1>4 DEF Enter

LEMMA ForwardStep ==
  ASSUME task \in [Task -> TaskType], NEW t \in Task, NEW rs \in Table, NEW i \in Id,
         NEW stage \in StageName, Forward(t, rs, stage, i)
  PROVE  Entered(t, rs, stage, i)
<1>1. CASE cfg.mesh
  <2>1. rows' = rs /\ task' = [task EXCEPT ![t].at = "publish", ![t].id = i, ![t].next = stage]
    BY <1>1 DEF Forward
  <2> DEFINE a == [[[task[t] EXCEPT !.at = "publish"] EXCEPT !.id = i] EXCEPT !.next = stage]
  <2>2. task' = [task EXCEPT ![t] = a]  BY <2>1 DEF TaskType
  <2>3. [task[t] EXCEPT !.at = "publish"] \in TaskType  BY DEF TaskType, Labels
  <2>4. [[task[t] EXCEPT !.at = "publish"] EXCEPT !.id = i] \in TaskType  BY <2>3 DEF TaskType
  <2>5. /\ a \in TaskType /\ a.at = "publish" /\ a.id = i
        /\ a.todo = task[t].todo /\ a.next = stage
    BY <2>4 DEF TaskType
  <2> HIDE DEF a
  <2>6. Moves(t, i) /\ task'[t].at = "publish" /\ task'[t].next = stage
    BY <2>2, <2>5 DEF Moves, Alone
  <2> QED  BY <2>1, <2>6, Unchanged DEF Entered
<1>2. CASE ~cfg.mesh
  BY <1>2, EnterStep DEF Forward
<1> QED  BY <1>1, <1>2

LEMMA NotFoundStep ==
  ASSUME task \in [Task -> TaskType], NEW t \in Task, NEW rs \in Table, NEW i \in Id,
         NEW kept, NEW stage, NotFound(t, rs, kept, i)
  PROVE  Entered(t, rs, stage, i) /\ stranded' = kept \union {i}
<1>1. Blind /\ rows' = rs /\ Finish(t) /\ stranded' = kept \union {i}  BY DEF NotFound
<1>2. Finished(t)  BY <1>1, FinishStep
<1> QED  BY <1>1, <1>2, Unchanged DEF Entered

LEMMA HandOnStep ==
  ASSUME task \in [Task -> TaskType], NEW t \in Task, NEW rs \in Table, NEW i \in Id,
         NEW kept, NEW stage \in StageName, HandOn(t, rs, kept, stage, i)
  PROVE  Entered(t, rs, stage, i) /\ kept \subseteq stranded' /\ stranded' \subseteq kept \union {i}
<1>1. CASE Forward(t, rs, stage, i) /\ stranded' = kept
  BY <1>1, ForwardStep
<1>2. CASE NotFound(t, rs, kept, i)
  <2>1. Entered(t, rs, stage, i) /\ stranded' = kept \union {i}  BY <1>2, NotFoundStep, Zenon
  <2> QED  BY <2>1
<1> QED  BY <1>1, <1>2 DEF HandOn

LEMMA BeginStep ==
  ASSUME task \in [Task -> TaskType], NEW t \in Task, rows \in Table, task[t].id \in Id, Begin(t)
  PROVE  /\ Entered(t, rows, task[t].next, task[t].id)
         /\ stranded \subseteq stranded' /\ stranded' \subseteq stranded \union { task[t].id }
<1>1. CASE Enter(t, rows, task[t].next, task[t].id) /\ UNCHANGED stranded
  BY <1>1, EnterStep
<1>2. CASE NotFound(t, rows, stranded, task[t].id)
  <2>1. /\ Blind /\ rows' = rows /\ Finish(t) /\ stranded' = stranded \union { task[t].id }
    BY <1>2 DEF NotFound
  <2>2. Finished(t) /\ Restated(rows, rows', task[t].id)
    BY <2>1, FinishStep, Unchanged DEF Restated
  <2> QED  BY <2>1, <2>2 DEF Entered
<1> QED  BY <1>1, <1>2 DEF Begin

-----------------------------------------------------------------------------
(* Types, and the shape of a coroutine in each of its phases *)

Holds(rs, i) == \E k \in 1 .. Len(rs) : rs[k].id = i

\* A coroutine at rest has no list; one that looks at a failure has it at the head of its list;
\* the webhook /agents/orchestrator gives it one failure only.  A number taken for a row that
\* is still to be inserted is at most one more than there are rows, and every incident worked
\* on is in the table.
Shape(t) ==
    /\ task[t].at = "idle" => task[t] = Idle
    /\ task[t].at \in { "classify", "meta", "lookup" } => task[t].todo # << >>
    /\ task[t].at \in { "classify", "ticket" } => Len(task[t].todo) = 1
    /\ task[t].at = "lookup" => task[t].id \in 1 .. Len(rows) + 1
    /\ task[t].at \in { "publish", "accepted" } => task[t].next # "none"
    /\ task[t].at = "breaker" => Holds(rows, task[t].id)
    /\ \A i \in Carried(t) : Holds(rows, i)

HistoryTyped ==
    /\ recorded \in Nat
    /\ heard \subseteq Failure /\ dropped \subseteq Failure /\ uncounted \subseteq Failure
    /\ stranded \subseteq Id /\ diagnosed \subseteq Id /\ fixed \subseteq Id /\ tested \subseteq Id

Typed ==
    /\ cfg \in Configs /\ inbox \subseteq Event /\ dups \in 0 .. cfg.spare
    /\ rows \in Table
    /\ queue \in [Message -> 0 .. MaxCopies]
    /\ task \in [Task -> TaskType]
    /\ HistoryTyped
    /\ \A t \in Task : Shape(t)
    /\ \A m \in Message : queue[m] > 0 => Holds(rows, m[2])

LEMMA TypedImpliesTypeOK ==
  ASSUME Typed PROVE TypeOK
  BY DEF Typed, TypeOK, Table, TaskType, HistoryTyped

LEMMA InitTyped ==
  ASSUME Init PROVE Typed
<1>1. rows = << >> /\ rows \in Table
  BY ConstantsAssumption DEF Init, Table, Dense
<1>2. cfg \in Configs /\ cfg.spare \in Nat /\ cfg.sends \subseteq Event
  BY ConstantsAssumption DEF Init, ConfigType
<1>3. task \in [Task -> TaskType] /\ \A t \in Task : task[t] = Idle
  BY IdleTyped DEF Init
<1>4. \A t \in Task : Shape(t)
  BY <1>3 DEF Shape, Idle, Carried
<1>5. queue \in [Message -> 0 .. MaxCopies] /\ \A m \in Message : ~(queue[m] > 0)
  BY ConstantsAssumption DEF Init
<1>6. HistoryTyped  BY DEF Init, HistoryTyped
<1> QED  BY <1>1, <1>2, <1>3, <1>4, <1>5, <1>6 DEF Init, Typed

\* The shape of the coroutines that do not move.
LEMMA OthersShape ==
  ASSUME Typed, NEW t \in Task, Alone(t), rows' \in Table, Grows(rows, rows'),
         NEW u \in Task \ {t}
  PROVE  Shape(u)'
<1>1. task'[u] = task[u] /\ Shape(u)  BY DEF Alone, Typed
<1>2. Len(rows) \in Nat /\ Len(rows') \in Nat /\ Len(rows) <= Len(rows')
  BY DEF Typed, Table, Grows
<1>3. \A i : Holds(rows, i) => Holds(rows', i)
  BY <1>2 DEF Holds, Grows
<1>4. Carried(u)' = Carried(u)  BY <1>1 DEF Carried
<1>5. Len(rows) + 1 <= Len(rows') + 1  BY <1>2
<1> QED  BY <1>1, <1>2, <1>3, <1>4, <1>5 DEF Shape

\* What has to be shown of a step of the coroutine t.
LEMMA TypedStep ==
  ASSUME Typed, NEW t \in Task, Alone(t), Shape(t)', rows' \in Table, Grows(rows, rows'),
         queue' \in [Message -> 0 .. MaxCopies],
         \A m \in Message : queue'[m] > 0 => queue[m] > 0 \/ Holds(rows', m[2]),
         cfg' = cfg, inbox' \subseteq Event, dups' \in 0 .. cfg.spare, HistoryTyped'
  PROVE  Typed'
<1>1. \A u \in Task : Shape(u)'  BY OthersShape
<1>2. Len(rows) \in Nat /\ Len(rows') \in Nat /\ Len(rows) <= Len(rows')
  BY DEF Typed, Table, Grows
<1>3. \A i : Holds(rows, i) => Holds(rows', i)
  BY <1>2 DEF Holds, Grows
<1>4. \A m \in Message : queue'[m] > 0 => Holds(rows', m[2])
  BY <1>3 DEF Typed
<1> QED  BY <1>1, <1>4 DEF Typed, Alone, Holds

\* The shape of a coroutine that has finished an incident.
LEMMA FinishedShape ==
  ASSUME NEW t \in Task, task \in [Task -> TaskType], Finished(t)
  PROVE  Shape(t)' /\ Carried(t)' = {}
<1>1. task[t].todo \in Seq(Failure) /\ Len(task[t].todo) \in Nat  BY DEF TaskType
<1>2. CASE Len(task[t].todo) <= 1
  BY <1>2 DEF Finished, Shape, Carried, Idle
<1>3. CASE Len(task[t].todo) > 1
  <2>1. task[t].todo # << >>  BY <1>1, <1>3, EmptySeq
  <2>2. Tail(task[t].todo) # << >>  BY <2>1, <1>1, <1>3, ListParts
  <2> QED  BY <2>2, <1>3 DEF Finished, Shape, Carried
<1> QED  BY <1>1, <1>2, <1>3

\* The shape of a coroutine that has handed an incident on, and the table it leaves.
LEMMA EnteredShape ==
  ASSUME NEW t \in Task, task \in [Task -> TaskType], NEW rs \in Table,
         NEW stage \in StageName, NEW i \in Id, Holds(rs, i), Entered(t, rs, stage, i)
  PROVE  Alone(t) /\ Shape(t)' /\ rows' \in Table /\ Grows(rs, rows')
<1>1. rows' \in Table /\ Grows(rs, rows') /\ Holds(rows', i)
  BY DEF Entered, Restated, Grows, Holds, Table
<1>2. CASE Finished(t)
  BY <1>1, <1>2, FinishedShape DEF Finished
<1>3. CASE Moves(t, i) /\ task'[t].at \in { "observe", "rca", "replay", "verify", "fixticket", "fix" }
  BY <1>1, <1>3 DEF Moves, Shape, Carried
<1>4. CASE Moves(t, i) /\ task'[t].at = "publish" /\ task'[t].next = stage
  BY <1>1, <1>4 DEF Moves, Shape, Carried, StageName
<1> QED  BY <1>1, <1>2, <1>3, <1>4 DEF Entered, Decided, Moves

\* The incident of a coroutine at work.
LEMMA CarriedId ==
  ASSUME Typed, NEW t \in Task, task[t].at \notin { "idle", "classify", "meta", "lookup" }
  PROVE  task[t].id \in Id \ {0} /\ Holds(rows, task[t].id)
<1>1. Holds(rows, task[t].id)  BY DEF Typed, Shape, Carried
<1>2. rows \in Seq(Row)  BY DEF Typed, Table
<1>3. PICK k \in 1 .. Len(rows) : rows[k].id = task[t].id  BY <1>1 DEF Holds
<1>4. rows[k] \in Row  BY <1>2
<1>5. rows[k].id \in Id \ {0}  BY <1>4 DEF Row
<1> QED  BY <1>1, <1>3, <1>5

\* Accept adds at most one copy of one message.
LEMMA AcceptStep ==
  ASSUME queue \in [Message -> 0 .. MaxCopies], NEW stage \in StageName, NEW i \in Id \ {0},
         Accept(stage, i)
  PROVE  /\ queue' \in [Message -> 0 .. MaxCopies]
         /\ queue'[<< stage, i >>] > 0
         /\ queue[<< stage, i >>] = 0 => queue'[<< stage, i >>] = 1
         /\ \A m \in Message : m # << stage, i >> => queue'[m] = queue[m]
         /\ \A m \in Message : queue'[m] > 0 => queue[m] > 0 \/ m[2] = i
<1> DEFINE m == << stage, i >>
<1>1. m \in Message  BY DEF Message
<1>2. queue[m] \in 0 .. MaxCopies /\ MaxCopies \in Nat \ {0}  BY <1>1, ConstantsAssumption
<1>3. queue' = [queue EXCEPT ![m] = IF queue[m] < MaxCopies THEN queue[m] + 1 ELSE queue[m]]
  BY DEF Accept
<1> HIDE DEF m
<1>4. queue'[m] = IF queue[m] < MaxCopies THEN queue[m] + 1 ELSE queue[m]  BY <1>1, <1>3
<1>5. queue'[m] \in 0 .. MaxCopies /\ queue'[m] > 0  BY <1>2, <1>4
<1>6. queue[m] = 0 => queue'[m] = 1  BY <1>2, <1>4
<1>7. \A n \in Message : n # m => queue'[n] = queue[n]  BY <1>3
<1>8. queue' \in [Message -> 0 .. MaxCopies]  BY <1>3, <1>5, <1>1
<1>9. m[2] = i  BY DEF m
<1>10. \A n \in Message : queue'[n] > 0 => queue[n] > 0 \/ n[2] = i  BY <1>7, <1>9
<1> QED  BY <1>5, <1>6, <1>7, <1>8, <1>10 DEF m

-----------------------------------------------------------------------------
(* What each segment of a stage does *)

\* Statuses of incidents no stage has to take further.
Resting == PipelineStatus \ Moving

\* The outcome of a fix becomes a status at rest, a final one if the fix succeeded.
LEMMA FixStatuses ==
  /\ \A o \in FixSuccess : PostFixStatus(o, FALSE, "none") \in Resting \intersect Terminal
  /\ \A o \in FixOutcome : PostFixStatus(o, FALSE, "none") \in Resting
  BY DEF FixSuccess, FixOutcome, PostFixStatus, Resting, PipelineStatus, Terminal, FixFailed,
         Moving, InProgress, UpdateStage

\* A table with other statuses in the rows numbered i only holds the same numbers.
LEMMA RestatedGrows ==
  ASSUME NEW rs \in Table, NEW r2, NEW i, Restated(rs, r2, i)
  PROVE  Grows(rs, r2) /\ \A j : Holds(r2, j) <=> Holds(rs, j)
  BY DEF Restated, Grows, Holds, Table

\* An unchanged table holds what it held.
LEMMA SameGrows ==
  ASSUME NEW rs \in Table
  PROVE  Grows(rs, rs)
  BY DEF Grows, Table

\* What the coroutine t and its incident i are left with at the end of a stage: the status st
\* at rest, or nothing when the update of the row fails and the incident is stranded.
EndedAt(t, i) ==
    /\ Finished(t) /\ rows' \in Table /\ Restated(rows, rows', i)
    /\ \/ \E st \in Resting : Are(rows', i, st)
       \/ rows' = rows /\ i \in stranded'

LEMMA FinishedTyped ==
  ASSUME Typed, NEW t \in Task, Finished(t), rows' \in Table, Grows(rows, rows'),
         UNCHANGED << cfg, inbox, dups, queue >>, HistoryTyped'
  PROVE  Typed'
<1>1. Shape(t)' /\ Alone(t)  BY FinishedShape DEF Typed, Finished
<1> QED  BY <1>1, TypedStep DEF Typed

LEMMA PublishOkDoes ==
  ASSUME Typed, NEW t \in Task, PublishOk(t)
  PROVE  /\ Typed' /\ Finished(t) /\ rows' = rows
         /\ task[t].next \in StageName /\ task[t].id \in Id \ {0}
         /\ Accept(task[t].next, task[t].id)
<1>1. task[t].at = "publish" /\ task[t].next \in StageName /\ task \in [Task -> TaskType]
  BY DEF PublishOk, Typed, Shape, TaskType
<1>2. task[t].id \in Id \ {0} /\ Holds(rows, task[t].id)  BY <1>1, CarriedId
<1>3. Finished(t)  BY <1>1, FinishStep DEF PublishOk
<1>4. Accept(task[t].next, task[t].id) /\ rows' = rows /\ HistoryTyped'
  BY DEF PublishOk, history, Typed, HistoryTyped
<1>5. queue' \in [Message -> 0 .. MaxCopies] /\ Grows(rows, rows')
  BY <1>1, <1>2, <1>4, AcceptStep, SameGrows DEF Typed
<1>6. \A m \in Message : queue'[m] > 0 => queue[m] > 0 \/ Holds(rows', m[2])
  <2>1. \A m \in Message : queue'[m] > 0 => queue[m] > 0 \/ m[2] = task[t].id
    BY <1>1, <1>2, <1>4, AcceptStep DEF Typed
  <2>2. Holds(rows', task[t].id)  BY <1>2, <1>4 DEF Holds
  <2> QED  BY <2>1, <2>2
<1>7. Shape(t)' /\ Alone(t)  BY <1>1, <1>3, FinishedShape DEF Finished
<1>8. Typed'  BY <1>4, <1>5, <1>6, <1>7, TypedStep DEF PublishOk, Typed
<1> QED  BY <1>1, <1>2, <1>3, <1>4, <1>8

LEMMA EnteredTyped ==
  ASSUME Typed, NEW t \in Task, NEW rs \in Table, Grows(rows, rs), NEW stage \in StageName,
         NEW i \in Id, Holds(rs, i), Entered(t, rs, stage, i),
         queue' \in [Message -> 0 .. MaxCopies],
         \A m \in Message : queue'[m] > 0 => queue[m] > 0 \/ Holds(rs, m[2]),
         UNCHANGED << cfg, inbox >>, dups' \in 0 .. cfg.spare, HistoryTyped'
  PROVE  Typed'
<1>1. Alone(t) /\ Shape(t)' /\ rows' \in Table /\ Grows(rs, rows')
  BY EnteredShape DEF Typed
<1>2. Grows(rows, rows')
  BY <1>1 DEF Grows, Typed, Table
<1>3. \A j : Holds(rs, j) => Holds(rows', j)
  BY <1>1 DEF Holds, Grows, Table
<1> QED  BY <1>1, <1>2, <1>3, TypedStep DEF Typed

LEMMA StartStageDoes ==
  ASSUME Typed, NEW t \in Task, StartStage(t)
  PROVE  /\ Typed' /\ task[t].next \in StageName /\ task[t].id \in Id \ {0}
         /\ Entered(t, rows, task[t].next, task[t].id) /\ stranded \subseteq stranded'
<1>1. task[t].at = "accepted" /\ task[t].next \in StageName /\ task \in [Task -> TaskType]
  BY DEF StartStage, Typed, Shape, TaskType
<1>2. task[t].id \in Id \ {0} /\ Holds(rows, task[t].id)  BY <1>1, CarriedId
<1>3. /\ Entered(t, rows, task[t].next, task[t].id)
      /\ stranded \subseteq stranded' /\ stranded' \subseteq stranded \union { task[t].id }
  BY <1>1, <1>2, BeginStep DEF StartStage, Typed
<1>4. HistoryTyped'  BY <1>2, <1>3 DEF StartStage, Typed, HistoryTyped
<1>5. Typed'  BY <1>1, <1>2, <1>3, <1>4, EnteredTyped, SameGrows DEF StartStage, Typed
<1> QED  BY <1>1, <1>2, <1>3, <1>5

LEMMA PublishFailsDoes ==
  ASSUME Typed, NEW t \in Task, PublishFails(t)
  PROVE  /\ Typed' /\ task[t].next \in StageName /\ task[t].id \in Id \ {0}
         /\ Entered(t, rows, task[t].next, task[t].id) /\ stranded \subseteq stranded'
         /\ \/ UNCHANGED << dups, queue >>
            \/ dups' = dups - 1 /\ Accept(task[t].next, task[t].id)
<1>1. task[t].at = "publish" /\ task[t].next \in StageName /\ task \in [Task -> TaskType]
  BY DEF PublishFails, Typed, Shape, TaskType
<1>2. task[t].id \in Id \ {0} /\ Holds(rows, task[t].id)  BY <1>1, CarriedId
<1>3. /\ Entered(t, rows, task[t].next, task[t].id)
      /\ stranded \subseteq stranded' /\ stranded' \subseteq stranded \union { task[t].id }
  BY <1>1, <1>2, BeginStep DEF PublishFails, Typed
<1>4. HistoryTyped'  BY <1>2, <1>3 DEF PublishFails, Typed, HistoryTyped
<1>5. cfg.spare \in Nat  BY ConstantsAssumption DEF Typed, ConfigType
<1>6. \/ UNCHANGED << dups, queue >>
      \/ dups > 0 /\ dups' = dups - 1 /\ Accept(task[t].next, task[t].id)
  BY DEF PublishFails
<1>7. dups' \in 0 .. cfg.spare  BY <1>5, <1>6 DEF Typed
<1>8. /\ queue' \in [Message -> 0 .. MaxCopies]
      /\ \A m \in Message : queue'[m] > 0 => queue[m] > 0 \/ Holds(rows, m[2])
  <2>1. CASE UNCHANGED << dups, queue >>
    BY <2>1 DEF Typed
  <2>2. CASE Accept(task[t].next, task[t].id)
    <3>1. queue' \in [Message -> 0 .. MaxCopies]  BY <1>1, <1>2, <2>2, AcceptStep DEF Typed
    <3>2. \A m \in Message : queue'[m] > 0 => queue[m] > 0 \/ m[2] = task[t].id
      BY <1>1, <1>2, <2>2, AcceptStep DEF Typed
    <3> QED  BY <1>2, <3>1, <3>2
  <2> QED  BY <1>6, <2>1, <2>2
<1>9. Typed'
  BY <1>1, <1>2, <1>3, <1>4, <1>7, <1>8, EnteredTyped, SameGrows DEF PublishFails, Typed
<1> QED  BY <1>1, <1>2, <1>3, <1>6, <1>9

LEMMA ObserverDoneDoes ==
  ASSUME Typed, NEW t \in Task, ObserverDone(t)
  PROVE  /\ Typed' /\ task[t].id \in Id \ {0} /\ stranded \subseteq stranded'
         /\ \E rs \in Table :
              /\ Len(rs) = Len(rows)
              /\ \A k \in 1 .. Len(rows) :
                   /\ rs[k].id = rows[k].id /\ rs[k].act = rows[k].act
                   /\ rs[k].st = rows[k].st /\ rs[k].n = rows[k].n
              /\ ~cfg.retype => rs = rows
              /\ Entered(t, rs, "rca", task[t].id)
<1>1. task[t].at = "observe" /\ task \in [Task -> TaskType] /\ rows \in Table
  BY DEF ObserverDone, Typed
<1>2. task[t].id \in Id \ {0} /\ Holds(rows, task[t].id)  BY <1>1, CarriedId
<1>3. PICK rs \in SameOrRetyped(task[t].id) : HandOn(t, rs, stranded, "rca", task[t].id)
  BY DEF ObserverDone
<1>4. rs = rows \/ (cfg.retype /\ \E s \in Sig : rs = Retyped(rows, task[t].id, s))
  BY <1>3 DEF SameOrRetyped
<1>5. /\ rs \in Table /\ Len(rs) = Len(rows)
      /\ \A k \in 1 .. Len(rows) :
           /\ rs[k].id = rows[k].id /\ rs[k].act = rows[k].act
           /\ rs[k].st = rows[k].st /\ rs[k].n = rows[k].n
      /\ ~cfg.retype => rs = rows
  BY <1>1, <1>4, RetypedRows
<1>6. Grows(rows, rs) /\ Holds(rs, task[t].id)
  BY <1>1, <1>2, <1>5 DEF Grows, Holds, Table
<1>7. /\ Entered(t, rs, "rca", task[t].id)
      /\ stranded \subseteq stranded' /\ stranded' \subseteq stranded \union { task[t].id }
  BY <1>1, <1>2, <1>3, <1>5, HandOnStep DEF StageName
<1>8. HistoryTyped'  BY <1>2, <1>7 DEF ObserverDone, Typed, HistoryTyped
<1>9. Typed'
  BY <1>2, <1>5, <1>6, <1>7, <1>8, EnteredTyped DEF ObserverDone, Typed, StageName
<1> QED  BY <1>2, <1>5, <1>7, <1>9

LEMMA RcaDoneDoes ==
  ASSUME Typed, NEW t \in Task, RcaDone(t)
  PROVE  /\ Typed' /\ task[t].id \in Id \ {0} /\ stranded \subseteq stranded'
         /\ \E rs \in Table :
              /\ Len(rs) = Len(rows)
              /\ \A k \in 1 .. Len(rows) :
                   /\ rs[k].id = rows[k].id /\ rs[k].n = rows[k].n
                   /\ rs[k].id # task[t].id => rs[k].act = rows[k].act /\ rs[k].st = rows[k].st
                   /\ ~cfg.retype => rs[k].sig = rows[k].sig /\ rs[k].group = rows[k].group
              /\ Are(rs, task[t].id, "RCA_COMPLETE")
              /\ Entered(t, rs, "fixer", task[t].id)
<1>1. task[t].at = "rca" /\ task \in [Task -> TaskType] /\ rows \in Table
  BY DEF RcaDone, Typed
<1>2. task[t].id \in Id \ {0} /\ Holds(rows, task[t].id)  BY <1>1, CarriedId
<1>3. PICK r1 \in SameOrRetyped(task[t].id), act \in BOOLEAN :
        HandOn(t, Diagnose(r1, task[t].id, act), stranded, "fixer", task[t].id)
  BY DEF RcaDone
<1>4. r1 = rows \/ (cfg.retype /\ \E s \in Sig : r1 = Retyped(rows, task[t].id, s))
  BY <1>3 DEF SameOrRetyped
<1>5. /\ r1 \in Table /\ Len(r1) = Len(rows)
      /\ \A k \in 1 .. Len(rows) :
           /\ r1[k].id = rows[k].id /\ r1[k].act = rows[k].act
           /\ r1[k].st = rows[k].st /\ r1[k].n = rows[k].n
      /\ ~cfg.retype => r1 = rows
  BY <1>1, <1>4, RetypedRows
<1> DEFINE rs == Diagnose(r1, task[t].id, act)
<1>6. /\ rs \in Table /\ Len(rs) = Len(r1) /\ Are(rs, task[t].id, "RCA_COMPLETE")
      /\ \A k \in 1 .. Len(r1) :
           /\ rs[k].id = r1[k].id /\ rs[k].n = r1[k].n /\ rs[k].sig = r1[k].sig
           /\ rs[k].group = r1[k].group
           /\ r1[k].id # task[t].id => rs[k].act = r1[k].act /\ rs[k].st = r1[k].st
  BY <1>5, DiagnosedRows
<1>7. HandOn(t, rs, stranded, "fixer", task[t].id)  BY <1>3
<1> HIDE DEF rs
<1>8. Grows(rows, rs) /\ Holds(rs, task[t].id)
  BY <1>1, <1>2, <1>5, <1>6 DEF Grows, Holds, Table
<1>9. /\ Entered(t, rs, "fixer", task[t].id)
      /\ stranded \subseteq stranded' /\ stranded' \subseteq stranded \union { task[t].id }
  BY <1>1, <1>2, <1>6, <1>7, HandOnStep DEF StageName
<1>10. HistoryTyped'  BY <1>2, <1>9 DEF RcaDone, Typed, HistoryTyped
<1>11. Typed'
  BY <1>2, <1>6, <1>8, <1>9, <1>10, EnteredTyped DEF RcaDone, Typed, StageName
<1> QED  BY <1>2, <1>5, <1>6, <1>9, <1>11

LEMMA FixSucceededDoes ==
  ASSUME Typed, NEW t \in Task, FixSucceeded(t)
  PROVE  /\ Typed' /\ task[t].id \in Id \ {0} /\ stranded \subseteq stranded'
         /\ \E rs \in Table, st \in Resting \intersect Terminal :
              /\ Restated(rows, rs, task[t].id) /\ Are(rs, task[t].id, st)
              /\ Entered(t, rs, "verifier", task[t].id)
<1>1. task[t].at = "fix" /\ task \in [Task -> TaskType] /\ rows \in Table
  BY DEF FixSucceeded, Typed
<1>2. task[t].id \in Id \ {0} /\ Holds(rows, task[t].id)  BY <1>1, CarriedId
<1>3. PICK o \in FixSuccess :
        HandOn(t, SetStatus(rows, task[t].id, PostFixStatus(o, FALSE, "none")), stranded,
               "verifier", task[t].id)
  BY DEF FixSucceeded
<1> DEFINE st == PostFixStatus(o, FALSE, "none")
           rs == SetStatus(rows, task[t].id, st)
<1>4. st \in Resting \intersect Terminal /\ st \in PipelineStatus  BY FixStatuses DEF Resting
<1> HIDE DEF st
<1>5. rs \in Table /\ Restated(rows, rs, task[t].id) /\ Are(rs, task[t].id, st)
  BY <1>1, <1>4, SetStatusRows
<1>6. HandOn(t, rs, stranded, "verifier", task[t].id)  BY <1>3 DEF st
<1> HIDE DEF rs
<1>7. Grows(rows, rs) /\ Holds(rs, task[t].id)  BY <1>1, <1>2, <1>5, RestatedGrows
<1>8. /\ Entered(t, rs, "verifier", task[t].id)
      /\ stranded \subseteq stranded' /\ stranded' \subseteq stranded \union { task[t].id }
  BY <1>1, <1>2, <1>5, <1>6, HandOnStep DEF StageName
<1>9. HistoryTyped'  BY <1>2, <1>8 DEF FixSucceeded, Typed, HistoryTyped
<1>10. Typed'
  BY <1>2, <1>5, <1>7, <1>8, <1>9, EnteredTyped DEF FixSucceeded, Typed, StageName
<1> QED  BY <1>2, <1>4, <1>5, <1>8, <1>10

\* The ends of a stage that settle the incident or strand it.
Ends(t) ==
    \/ ObserverRaises(t) \/ RcaRaises(t) \/ FixTicket(t) \/ FixFails(t) \/ FixRaises(t)
    \/ AgentsTicket(t) \/ BreakerTicket(t)

LEMMA GiveUpEnds ==
  ASSUME Typed, NEW t \in Task, NEW st \in Resting, GiveUp(t, st), task[t].id \in Id
  PROVE  /\ EndedAt(t, task[t].id) /\ HistoryTyped' /\ stranded \subseteq stranded'
         /\ UNCHANGED << cfg, inbox, dups, queue, recorded, heard, dropped, uncounted, diagnosed, fixed,
                        tested >>
<1>1. Finished(t)  BY FinishStep DEF GiveUp, Typed
<1>2. CASE rows' = SetStatus(rows, task[t].id, st) /\ UNCHANGED stranded
  BY <1>1, <1>2, SetStatusRows DEF GiveUp, EndedAt, Resting, Typed, HistoryTyped
<1>3. CASE stranded' = stranded \union { task[t].id } /\ UNCHANGED rows
  BY <1>1, <1>3, Unchanged DEF GiveUp, EndedAt, Typed, HistoryTyped
<1> QED  BY <1>2, <1>3 DEF GiveUp

LEMMA EndsDoes ==
  ASSUME Typed, NEW t \in Task, Ends(t)
  PROVE  /\ Typed' /\ task[t].id \in Id \ {0} /\ EndedAt(t, task[t].id)
         /\ task[t].at \in { "ticket", "breaker", "observe", "rca", "fixticket", "replay", "fix" }
         /\ UNCHANGED << cfg, inbox, dups, queue, recorded, heard, dropped, uncounted, diagnosed, fixed,
                        tested >>
         /\ stranded \subseteq stranded'
<1>1. task[t].at \in { "ticket", "breaker", "observe", "rca", "fixticket", "replay", "fix" }
  BY DEF Ends, ObserverRaises, RcaRaises, FixTicket, FixFails, FixRaises, AgentsTicket, BreakerTicket
<1>2. task[t].id \in Id \ {0} /\ rows \in Table /\ task \in [Task -> TaskType]
  BY <1>1, CarriedId DEF Typed
<1> DEFINE Effect ==
      /\ EndedAt(t, task[t].id) /\ HistoryTyped' /\ stranded \subseteq stranded'
      /\ UNCHANGED << cfg, inbox, dups, queue, recorded, heard, dropped, uncounted, diagnosed, fixed,
                        tested >>
<1>3. /\ "OBS_FAILED" \in Resting /\ "RCA_FAILED" \in Resting /\ "FIX_FAILED" \in Resting
      /\ "TICKET_CREATED" \in Resting
  BY DEF Resting, PipelineStatus, Terminal, FixFailed, Moving, InProgress
<1>4. ASSUME ObserverRaises(t) \/ RcaRaises(t) \/ FixRaises(t) PROVE Effect
  BY <1>2, <1>3, <1>4, GiveUpEnds DEF ObserverRaises, RcaRaises, FixRaises
<1>5. ASSUME NEW st \in Resting, Finish(t), UNCHANGED << cfg, inbox, dups, queue, history >>,
             rows' = SetStatus(rows, task[t].id, st)
      PROVE  Effect
  BY <1>2, <1>5, FinishStep, SetStatusRows DEF EndedAt, Resting, Typed, HistoryTyped, history
<1>6. ASSUME Finish(t), UNCHANGED << cfg, inbox, dups, queue, history >>,
             rows' = Escalated(rows, task[t].id)
      PROVE  Effect
  BY <1>2, <1>3, <1>6, FinishStep, EscalatedRows DEF EndedAt, Typed, HistoryTyped, history
<1>7. ASSUME FixTicket(t) \/ AgentsTicket(t) PROVE Effect
  BY <1>3, <1>5, <1>7 DEF FixTicket, AgentsTicket
<1>8. ASSUME BreakerTicket(t) PROVE Effect
  BY <1>6, <1>8 DEF BreakerTicket
<1>9. ASSUME FixFails(t) PROVE Effect
  <2>1. Finish(t) /\ UNCHANGED << cfg, inbox, dups, queue, history >>  BY <1>9 DEF FixFails
  <2>2. CASE rows' = Escalated(rows, task[t].id)
    BY <1>6, <2>1, <2>2
  <2>3. CASE \E o \in FixOutcome \ FixSuccess :
               rows' = SetStatus(rows, task[t].id, PostFixStatus(o, FALSE, "none"))
    <3>1. PICK o \in FixOutcome :
            rows' = SetStatus(rows, task[t].id, PostFixStatus(o, FALSE, "none"))
      BY <2>3
    <3>2. PostFixStatus(o, FALSE, "none") \in Resting  BY FixStatuses
    <3> QED  BY <1>5, <2>1, <3>1, <3>2
  <2> QED  BY <1>9, <2>2, <2>3 DEF FixFails
<1>10. Effect  BY <1>4, <1>7, <1>8, <1>9 DEF Ends
<1>11. Grows(rows, rows')  BY <1>2, <1>10, RestatedGrows DEF EndedAt
<1>12. Typed'  BY <1>10, <1>11, FinishedTyped DEF EndedAt
<1> QED  BY <1>1, <1>2, <1>10, <1>12

\* The replay of the failed message: done, or the decision that follows without it.
LEMMA ReplayedDoes ==
  ASSUME Typed, NEW t \in Task, Replayed(t)
  PROVE  /\ Typed' /\ task[t].id \in Id \ {0}
         /\ rows' \in Table /\ Restated(rows, rows', task[t].id)
         /\ \/ Finished(t) /\ Are(rows', task[t].id, "RETRIED")
            \/ Decided(t, rows, task[t].id, task[t].act)
<1>1. task[t].at = "replay" /\ task \in [Task -> TaskType] /\ rows \in Table
  BY DEF Replayed, Typed
<1>2. task[t].id \in Id \ {0} /\ Holds(rows, task[t].id)  BY <1>1, CarriedId
<1>3. HistoryTyped'  BY DEF Replayed, history, Typed, HistoryTyped
<1>4. CASE rows' = SetStatus(rows, task[t].id, "RETRIED") /\ Finish(t)
  <2>1. Finished(t)  BY <1>1, <1>4, FinishStep
  <2>2. rows' \in Table /\ Restated(rows, rows', task[t].id) /\ Are(rows', task[t].id, "RETRIED")
    BY <1>1, <1>4, SetStatusRows DEF PipelineStatus, Terminal
  <2>3. Typed'  BY <1>1, <1>3, <2>1, <2>2, RestatedGrows, FinishedTyped DEF Replayed
  <2> QED  BY <1>2, <2>1, <2>2, <2>3
<1>5. CASE Decide(t, rows, task[t].id, task[t].act)
  <2>1. task[t].act \in BOOLEAN  BY <1>1 DEF TaskType
  <2>2. /\ rows' \in Table /\ Restated(rows, rows', task[t].id)
        /\ Decided(t, rows, task[t].id, task[t].act)
    BY <1>1, <1>2, <1>5, <2>1, DecideStep
  <2>3. Grows(rows, rows') /\ Holds(rows', task[t].id)  BY <1>1, <1>2, <2>2, RestatedGrows
  <2>4. ASSUME Finished(t) PROVE Typed'
    BY <1>3, <2>2, <2>3, <2>4, FinishedTyped DEF Replayed
  <2>5. ASSUME Moves(t, task[t].id), task'[t].at \in { "fixticket", "fix" } PROVE Typed'
    <3>1. Alone(t) /\ Shape(t)'  BY <2>3, <2>5 DEF Moves, Shape, Carried
    <3> QED  BY <1>3, <2>2, <2>3, <3>1, TypedStep DEF Replayed, Typed
  <2> QED  BY <1>2, <2>2, <2>4, <2>5 DEF Decided
<1> QED  BY <1>4, <1>5 DEF Replayed

LEMMA VerifiedDoes ==
  ASSUME Typed, NEW t \in Task, Verified(t)
  PROVE  /\ Typed' /\ task[t].id \in Id \ {0} /\ Finished(t)
         /\ rows' \in Table /\ Restated(rows, rows', task[t].id)
         /\ rows' = rows \/ \E st \in Resting \intersect Terminal : Are(rows', task[t].id, st)
<1>1. task[t].at = "verify" /\ task \in [Task -> TaskType] /\ rows \in Table
  BY DEF Verified, Typed
<1>2. task[t].id \in Id \ {0} /\ Holds(rows, task[t].id)  BY <1>1, CarriedId
<1>3. HistoryTyped'  BY <1>2 DEF Verified, history, Typed, HistoryTyped
<1>4. Finished(t)  BY <1>1, FinishStep DEF Verified
<1>5. { "FIX_VERIFIED", "FIX_FAILED_RUNTIME" } \subseteq Resting \intersect Terminal
  BY DEF Resting, PipelineStatus, Terminal, FixFailed, Moving, InProgress
<1>6. /\ rows' \in Table /\ Restated(rows, rows', task[t].id)
      /\ rows' = rows \/ \E st \in Resting \intersect Terminal : Are(rows', task[t].id, st)
  <2>1. CASE rows' = rows  BY <1>1, <2>1, Unchanged
  <2>2. ASSUME NEW st \in { "FIX_VERIFIED", "FIX_FAILED_RUNTIME" },
               rows' = SetStatus(rows, task[t].id, st)
        PROVE  /\ rows' \in Table /\ Restated(rows, rows', task[t].id) /\ Are(rows', task[t].id, st)
    BY <1>1, <1>5, <2>2, SetStatusRows DEF Resting
  <2> QED  BY <1>5, <2>1, <2>2 DEF Verified
<1>7. Typed'  BY <1>1, <1>3, <1>4, <1>6, RestatedGrows, FinishedTyped DEF Verified
<1> QED  BY <1>2, <1>4, <1>6, <1>7

-----------------------------------------------------------------------------
(* What the doors do *)

\* The failures counted in the rows numbered as row k are one more than row k has.
CountedAt(rs, r2, k) ==
    /\ Len(r2) = Len(rs)
    /\ \A j \in 1 .. Len(rs) :
         /\ r2[j].id = rs[j].id /\ r2[j].sig = rs[j].sig /\ r2[j].group = rs[j].group
         /\ r2[j].act = rs[j].act /\ r2[j].st = rs[j].st
         /\ r2[j].n = IF rs[j].id = rs[k].id THEN rs[k].n + 1 ELSE rs[j].n

\* Nothing but counts changes.
Recounted(rs, r2) ==
    /\ Len(r2) = Len(rs)
    /\ \A j \in 1 .. Len(rs) :
         /\ r2[j].id = rs[j].id /\ r2[j].sig = rs[j].sig /\ r2[j].group = rs[j].group
         /\ r2[j].act = rs[j].act /\ r2[j].st = rs[j].st

\* A row is added, for incident i.
Inserted(rs, r2, i, s, st) ==
    /\ Len(r2) = Len(rs) + 1
    /\ \A k \in 1 .. Len(rs) : r2[k] = rs[k]
    /\ r2[Len(rs) + 1].id = i /\ r2[Len(rs) + 1].sig = s /\ r2[Len(rs) + 1].st = st
    /\ r2[Len(rs) + 1].n = 1 /\ ~r2[Len(rs) + 1].act
    /\ r2[Len(rs) + 1].group \in {s, NoSig}

LEMMA InsertedRow ==
  ASSUME NEW rs \in Table, cfg \in Configs, Len(rs) < MaxRows, NEW i \in 1 .. Len(rs) + 1,
         NEW s \in Sig \union {NoSig}, NEW st \in PipelineStatus
  PROVE  /\ Append(rs, NewRow(i, s, st)) \in Table
         /\ Inserted(rs, Append(rs, NewRow(i, s, st)), i, s, st)
         /\ Append(rs, [NewRow(i, s, st) EXCEPT !.group = NoSig]) \in Table
         /\ Inserted(rs, Append(rs, [NewRow(i, s, st) EXCEPT !.group = NoSig]), i, s, st)
<1>1. rs \in Seq(Row) /\ Len(rs) \in Nat /\ MaxRows \in Nat  BY ConstantsAssumption DEF Table
<1>2. i \in Id \ {0}  BY <1>1 DEF Id
<1>3. cfg.burst \in BOOLEAN  BY ConstantsAssumption DEF ConfigType
<1> DEFINE r == NewRow(i, s, st)
           q == [NewRow(i, s, st) EXCEPT !.group = NoSig]
<1>4. r \in Row  BY <1>2, <1>3 DEF NewRow, Row
<1>5. r.id = i /\ r.sig = s /\ r.st = st /\ r.n = 1 /\ ~r.act /\ r.group = s
  BY DEF NewRow
<1>6. /\ q \in Row
      /\ q.id = i /\ q.sig = s /\ q.st = st /\ q.n = 1 /\ ~q.act /\ q.group = NoSig
  <2> HIDE DEF r
  <2>1. [r EXCEPT !.group = NoSig] \in Row  BY <1>4 DEF Row
  <2>2. /\ [r EXCEPT !.group = NoSig].id = r.id /\ [r EXCEPT !.group = NoSig].sig = r.sig
        /\ [r EXCEPT !.group = NoSig].st = r.st /\ [r EXCEPT !.group = NoSig].n = r.n
        /\ [r EXCEPT !.group = NoSig].act = r.act /\ [r EXCEPT !.group = NoSig].group = NoSig
    BY <1>4 DEF Row
  <2> QED  BY <2>1, <2>2, <1>5 DEF r
<1> HIDE DEF r, q
<1>7. i <= Len(rs) + 1  BY <1>1
<1>8. /\ Append(rs, r) \in Table /\ Len(Append(rs, r)) = Len(rs) + 1
      /\ Append(rs, r)[Len(rs) + 1] = r /\ \A k \in 1 .. Len(rs) : Append(rs, r)[k] = rs[k]
  BY <1>4, <1>5, <1>7, AppendedRow
<1>9. /\ Append(rs, q) \in Table /\ Len(Append(rs, q)) = Len(rs) + 1
      /\ Append(rs, q)[Len(rs) + 1] = q /\ \A k \in 1 .. Len(rs) : Append(rs, q)[k] = rs[k]
  BY <1>6, <1>7, AppendedRow
<1>10. Append(rs, r) \in Table /\ Inserted(rs, Append(rs, r), i, s, st)
  BY <1>5, <1>8 DEF Inserted
<1>11. Append(rs, q) \in Table /\ Inserted(rs, Append(rs, q), i, s, st)
  BY <1>6, <1>9 DEF Inserted
<1> QED  BY <1>10, <1>11 DEF r, q

\* A number handed out is at most one more than there are rows.
LEMMA NumbersSmall ==
  ASSUME NEW rs \in Table, NEW i \in Numbers(rs)
  PROVE  i \in 1 .. Len(rs) + 1
<1>1. Len(rs) \in Nat  BY DEF Table
<1>2. NextId(rs) \in 1 .. Len(rs) + 1  BY NextIdIsNew
<1> QED  BY <1>1, <1>2 DEF Numbers

LEMMA InsertedGrows ==
  ASSUME NEW rs \in Table, NEW r2 \in Table, NEW i, NEW s, NEW st, Inserted(rs, r2, i, s, st)
  PROVE  Grows(rs, r2) /\ Holds(r2, i)
<1>1. Len(rs) \in Nat  BY DEF Table
<1>2. Len(rs) + 1 \in 1 .. Len(r2)  BY <1>1 DEF Inserted
<1> QED  BY <1>1, <1>2 DEF Inserted, Grows, Holds

LEMMA RecountedGrows ==
  ASSUME NEW rs \in Table, NEW r2, Recounted(rs, r2)
  PROVE  Grows(rs, r2) /\ \A j : Holds(r2, j) <=> Holds(rs, j)
  BY DEF Recounted, Grows, Holds, Table

\* ORDER BY created_at DESC LIMIT 1 returns one of the rows.
LEMMA NewestRow ==
  ASSUME NEW rs \in Table, NEW S, S \subseteq DOMAIN rs, S # {}
  PROVE  Newest(S) \in S /\ Newest(S) \in 1 .. Len(rs)
<1>1. Len(rs) \in Nat /\ DOMAIN rs = 1 .. Len(rs)  BY DEF Table
<1>2. S \subseteq 0 .. Len(rs)  BY <1>1
<1> QED  BY <1>1, <1>2, MaxOfBounded DEF Newest

\* resume_correlated_incident for row k of rs.
Resumed(t, rs, k) ==
    \/ /\ Finished(t) /\ rows' = rs /\ stranded' = stranded
       /\ rs[k].st \in InProgress \union { "AWAITING_APPROVAL" }
    \/ /\ \E stage \in { "rca", "fixer" } : Entered(t, rs, stage, rs[k].id)
       /\ stranded \subseteq stranded' \union { rs[k].id }

Heard(f) == recorded' = recorded + 1 /\ heard' = heard \union {f} /\ uncounted' = uncounted

Unheard(f) ==
    Blind /\ recorded' = recorded /\ heard' = heard /\ uncounted' = uncounted \union {f}

\* The failure f is counted in row k of r2, or the database refuses that.
Tried(f, k, r2) ==
    /\ Recounted(rows, r2)
    /\ \/ CountedAt(rows, r2, k) /\ Heard(f)
       \/ r2 = rows /\ Unheard(f)

Correlated(t, f) ==
    \E k \in 1 .. Len(rows), rs \in Table :
      /\ rows[k].sig = SigOf[f] /\ rows[k].st \notin Terminal
      /\ Tried(f, k, rs) /\ Resumed(t, rs, k)

Absorbed(t, f) ==
    /\ \E k \in 1 .. Len(rows) :
         rows[k].group = SigOf[f] /\ rows[k].st \notin Terminal /\ Tried(f, k, rows')
    /\ rows' \in Table /\ Finished(t) /\ stranded' = stranded

LEMMA CountStep ==
  ASSUME rows \in Table, NEW f, NEW k \in 1 .. Len(rows), NEW r2, Count(f, k, r2)
  PROVE  r2 \in Table /\ Tried(f, k, r2)
<1>1. CASE r2 = Counted(rows, k) /\ Record(f)
  <2>1. r2 \in Table /\ CountedAt(rows, r2, k)
    BY <1>1, CountedRows, SMTT(40) DEF CountedAt
  <2>2. Heard(f)  BY <1>1 DEF Record, Heard
  <2> QED  BY <2>1, <2>2 DEF Tried, CountedAt, Recounted
<1>2. CASE r2 = rows /\ Miscount(f)
  BY <1>2 DEF Miscount, Tried, Unheard, Recounted
<1> QED  BY <1>1, <1>2 DEF Count

\* Whichever way the count went, the histories keep their types.
LEMMA TriedTyped ==
  ASSUME Typed, NEW f \in Failure, NEW k, NEW r2, Tried(f, k, r2),
         UNCHANGED << diagnosed, fixed, tested >>, dropped' \subseteq Failure,
         stranded' \subseteq Id
  PROVE  HistoryTyped'
  BY DEF Tried, Heard, Unheard, HistoryTyped, Typed

LEMMA CorrelateDoes ==
  ASSUME Typed, NEW t \in Task, NEW f \in Failure, Correlate(t, f),
         UNCHANGED << cfg, inbox, dups, queue, diagnosed, fixed, tested >>, dropped' \subseteq Failure
  PROVE  Typed' /\ Correlated(t, f)
<1>1. rows \in Table /\ task \in [Task -> TaskType] /\ stranded \subseteq Id
  BY DEF Typed, HistoryTyped
<1> DEFINE k == Newest(OpenBySignature(rows, SigOf[f]))
<1>2. PICK rs : Count(f, k, rs) /\ Resume(t, rs, k)  BY DEF Correlate
<1>3. k \in OpenBySignature(rows, SigOf[f]) /\ k \in 1 .. Len(rows)
  BY <1>1, NewestRow DEF OpenBySignature, Correlate, Correlates
<1>4. rows[k].sig = SigOf[f] /\ rows[k].st \notin Terminal  BY <1>3 DEF OpenBySignature
<1> HIDE DEF k
<1>5. rs \in Table /\ Tried(f, k, rs) /\ Recounted(rows, rs)
  BY <1>1, <1>2, <1>3, CountStep DEF Tried
<1>6. rs[k].id = rows[k].id /\ Holds(rs, rs[k].id) /\ Holds(rows, rows[k].id)
      /\ rs[k].id \in Id
  <2>1. rows[k] \in Row  BY <1>1, <1>3 DEF Table
  <2>2. rows[k].id \in Id  BY <2>1 DEF Row
  <2> QED  BY <1>3, <1>5, <2>2 DEF Recounted, Holds
<1>7. CASE Finish(t) /\ rows' = rs /\ UNCHANGED stranded
           /\ rs[k].st \in InProgress \union { "AWAITING_APPROVAL" }
  <2>1. Finished(t)  BY <1>1, <1>7, FinishStep
  <2>2. HistoryTyped'  BY <1>1, <1>5, <1>7, TriedTyped
  <2>3. Typed'  BY <1>1, <1>5, <1>7, <2>1, <2>2, RecountedGrows, FinishedTyped
  <2> QED  BY <1>3, <1>4, <1>5, <1>7, <2>1, <2>3 DEF Correlated, Resumed
<1>8. ASSUME NEW stage \in { "rca", "fixer" },
             HandOn(t, rs, stranded \ { rs[k].id }, stage, rs[k].id)
      PROVE  Typed' /\ Correlated(t, f)
  <2>1. stage \in StageName  BY DEF StageName
  <2>2. PICK kept : kept = stranded \ { rs[k].id }  OBVIOUS
  <2>3. /\ Entered(t, rs, stage, rs[k].id)
        /\ kept \subseteq stranded' /\ stranded' \subseteq kept \union { rs[k].id }
    BY <1>1, <1>5, <1>6, <1>8, <2>1, <2>2, HandOnStep
  <2>4. stranded \subseteq stranded' \union { rs[k].id } /\ stranded' \subseteq Id
    BY <1>1, <1>6, <2>2, <2>3
  <2>5. Grows(rows, rs)  BY <1>1, <1>5, RecountedGrows
  <2>6. dups' \in 0 .. cfg.spare /\ queue' \in [Message -> 0 .. MaxCopies]
        /\ \A m \in Message : queue'[m] > 0 => queue[m] > 0
    BY DEF Typed
  <2>7. HistoryTyped'  BY <1>1, <1>5, <2>4, TriedTyped
  <2>8. Typed'  BY <1>5, <1>6, <2>1, <2>3, <2>5, <2>6, <2>7, EnteredTyped
  <2> QED  BY <1>3, <1>4, <1>5, <2>3, <2>4, <2>8 DEF Correlated, Resumed
<1>9. \/ Finish(t) /\ rows' = rs /\ UNCHANGED stranded
         /\ rs[k].st \in InProgress \union { "AWAITING_APPROVAL" }
      \/ \E stage \in { "rca", "fixer" } :
           HandOn(t, rs, stranded \ { rs[k].id }, stage, rs[k].id)
  BY <1>2, Zenon DEF Resume
<1> QED  BY <1>7, <1>8, <1>9

LEMMA AbsorbDoes ==
  ASSUME Typed, NEW t \in Task, NEW f \in Failure, Absorb(t, f),
         UNCHANGED << cfg, inbox, dups, queue, dropped, diagnosed, fixed, tested >>
  PROVE  Typed' /\ Absorbed(t, f)
<1>1. rows \in Table /\ task \in [Task -> TaskType] /\ stranded' \subseteq Id
      /\ dropped' \subseteq Failure /\ stranded' = stranded
  BY DEF Typed, HistoryTyped, Absorb
<1> DEFINE k == Newest(RecentByGroup(rows, SigOf[f]))
<1>2. RecentByGroup(rows, SigOf[f]) # {} /\ Count(f, k, rows') /\ Finish(t)
  BY DEF Absorb, Bursts
<1>3. k \in RecentByGroup(rows, SigOf[f]) /\ k \in 1 .. Len(rows)
  BY <1>1, <1>2, NewestRow DEF RecentByGroup
<1>4. rows[k].group = SigOf[f] /\ rows[k].st \notin Terminal  BY <1>3 DEF RecentByGroup
<1> HIDE DEF k
<1>5. rows' \in Table /\ Tried(f, k, rows') /\ Recounted(rows, rows')
  <2>1. PICK r2 : r2 = rows'  OBVIOUS
  <2>2. r2 \in Table /\ Tried(f, k, r2)  BY <1>1, <1>2, <1>3, <2>1, CountStep
  <2> QED  BY <2>1, <2>2 DEF Tried
<1>6. Finished(t)  BY <1>1, <1>2, FinishStep
<1>7. HistoryTyped'
  <2>1. PICK r2 : r2 = rows'  OBVIOUS
  <2>2. Tried(f, k, r2)  BY <1>5, <2>1
  <2> QED  BY <1>1, <2>2, TriedTyped
<1>8. Typed'  BY <1>1, <1>5, <1>6, <1>7, RecountedGrows, FinishedTyped
<1> QED  BY <1>1, <1>3, <1>4, <1>5, <1>6, <1>8 DEF Absorbed

\* The failure a coroutine looks at.
LEMMA HeadOfList ==
  ASSUME Typed, NEW t \in Task, task[t].at \in { "classify", "meta", "lookup" }
  PROVE  /\ task[t].todo \in Seq(Failure) /\ task[t].todo # << >>
         /\ Head(task[t].todo) \in Failure
         /\ SigOf[Head(task[t].todo)] \in Sig
         /\ Range(task[t].todo) \subseteq Failure
<1>1. task[t].todo \in Seq(Failure) /\ task[t].todo # << >>
  BY DEF Typed, TaskType, Shape
<1> QED  BY <1>1, ListParts, ConstantsAssumption

\* A new incident, handed on to the observer or to a ticket.
Created(t, f) ==
    \E i \in Numbers(rows), rs \in Table :
      /\ Len(rows) < MaxRows
      /\ Inserted(rows, rs, i, SigOf[f], "CLASSIFIED")
      /\ \/ Moves(t, i) /\ task'[t].at = "ticket" /\ rows' = rs /\ stranded' = stranded
         \/ Entered(t, rs, "observer", i) /\ stranded \subseteq stranded'

LEMMA AgentsDetectDoes ==
  ASSUME Typed, NEW t \in Task, AgentsDetect(t)
  PROVE  /\ Typed'
         /\ \/ Correlated(t, Head(task[t].todo))
            \/ Absorbed(t, Head(task[t].todo))
            \/ /\ ~Correlates(Head(task[t].todo)) \/ Blind
               /\ Heard(Head(task[t].todo)) /\ Created(t, Head(task[t].todo))
<1> DEFINE f == Head(task[t].todo)
<1>1. rows \in Table /\ task \in [Task -> TaskType] /\ task[t].at = "classify" /\ cfg \in Configs
      /\ UNCHANGED << cfg, inbox, dups, queue, dropped, diagnosed, fixed, tested >>
  BY DEF Typed, AgentsDetect
<1>2. f \in Failure /\ SigOf[f] \in Sig  BY <1>1, HeadOfList
<1>3. Correlate(t, f) \/ Absorb(t, f) \/
      ((~Correlates(f) \/ Blind) /\ CreateClassified(t, f) /\ Record(f))
  BY DEF AgentsDetect, Unseen
<1> HIDE DEF f
<1>4. CASE Correlate(t, f)
  <2>1. dropped' \subseteq Failure  BY <1>1 DEF Typed, HistoryTyped
  <2> QED  BY <1>1, <1>2, <1>4, <2>1, CorrelateDoes DEF f
<1>5. CASE Absorb(t, f)
  BY <1>1, <1>2, <1>5, AbsorbDoes DEF f
<1>6. CASE (~Correlates(f) \/ Blind) /\ CreateClassified(t, f) /\ Record(f)
  <2>1. Heard(f) /\ (stranded' \subseteq Id => HistoryTyped')
    BY <1>1, <1>2, <1>6 DEF Record, Heard, HistoryTyped, Typed
  <2>2. PICK i \in Numbers(rows) :
          \/ At(t, "ticket", i) /\ rows' = Append(rows, NewRow(i, SigOf[f], "CLASSIFIED"))
             /\ UNCHANGED stranded
          \/ HandOn(t, Append(rows, NewRow(i, SigOf[f], "CLASSIFIED")), stranded, "observer", i)
    BY <1>6 DEF CreateClassified
  <2> DEFINE rs == Append(rows, NewRow(i, SigOf[f], "CLASSIFIED"))
  <2>3. Len(rows) < MaxRows /\ i \in 1 .. Len(rows) + 1
    BY <1>1, <1>6, NumbersSmall DEF CreateClassified
  <2>4. rs \in Table /\ Inserted(rows, rs, i, SigOf[f], "CLASSIFIED")
    BY <1>1, <1>2, <2>3, InsertedRow DEF PipelineStatus
  <2>5. \/ At(t, "ticket", i) /\ rows' = rs /\ UNCHANGED stranded
        \/ HandOn(t, rs, stranded, "observer", i)
    BY <2>2
  <2> HIDE DEF rs
  <2>6. Grows(rows, rs) /\ Holds(rs, i)  BY <1>1, <2>4, InsertedGrows
  <2>7. i \in Id
    <3>1. Len(rows) \in Nat  BY <1>1 DEF Table
    <3> QED  BY <2>3, <3>1, ConstantsAssumption DEF Id
  <2>11. stranded \subseteq Id  BY DEF Typed, HistoryTyped
  <2>8. ASSUME At(t, "ticket", i), rows' = rs, UNCHANGED stranded
        PROVE  Typed' /\ Moves(t, i) /\ task'[t].at = "ticket"
    <3>1. Moves(t, i) /\ task'[t].at = "ticket" /\ Alone(t)
      BY <1>1, <2>7, <2>8, AtStep DEF Moves, Labels
    <3>2. Len(task[t].todo) = 1  BY <1>1 DEF Typed, Shape
    <3>3. Shape(t)'  BY <2>6, <2>8, <3>1, <3>2 DEF Moves, Shape, Carried
    <3>4. Typed'  BY <1>1, <2>1, <2>4, <2>6, <2>8, <2>11, <3>1, <3>3, TypedStep DEF Typed
    <3> QED  BY <3>1, <3>4
  <2>9. ASSUME HandOn(t, rs, stranded, "observer", i)
        PROVE  Typed' /\ Entered(t, rs, "observer", i) /\ stranded \subseteq stranded'
    <3>1. /\ Entered(t, rs, "observer", i)
          /\ stranded \subseteq stranded' /\ stranded' \subseteq stranded \union {i}
      BY <1>1, <2>4, <2>7, <2>9, HandOnStep DEF StageName
    <3>4. HistoryTyped'  BY <2>1, <2>7, <2>11, <3>1
    <3>2. dups' \in 0 .. cfg.spare /\ queue' \in [Message -> 0 .. MaxCopies]
          /\ \A m \in Message : queue'[m] > 0 => queue[m] > 0
      BY <1>1 DEF Typed
    <3>3. Typed'  BY <1>1, <2>4, <2>6, <2>7, <3>1, <3>2, <3>4, EnteredTyped DEF StageName
    <3> QED  BY <3>1, <3>3
  <2>10. Typed' /\ Created(t, f)
    BY <2>3, <2>4, <2>5, <2>8, <2>9 DEF Created
  <2> QED  BY <1>6, <2>1, <2>10 DEF f
<1> QED  BY <1>3, <1>4, <1>5, <1>6

LEMMA EventsDetectDoes ==
  ASSUME Typed, NEW t \in Task, EventsDetect(t)
  PROVE  LET f == Head(task[t].todo)
         IN  /\ Typed' /\ UNCHANGED << cfg, inbox, dups, queue, diagnosed, fixed, tested >>
             /\ \/ /\ dropped' = dropped \union {f}
                   /\ UNCHANGED << rows, recorded, heard, uncounted, stranded >>
                   /\ \/ Finished(t)
                      \/ task'[t].at = "breaker" /\ Moves(t, task'[t].id)
                \/ dropped' = dropped /\ Correlated(t, f)
                \/ dropped' = dropped /\ Absorbed(t, f)
                \/ /\ UNCHANGED << rows, recorded, heard, uncounted, dropped, stranded >>
                   /\ task'[t].at = "lookup" /\ Moves(t, task'[t].id)
<1> DEFINE f == Head(task[t].todo)
           k == Newest(OpenBySignature(rows, SigOf[f]))
<1>1. rows \in Table /\ task \in [Task -> TaskType] /\ task[t].at = "meta"
      /\ UNCHANGED << cfg, inbox, dups, queue, diagnosed, fixed, tested >>
  BY DEF Typed, EventsDetect
<1>2. f \in Failure /\ task[t].todo # << >>  BY <1>1, HeadOfList
<1>3. \/ /\ Correlates(f) /\ CircuitBreaker(t, k) /\ dropped' = dropped \union {f}
         /\ UNCHANGED << recorded, heard, uncounted, stranded >>
      \/ Correlate(t, f) /\ UNCHANGED dropped
      \/ Absorb(t, f) /\ UNCHANGED dropped
      \/ /\ \E i \in Numbers(rows) : i <= MaxRows /\ At(t, "lookup", i)
         /\ UNCHANGED << rows, recorded, heard, uncounted, stranded, dropped >>
  BY DEF EventsDetect
<1> HIDE DEF f
<1>4. CASE /\ Correlates(f) /\ CircuitBreaker(t, k) /\ dropped' = dropped \union {f}
           /\ UNCHANGED << recorded, heard, uncounted, stranded >>
  <2>1. k \in 1 .. Len(rows)
    BY <1>1, <1>4, NewestRow DEF OpenBySignature, Correlates
  <2>2. Finish(t) \/ At(t, "breaker", rows[k].id)  BY <1>4 DEF CircuitBreaker
  <2>3. rows' = rows  BY <1>4 DEF CircuitBreaker
  <2>4. HistoryTyped'  BY <1>1, <1>2, <1>4 DEF HistoryTyped, Typed
  <2> HIDE DEF k
  <2>5. ASSUME Finish(t) PROVE Typed' /\ Finished(t)
    <3>1. Finished(t)  BY <1>1, <2>5, FinishStep
    <3> QED  BY <1>1, <2>3, <2>4, <3>1, SameGrows, FinishedTyped
  <2>6. ASSUME At(t, "breaker", rows[k].id)
        PROVE  Typed' /\ task'[t].at = "breaker" /\ Moves(t, task'[t].id)
    <3>1. rows[k] \in Row  BY <1>1, <2>1 DEF Table
    <3>2. rows[k].id \in Id /\ Holds(rows', rows[k].id)  BY <2>1, <2>3, <3>1 DEF Row, Holds
    <3>3. /\ Alone(t) /\ task'[t].at = "breaker" /\ task'[t].id = rows[k].id
          /\ task'[t].todo = task[t].todo
      BY <1>1, <2>6, <3>2, AtStep DEF Labels
    <3>4. Shape(t)'  BY <3>2, <3>3 DEF Shape, Carried, Holds
    <3>5. Typed'  BY <1>1, <2>3, <2>4, <3>3, <3>4, SameGrows, TypedStep DEF Typed
    <3> QED  BY <3>3, <3>5 DEF Moves
  <2> QED  BY <1>1, <1>4, <2>2, <2>3, <2>5, <2>6 DEF f
<1>5. CASE Correlate(t, f) /\ UNCHANGED dropped
  <2>1. dropped' \subseteq Failure  BY <1>5 DEF Typed, HistoryTyped
  <2> QED  BY <1>1, <1>2, <1>5, <2>1, CorrelateDoes DEF f
<1>6. CASE Absorb(t, f) /\ UNCHANGED dropped
  BY <1>1, <1>2, <1>6, AbsorbDoes DEF f
<1>7. CASE /\ \E i \in Numbers(rows) : i <= MaxRows /\ At(t, "lookup", i)
           /\ UNCHANGED << rows, recorded, heard, uncounted, stranded, dropped >>
  <2>1. PICK i \in Numbers(rows) : i <= MaxRows /\ At(t, "lookup", i)  BY <1>7
  <2>2. Len(rows) \in Nat /\ i \in 1 .. Len(rows) + 1  BY <1>1, NumbersSmall DEF Table
  <2>3. i \in Id  BY <2>1, <2>2, ConstantsAssumption DEF Id
  <2>4. /\ Alone(t) /\ task'[t].at = "lookup" /\ task'[t].id = i
        /\ task'[t].todo = task[t].todo
    BY <1>1, <2>1, <2>3, AtStep DEF Labels
  <2>5. Shape(t)'  BY <1>2, <1>7, <2>2, <2>4 DEF Shape, Carried
  <2>6. HistoryTyped'  BY <1>1, <1>7 DEF HistoryTyped, Typed
  <2>7. Typed'  BY <1>1, <1>7, <2>4, <2>5, <2>6, SameGrows, TypedStep DEF Typed
  <2> QED  BY <1>1, <1>7, <2>4, <2>7 DEF Moves
<1> QED  BY <1>3, <1>4, <1>5, <1>6, <1>7

LEMMA EventsCreateDoes ==
  ASSUME Typed, NEW t \in Task, EventsCreate(t)
  PROVE  /\ Typed' /\ Heard(Head(task[t].todo)) /\ stranded \subseteq stranded'
         /\ \/ /\ Finished(t)
               /\ Inserted(rows, rows', task[t].id, SigOf[Head(task[t].todo)], "ARTIFACT_MISSING")
            \/ \E rs \in Table :
                 /\ Inserted(rows, rs, task[t].id, SigOf[Head(task[t].todo)], "DETECTED")
                 /\ Entered(t, rs, "observer", task[t].id)
<1> DEFINE f == Head(task[t].todo)
           i == task[t].id
<1>1. rows \in Table /\ task \in [Task -> TaskType] /\ task[t].at = "lookup" /\ cfg \in Configs
      /\ UNCHANGED << cfg, inbox, dups, queue, dropped, diagnosed, fixed, tested >>
      /\ stranded \subseteq Id
  BY DEF Typed, HistoryTyped, EventsCreate
<1>2. f \in Failure /\ SigOf[f] \in Sig  BY <1>1, HeadOfList
<1>3. i \in 1 .. Len(rows) + 1 /\ i \in Id /\ Len(rows) < MaxRows
  BY <1>1 DEF Typed, Shape, EventsCreate, TaskType
<1>4. Heard(f) /\ (stranded' \subseteq Id => HistoryTyped')
  BY <1>1, <1>2 DEF EventsCreate, Record, Heard, HistoryTyped, Typed
<1>5. \/ /\ rows' = Append(rows, NewRow(i, SigOf[f], "ARTIFACT_MISSING")) /\ Finish(t)
         /\ UNCHANGED stranded
      \/ HandOn(t, Append(rows, NewRow(i, SigOf[f], "DETECTED")), stranded, "observer", i)
  BY DEF EventsCreate
<1> HIDE DEF f, i
<1>6. CASE rows' = Append(rows, NewRow(i, SigOf[f], "ARTIFACT_MISSING")) /\ Finish(t)
           /\ UNCHANGED stranded
  <2>1. rows' \in Table /\ Inserted(rows, rows', i, SigOf[f], "ARTIFACT_MISSING")
    BY <1>1, <1>2, <1>3, <1>6, InsertedRow DEF PipelineStatus, Terminal
  <2>2. Finished(t)  BY <1>1, <1>6, FinishStep
  <2>3. Typed'  BY <1>1, <1>4, <1>6, <2>1, <2>2, InsertedGrows, FinishedTyped
  <2> QED  BY <1>1, <1>4, <1>6, <2>1, <2>2, <2>3 DEF f, i
<1>7. CASE HandOn(t, Append(rows, NewRow(i, SigOf[f], "DETECTED")), stranded, "observer", i)
  <2> DEFINE rs == Append(rows, NewRow(i, SigOf[f], "DETECTED"))
  <2>1. rs \in Table /\ Inserted(rows, rs, i, SigOf[f], "DETECTED")
    BY <1>1, <1>2, <1>3, InsertedRow DEF PipelineStatus
  <2>2. HandOn(t, rs, stranded, "observer", i)  BY <1>7
  <2> HIDE DEF rs
  <2>3. Grows(rows, rs) /\ Holds(rs, i)  BY <1>1, <2>1, InsertedGrows
  <2>4. /\ Entered(t, rs, "observer", i)
        /\ stranded \subseteq stranded' /\ stranded' \subseteq stranded \union {i}
    BY <1>1, <1>3, <2>1, <2>2, HandOnStep DEF StageName
  <2>5. dups' \in 0 .. cfg.spare /\ queue' \in [Message -> 0 .. MaxCopies]
        /\ \A m \in Message : queue'[m] > 0 => queue[m] > 0
    BY <1>1 DEF Typed
  <2>6. Typed'  BY <1>1, <1>3, <1>4, <2>1, <2>3, <2>4, <2>5, EnteredTyped DEF StageName
  <2> QED  BY <1>1, <1>4, <2>1, <2>4, <2>6 DEF f, i
<1> QED  BY <1>5, <1>6, <1>7

\* A coroutine gives up all that is left of its message.
LEMMA IdleShape ==
  ASSUME NEW t \in Task, task \in [Task -> TaskType], task' = [task EXCEPT ![t] = Idle]
  PROVE  Alone(t) /\ task'[t] = Idle /\ Shape(t)' /\ Carried(t)' = {}
<1>1. Alone(t) /\ task'[t] = Idle  BY IdleTyped DEF Alone
<1> QED  BY <1>1 DEF Shape, Carried, Idle

LEMMA EventsRaisesDoes ==
  ASSUME Typed, NEW t \in Task, EventsRaises(t)
  PROVE  /\ Typed' /\ Alone(t) /\ task'[t] = Idle
         /\ \/ rows' = rows
            \/ \E i \in Numbers(rows) : Inserted(rows, rows', i, NoSig, "PARSE_FAILED")
<1>1. rows \in Table /\ task \in [Task -> TaskType] /\ cfg \in Configs
      /\ UNCHANGED << cfg, inbox, dups, queue, heard, uncounted, stranded, diagnosed, fixed,
                      tested >>
      /\ task[t].at \in { "meta", "breaker", "lookup" } /\ dropped' = dropped \union Range(task[t].todo)
  BY DEF Typed, EventsRaises
<1>2. Alone(t) /\ task'[t] = Idle /\ Shape(t)'  BY <1>1, IdleShape DEF EventsRaises
<1>3. Range(task[t].todo) \subseteq Failure
  <2>1. task[t].todo \in Seq(Failure)  BY <1>1 DEF TaskType
  <2> QED  BY <2>1 DEF Range
<1>4. CASE UNCHANGED << rows, recorded >>
  <2>1. HistoryTyped'  BY <1>1, <1>3, <1>4 DEF HistoryTyped, Typed
  <2>2. Typed'  BY <1>1, <1>2, <1>4, <2>1, SameGrows, TypedStep DEF Typed
  <2> QED  BY <1>2, <1>4, <2>2
<1>5. ASSUME Len(rows) < MaxRows, NEW i \in Numbers(rows),
             rows' = Append(rows, NewRow(i, NoSig, "PARSE_FAILED")), recorded' = recorded + 1
      PROVE  Typed' /\ Inserted(rows, rows', i, NoSig, "PARSE_FAILED")
  <2>1. i \in 1 .. Len(rows) + 1  BY <1>1, NumbersSmall
  <2>2. rows' \in Table /\ Inserted(rows, rows', i, NoSig, "PARSE_FAILED")
    BY <1>1, <1>5, <2>1, InsertedRow DEF PipelineStatus
  <2>3. HistoryTyped'  BY <1>1, <1>3, <1>5 DEF HistoryTyped, Typed
  <2>4. Typed'  BY <1>1, <1>2, <2>2, <2>3, InsertedGrows, TypedStep DEF Typed
  <2> QED  BY <2>2, <2>4
<1> QED  BY <1>2, <1>4, <1>5 DEF EventsRaises

LEMMA AgentsRaisesDoes ==
  ASSUME Typed, NEW t \in Task, AgentsRaises(t)
  PROVE  Typed' /\ Alone(t) /\ task'[t] = Idle
<1>1. rows \in Table /\ task \in [Task -> TaskType] /\ task[t].at \in { "classify", "ticket" }
      /\ UNCHANGED << cfg, inbox, dups, rows, queue, recorded, heard, uncounted, diagnosed, fixed,
                      tested >>
  BY DEF Typed, AgentsRaises
<1>2. Alone(t) /\ task'[t] = Idle /\ Shape(t)'  BY <1>1, IdleShape DEF AgentsRaises
<1>3. HistoryTyped'
  <2>1. CASE task[t].at = "classify"
    BY <1>1, <2>1, HeadOfList DEF AgentsRaises, HistoryTyped, Typed
  <2>2. CASE task[t].at = "ticket"
    <3>1. task[t].id \in Id  BY <2>2, CarriedId
    <3> QED  BY <1>1, <2>2, <3>1 DEF AgentsRaises, HistoryTyped, Typed
  <2> QED  BY <1>1, <2>1, <2>2
<1> QED  BY <1>1, <1>2, <1>3, SameGrows, TypedStep DEF Typed

\* Another delivery of an event, the first one or a later one.
LEMMA TakeDoes ==
  ASSUME Typed, NEW e \in Event, Take(e)
  PROVE  /\ inbox' \subseteq Event /\ dups' \in 0 .. cfg.spare
         /\ inbox \ inbox' \subseteq {e}
         /\ dups' = cfg.spare => dups = cfg.spare
<1>1. cfg.spare \in Nat  BY ConstantsAssumption DEF Typed, ConfigType
<1>2. dups \in 0 .. cfg.spare /\ inbox \subseteq Event  BY DEF Typed
<1> QED  BY <1>1, <1>2 DEF Take

\* A coroutine is started with a list of failures.
LEMMA BegunShape ==
  ASSUME NEW t \in Task, task \in [Task -> TaskType], NEW label \in { "classify", "meta" },
         NEW s \in Seq(Failure), s # << >>, label = "classify" => Len(s) = 1,
         task' = [task EXCEPT ![t] = [Idle EXCEPT !.at = label, !.todo = s]]
  PROVE  Alone(t) /\ task'[t].at = label /\ task'[t].todo = s /\ Shape(t)' /\ Carried(t)' = {}
<1> DEFINE a == [Idle EXCEPT !.at = label, !.todo = s]
           b == [[Idle EXCEPT !.at = label] EXCEPT !.todo = s]
<1>1. a = b  BY SMT DEF Idle
<1>2. label \in Labels  BY DEF Labels
<1>3. [Idle EXCEPT !.at = label] \in TaskType  BY <1>2, IdleTyped DEF TaskType
<1>4. b \in TaskType /\ b.at = label /\ b.todo = s  BY <1>3 DEF TaskType
<1>5. task' = [task EXCEPT ![t] = a]  OBVIOUS
<1> HIDE DEF a, b
<1>6. Alone(t) /\ task'[t].at = label /\ task'[t].todo = s  BY <1>1, <1>4, <1>5 DEF Alone
<1> QED  BY <1>6 DEF Shape, Carried

LEMMA AgentsEventDoes ==
  ASSUME Typed, NEW t \in Task, NEW e \in Event, AgentsEvent(t, e)
  PROVE  /\ Typed' /\ Alone(t) /\ task'[t].at = "classify"
         /\ task'[t].todo = << Head(Entries[e]) >>
         /\ dropped' = dropped \union Range(Tail(Entries[e]))
         /\ Entries[e] \in Seq(Failure) /\ Entries[e] # << >>
<1>1. Entries[e] \in Seq(Failure) /\ Entries[e] # << >>  BY ConstantsAssumption
<1>2. Head(Entries[e]) \in Failure /\ Range(Tail(Entries[e])) \subseteq Failure
      /\ << Head(Entries[e]) >> \in Seq(Failure) /\ << Head(Entries[e]) >> # << >>
      /\ Len(<< Head(Entries[e]) >>) = 1
  BY <1>1, ListParts
<1>3. /\ task' = [task EXCEPT ![t] = [Idle EXCEPT !.at = "classify", !.todo = << Head(Entries[e]) >>]]
      /\ dropped' = dropped \union Range(Tail(Entries[e])) /\ Take(e)
      /\ UNCHANGED << cfg, rows, queue, recorded, heard, uncounted, stranded, diagnosed, fixed,
                      tested >>
  BY DEF AgentsEvent
<1>4. Alone(t) /\ task'[t].at = "classify" /\ task'[t].todo = << Head(Entries[e]) >> /\ Shape(t)'
  <2>1. task \in [Task -> TaskType]  BY DEF Typed
  <2> QED  BY <1>2, <1>3, <2>1, BegunShape, Zenon
<1>5. HistoryTyped'  BY <1>2, <1>3 DEF Typed, HistoryTyped
<1>6. Typed'
  <2>1. inbox' \subseteq Event /\ dups' \in 0 .. cfg.spare  BY <1>3, TakeDoes
  <2>2. rows' \in Table /\ Grows(rows, rows')  BY <1>3, SameGrows DEF Typed
  <2> QED  BY <1>3, <1>4, <1>5, <2>1, <2>2, TypedStep DEF Typed
<1> QED  BY <1>1, <1>3, <1>4, <1>6

LEMMA EventsEventDoes ==
  ASSUME Typed, NEW t \in Task, NEW e \in Event, EventsEvent(t, e)
  PROVE  /\ Typed' /\ Alone(t) /\ task'[t].at = "meta" /\ task'[t].todo = Entries[e]
<1>1. Entries[e] \in Seq(Failure) /\ Entries[e] # << >>  BY ConstantsAssumption
<1>2. /\ task' = [task EXCEPT ![t] = [Idle EXCEPT !.at = "meta", !.todo = Entries[e]]]
      /\ Take(e) /\ UNCHANGED << cfg, rows, queue, history >>
  BY DEF EventsEvent
<1>3. Alone(t) /\ task'[t].at = "meta" /\ task'[t].todo = Entries[e] /\ Shape(t)'
  <2>1. task \in [Task -> TaskType] /\ "meta" # "classify"  BY DEF Typed
  <2> QED  BY <1>1, <1>2, <2>1, BegunShape, Zenon
<1>4. HistoryTyped'  BY <1>2 DEF Typed, HistoryTyped, history
<1>5. Typed'
  <2>1. inbox' \subseteq Event /\ dups' \in 0 .. cfg.spare  BY <1>2, TakeDoes
  <2>2. rows' \in Table /\ Grows(rows, rows')  BY <1>2, SameGrows DEF Typed
  <2> QED  BY <1>2, <1>3, <1>4, <2>1, <2>2, TypedStep DEF Typed
<1> QED  BY <1>3, <1>5

\* A message becomes a coroutine, and one copy of it is gone unless it is doubled.
LEMMA DeliverDoes ==
  ASSUME Typed, NEW t \in Task, NEW m \in Message, Deliver(t, m[1], m[2])
  PROVE  /\ Typed' /\ Moves(t, m[2]) /\ task'[t].at = "accepted" /\ task'[t].next = m[1]
         /\ task[t] = Idle /\ queue[m] > 0
         /\ \A n \in Message : n # m => queue'[n] = queue[n]
         /\ \/ queue'[m] = queue[m] - 1 /\ dups' = dups
            \/ queue'[m] = queue[m] /\ dups' = dups - 1
<1>1. m[1] \in StageName /\ m[2] \in Id \ {0} /\ m = << m[1], m[2] >>  BY DEF Message
<1>2. /\ task[t].at = "idle" /\ queue[m] > 0
      /\ \/ queue' = [queue EXCEPT ![m] = queue[m] - 1] /\ UNCHANGED dups
         \/ dups > 0 /\ dups' = dups - 1 /\ UNCHANGED queue
      /\ task' = [task EXCEPT ![t] = [Idle EXCEPT !.at = "accepted", !.id = m[2], !.next = m[1]]]
      /\ UNCHANGED << cfg, inbox, rows, history >>
  BY <1>1, Zenon DEF Deliver
<1>3. task[t] = Idle /\ task \in [Task -> TaskType] /\ queue[m] \in 0 .. MaxCopies
      /\ MaxCopies \in Nat /\ Holds(rows, m[2])
  BY <1>2, ConstantsAssumption DEF Typed, Shape
<1> DEFINE a == [Idle EXCEPT !.at = "accepted", !.id = m[2], !.next = m[1]]
           b == [[[Idle EXCEPT !.at = "accepted"] EXCEPT !.id = m[2]] EXCEPT !.next = m[1]]
<1>4. a = b  BY SMT DEF Idle
<1>5. [Idle EXCEPT !.at = "accepted"] \in TaskType  BY IdleTyped DEF TaskType, Labels
<1>6. [[Idle EXCEPT !.at = "accepted"] EXCEPT !.id = m[2]] \in TaskType
  BY <1>1, <1>5 DEF TaskType
<1>7. /\ b \in TaskType /\ b.at = "accepted" /\ b.id = m[2] /\ b.next = m[1]
      /\ b.todo = Idle.todo
  BY <1>1, <1>6 DEF TaskType, Idle
<1>8. task' = [task EXCEPT ![t] = a]  BY <1>2
<1> HIDE DEF a, b
<1>9. Moves(t, m[2]) /\ task'[t].at = "accepted" /\ task'[t].next = m[1]
  BY <1>3, <1>4, <1>7, <1>8 DEF Moves, Alone
<1>10. /\ queue' \in [Message -> 0 .. MaxCopies]
       /\ (\A n \in Message : n # m => queue'[n] = queue[n])
       /\ \/ queue'[m] = queue[m] - 1 /\ dups' = dups
          \/ queue'[m] = queue[m] /\ dups' = dups - 1
  <2>1. queue \in [Message -> 0 .. MaxCopies]  BY DEF Typed
  <2> HIDE DEF Message
  <2>2. CASE queue' = [queue EXCEPT ![m] = queue[m] - 1] /\ UNCHANGED dups
    <3>1. queue[m] - 1 \in 0 .. MaxCopies  BY <1>2, <1>3
    <3>2. queue' \in [Message -> 0 .. MaxCopies]  BY <2>1, <2>2, <3>1
    <3>3. queue'[m] = queue[m] - 1 /\ \A n \in Message : n # m => queue'[n] = queue[n]
      BY <2>1, <2>2
    <3>4. dups' = dups  BY <2>2
    <3> QED  BY <3>2, <3>3, <3>4
  <2>3. CASE dups' = dups - 1 /\ UNCHANGED queue
    BY <2>1, <2>3
  <2> QED  BY <1>2, <2>2, <2>3
<1>11. \A n \in Message : queue'[n] > 0 => queue[n] > 0  BY <1>2, <1>10 DEF Typed
<1>12. cfg.spare \in Nat  BY ConstantsAssumption DEF Typed, ConfigType
<1>13. dups' \in 0 .. cfg.spare  BY <1>2, <1>12 DEF Typed
<1>14. Shape(t)'  BY <1>1, <1>2, <1>3, <1>9 DEF Moves, Shape, Carried, StageName, Holds
<1>15. HistoryTyped'  BY <1>2 DEF Typed, HistoryTyped, history
<1>16. Typed'
  BY <1>2, <1>9, <1>10, <1>11, <1>13, <1>14, <1>15, SameGrows, TypedStep DEF Typed, Moves
<1> QED  BY <1>2, <1>3, <1>9, <1>10, <1>16

LEMMA LegacyStageDoes ==
  ASSUME Typed, NEW t \in Task, NEW i \in Id, NEW stage, LegacyStage(t, i, stage)
  PROVE  /\ Typed' /\ task[t].at = "idle" /\ "legacy" \in cfg.doors /\ dups' = dups - 1
         /\ stranded \subseteq stranded'
         /\ \/ \E rs \in Table :
                 /\ Restated(rows, rs, i) /\ Are(rs, i, "CLASSIFIED")
                 /\ Entered(t, rs, "rca", i)
            \/ Entered(t, rows, "fixer", i)
            \/ rows' = rows /\ Moves(t, i) /\ task'[t].at = "test"
<1>1. /\ rows \in Table /\ task \in [Task -> TaskType] /\ task[t].at = "idle"
      /\ "legacy" \in cfg.doors /\ dups > 0 /\ dups' = dups - 1
      /\ UNCHANGED << cfg, inbox, queue, recorded, heard, dropped, uncounted, diagnosed, fixed,
                      tested >>
  BY DEF Typed, LegacyStage
<1>2. Holds(rows, i)
  <2>1. DOMAIN rows = 1 .. Len(rows)  BY <1>1 DEF Table
  <2> QED  BY <2>1 DEF LegacyStage, RowIds, Holds
<1>3. dups' \in 0 .. cfg.spare
  <2>1. cfg.spare \in Nat  BY ConstantsAssumption DEF Typed, ConfigType
  <2> QED  BY <1>1, <2>1 DEF Typed
<1>4. stranded \subseteq Id /\ (stranded' \subseteq Id => HistoryTyped')
  BY <1>1 DEF Typed, HistoryTyped
<1>5. queue' \in [Message -> 0 .. MaxCopies] /\ \A m \in Message : queue'[m] > 0 => queue[m] > 0
  BY <1>1 DEF Typed
<1>6. \/ HandOn(t, SetStatus(rows, i, "CLASSIFIED"), stranded, "rca", i)
      \/ HandOn(t, rows, stranded, "fixer", i)
      \/ At(t, "test", i) /\ rows' = rows /\ stranded' = stranded
  BY DEF LegacyStage
<1>7. CASE HandOn(t, SetStatus(rows, i, "CLASSIFIED"), stranded, "rca", i)
  <2> DEFINE rs == SetStatus(rows, i, "CLASSIFIED")
  <2>1. rs \in Table /\ Restated(rows, rs, i) /\ Are(rs, i, "CLASSIFIED")
    BY <1>1, SetStatusRows DEF PipelineStatus
  <2>2. HandOn(t, rs, stranded, "rca", i)  BY <1>7
  <2> HIDE DEF rs
  <2>3. Grows(rows, rs) /\ Holds(rs, i)  BY <1>1, <1>2, <2>1, RestatedGrows
  <2>4. /\ Entered(t, rs, "rca", i)
        /\ stranded \subseteq stranded' /\ stranded' \subseteq stranded \union {i}
    BY <1>1, <2>1, <2>2, HandOnStep DEF StageName
  <2>5. Typed'
    BY <1>1, <1>3, <1>4, <1>5, <2>1, <2>3, <2>4, EnteredTyped DEF StageName
  <2> QED  BY <1>1, <2>1, <2>4, <2>5
<1>8. CASE HandOn(t, rows, stranded, "fixer", i)
  <2>1. /\ Entered(t, rows, "fixer", i)
        /\ stranded \subseteq stranded' /\ stranded' \subseteq stranded \union {i}
    BY <1>1, <1>8, HandOnStep DEF StageName
  <2>2. Typed'
    BY <1>1, <1>2, <1>3, <1>4, <1>5, <2>1, SameGrows, EnteredTyped DEF StageName
  <2> QED  BY <1>1, <2>1, <2>2
<1>9. CASE At(t, "test", i) /\ rows' = rows /\ stranded' = stranded
  <2>1. Moves(t, i) /\ task'[t].at = "test" /\ Alone(t)
    BY <1>1, <1>9, AtStep DEF Moves, Labels
  <2>2. Shape(t)'  BY <1>2, <1>9, <2>1 DEF Moves, Shape, Carried, Holds
  <2>3. Typed'
    BY <1>1, <1>3, <1>4, <1>5, <1>9, <2>1, <2>2, SameGrows, TypedStep DEF Typed
  <2> QED  BY <1>1, <1>9, <2>1, <2>3
<1> QED  BY <1>6, <1>7, <1>8, <1>9

\* The test of a fix ends it, and may leave an incident that no coroutine has.
LEMMA HandleFixDoes ==
  ASSUME Typed, NEW t \in Task, HandleFix(t)
  PROVE  /\ Typed' /\ Finished(t) /\ task[t].id \in Id \ {0}
         /\ UNCHANGED << cfg, inbox, dups, queue, heard, dropped, uncounted, diagnosed, fixed, tested >>
         /\ \E rs \in Table :
              /\ Restated(rows, rs, task[t].id) /\ Are(rs, task[t].id, "FIX_FAILED_RUNTIME")
              /\ \/ rows' = rs /\ stranded' = stranded
                 \/ \E s \in Sig, j \in Numbers(rs) :
                      Inserted(rs, rows', j, s, "CLASSIFIED") /\ stranded' = stranded \union {j}
<1>1. /\ rows \in Table /\ task \in [Task -> TaskType] /\ cfg \in Configs /\ task[t].at = "test"
      /\ UNCHANGED << cfg, inbox, dups, queue, heard, dropped, uncounted, diagnosed, fixed, tested >>
  BY DEF Typed, HandleFix
<1>2. task[t].id \in Id \ {0} /\ Finished(t)
  BY <1>1, CarriedId, FinishStep DEF HandleFix
<1> DEFINE rs == SetStatus(rows, task[t].id, "FIX_FAILED_RUNTIME")
<1>3. rs \in Table /\ Restated(rows, rs, task[t].id) /\ Are(rs, task[t].id, "FIX_FAILED_RUNTIME")
  BY <1>1, SetStatusRows DEF PipelineStatus, Terminal
<1>4. \/ rows' = rs /\ UNCHANGED << recorded, stranded >>
      \/ /\ Len(rows) < MaxRows
         /\ \E s \in Sig, j \in Numbers(rs) :
              /\ rows' = Append(rs, [NewRow(j, s, "CLASSIFIED") EXCEPT !.group = NoSig])
              /\ stranded' = stranded \union {j}
         /\ recorded' = recorded + 1
  BY DEF HandleFix
<1> HIDE DEF rs
<1>5. Grows(rows, rs) /\ Len(rs) = Len(rows)  BY <1>1, <1>3, RestatedGrows DEF Restated
<1>6. CASE rows' = rs /\ UNCHANGED << recorded, stranded >>
  <2>1. HistoryTyped'  BY <1>1, <1>6 DEF Typed, HistoryTyped
  <2>2. Typed'  BY <1>1, <1>2, <1>3, <1>5, <1>6, <2>1, FinishedTyped
  <2> QED  BY <1>1, <1>2, <1>3, <1>6, <2>2
<1>7. CASE /\ Len(rows) < MaxRows /\ recorded' = recorded + 1
           /\ \E s \in Sig, j \in Numbers(rs) :
                /\ rows' = Append(rs, [NewRow(j, s, "CLASSIFIED") EXCEPT !.group = NoSig])
                /\ stranded' = stranded \union {j}
  <2>1. PICK s \in Sig, j \in Numbers(rs) :
          /\ rows' = Append(rs, [NewRow(j, s, "CLASSIFIED") EXCEPT !.group = NoSig])
          /\ stranded' = stranded \union {j}
    BY <1>7
  <2>2. j \in 1 .. Len(rs) + 1  BY <1>3, NumbersSmall
  <2>3. rows' \in Table /\ Inserted(rs, rows', j, s, "CLASSIFIED")
    BY <1>1, <1>3, <1>5, <1>7, <2>1, <2>2, InsertedRow DEF PipelineStatus
  <2>4. j \in Id
    <3>1. Len(rs) \in Nat  BY <1>3 DEF Table
    <3> QED  BY <1>5, <1>7, <2>2, <3>1, ConstantsAssumption DEF Id
  <2>5. HistoryTyped'  BY <1>1, <1>7, <2>1, <2>4 DEF Typed, HistoryTyped
  <2>6. Grows(rows, rows')
    <3>1. Grows(rs, rows')  BY <1>3, <2>3, InsertedGrows
    <3> QED  BY <1>3, <1>5, <2>3, <3>1 DEF Grows, Table
  <2>7. Typed'  BY <1>1, <1>2, <2>3, <2>5, <2>6, FinishedTyped
  <2> QED  BY <1>1, <1>2, <1>3, <2>1, <2>3, <2>7
<1> QED  BY <1>4, <1>6, <1>7

LEMMA WindowPassesDoes ==
  ASSUME Typed, NEW k \in DOMAIN rows, WindowPasses(k)
  PROVE  /\ Typed' /\ Len(rows') = Len(rows)
         /\ \A j \in 1 .. Len(rows) :
              /\ rows'[j].id = rows[j].id /\ rows'[j].sig = rows[j].sig /\ rows'[j].group = rows[j].group
              /\ rows'[j].act = rows[j].act /\ rows'[j].st = rows[j].st
              /\ rows'[j].n = rows[j].n
<1>1. /\ rows \in Seq(Row) /\ Len(rows) \in Nat /\ Len(rows) <= MaxRows /\ Dense(rows)
      /\ DOMAIN rows = 1 .. Len(rows)
  BY DEF Typed, Table
<1>2. \A j \in 1 .. Len(rows) : rows[j] \in Row  BY <1>1
<1>3. [rows[k] EXCEPT !.fresh = FALSE] \in Row  BY <1>1, <1>2, ZenonT(40) DEF Row
<1>4. rows' = [rows EXCEPT ![k] = [rows[k] EXCEPT !.fresh = FALSE]]
      /\ UNCHANGED << cfg, inbox, dups, queue, task, history >>
  BY <1>1, <1>2 DEF WindowPasses, Row
<1>5. rows' \in Seq(Row) /\ Len(rows') = Len(rows)  BY <1>1, <1>3, <1>4
<1>6. \A j \in 1 .. Len(rows) :
        /\ rows'[j].id = rows[j].id /\ rows'[j].sig = rows[j].sig /\ rows'[j].group = rows[j].group
        /\ rows'[j].act = rows[j].act /\ rows'[j].st = rows[j].st
        /\ rows'[j].n = rows[j].n
  BY <1>1, <1>2, <1>4 DEF Row
<1>7. rows' \in Table  BY <1>1, <1>5, <1>6 DEF Table, Dense
<1>8. \A i : Holds(rows, i) => Holds(rows', i)  BY <1>1, <1>5, <1>6 DEF Holds
<1>9. HistoryTyped'  BY <1>4 DEF Typed, HistoryTyped, history
<1>10. \A t \in Task : Shape(t)'
  BY <1>1, <1>4, <1>5, <1>8 DEF Typed, Shape, Carried
<1>11. Typed'
  <2>1. \A m \in Message : queue'[m] > 0 => Holds(rows', m[2])  BY <1>4, <1>8 DEF Typed
  <2>2. UNCHANGED << cfg, inbox, dups, queue, task >>  BY <1>4
  <2> QED  BY <1>7, <1>9, <1>10, <2>1, <2>2 DEF Typed, Holds
<1> QED  BY <1>5, <1>6, <1>11

LEMMA RestartDoes ==
  ASSUME Typed, Restart
  PROVE  /\ Typed' /\ \A t \in Task : task'[t] = Idle
         /\ dropped' = dropped \union UNION { Pending(t) : t \in Task }
         /\ stranded' = stranded \union UNION { Carried(t) : t \in Task }
         /\ UNCHANGED << cfg, inbox, dups, rows, queue, recorded, heard, uncounted, diagnosed, fixed,
                        tested >>
<1>1. /\ task' = [t \in Task |-> Idle]
      /\ dropped' = dropped \union UNION { Pending(t) : t \in Task }
      /\ stranded' = stranded \union UNION { Carried(t) : t \in Task }
      /\ UNCHANGED << cfg, inbox, dups, rows, queue, recorded, heard, uncounted, diagnosed, fixed,
                        tested >>
  BY DEF Restart
<1>2. task' \in [Task -> TaskType] /\ \A t \in Task : task'[t] = Idle  BY <1>1, IdleTyped
<1>3. \A t \in Task : Shape(t)'  BY <1>2 DEF Shape, Carried, Idle
<1>4. \A t \in Task : Pending(t) \subseteq Failure
  <2> TAKE t \in Task
  <2>1. task[t].todo \in Seq(Failure)  BY DEF Typed, TaskType
  <2>2. CASE task[t].todo = << >>
    BY <2>2 DEF Pending, Range
  <2>3. CASE task[t].todo # << >>
    <3>1. Range(task[t].todo) \subseteq Failure
          /\ Range(task[t].todo) = { Head(task[t].todo) } \union Range(Tail(task[t].todo))
      BY <2>1, <2>3, ListParts
    <3> QED  BY <3>1 DEF Pending
  <2> QED  BY <2>2, <2>3
<1>5. \A t \in Task : Carried(t) \subseteq Id  BY DEF Typed, TaskType, Carried
<1>6. HistoryTyped'  BY <1>1, <1>4, <1>5 DEF Typed, HistoryTyped
<1>7. \A m \in Message : queue'[m] > 0 => Holds(rows', m[2])  BY <1>1 DEF Typed, Holds
<1>8. Typed'  BY <1>1, <1>2, <1>3, <1>6, <1>7 DEF Typed
<1> QED  BY <1>1, <1>2, <1>8

-----------------------------------------------------------------------------
(* Every step, by its effect *)

\* The steps that are not the end of a stage.
Works(t) ==
    \/ PublishOk(t) \/ PublishFails(t) \/ StartStage(t) \/ ObserverDone(t) \/ RcaDone(t)
    \/ Replayed(t) \/ FixSucceeded(t) \/ Verified(t) \/ HandleFix(t)
    \/ AgentsDetect(t) \/ AgentsRaises(t) \/ EventsDetect(t) \/ EventsCreate(t) \/ EventsRaises(t)

\* What may happen outside the coroutines.
Begins ==
    \/ \E t \in Task, e \in Event : AgentsEvent(t, e) \/ EventsEvent(t, e)
    \/ \E t \in Task, m \in Message : Deliver(t, m[1], m[2])
    \/ \E t \in Task, i \in Id, stage \in { "classified", "rca", "fix" } : LegacyStage(t, i, stage)

LEMMA StepCases ==
  ASSUME [Next]_vars
  PROVE  \/ \E t \in Task : Works(t) \/ Ends(t)
         \/ Begins
         \/ \E k \in DOMAIN rows : WindowPasses(k)
         \/ Restart
         \/ UNCHANGED vars
  BY DEF Next, Step, DoorStep, StageStep, DeliverSome, Works, Ends, Begins

\* Everything keeps its type and every coroutine its shape.
LEMMA Inductive ==
  ASSUME Typed, [Next]_vars PROVE Typed'
<1>1. ASSUME NEW t \in Task, Works(t) PROVE Typed'
  BY <1>1, PublishOkDoes, PublishFailsDoes, StartStageDoes, ObserverDoneDoes, RcaDoneDoes,
     ReplayedDoes, FixSucceededDoes, VerifiedDoes, HandleFixDoes, AgentsDetectDoes,
     AgentsRaisesDoes, EventsDetectDoes, EventsCreateDoes, EventsRaisesDoes, Zenon DEF Works
<1>2. ASSUME NEW t \in Task, Ends(t) PROVE Typed'
  BY <1>2, EndsDoes
<1>3. ASSUME Begins PROVE Typed'
  BY <1>3, AgentsEventDoes, EventsEventDoes, DeliverDoes, LegacyStageDoes, Zenon DEF Begins
<1>4. ASSUME NEW k \in DOMAIN rows, WindowPasses(k) PROVE Typed'
  BY <1>4, WindowPassesDoes
<1>5. CASE Restart
  BY <1>5, RestartDoes
<1>6. CASE UNCHANGED vars
  BY <1>6, Zenon DEF vars, history, Typed, HistoryTyped, Shape, Carried, Holds
<1> QED  BY <1>1, <1>2, <1>3, <1>4, <1>5, <1>6, StepCases

\* TypeOK is an invariant.  It needs Typed: a number taken for a new incident is small because
\* no row has a greater one than there are rows, and an incident handed on exists.
THEOREM TypeCorrect == Spec => []TypeOK
<1>1. Init => Typed  BY InitTyped
<1>2. Typed /\ [Next]_vars => Typed'  BY Inductive
<1>3. Typed => TypeOK  BY TypedImpliesTypeOK
<1> QED  BY <1>1, <1>2, <1>3, PTL DEF Spec

-----------------------------------------------------------------------------
(* No incident is forgotten *)

\* The coroutine takes its incident to the verifier, which need not settle it.
ToVerifier(t) ==
    task[t].at = "verify" \/ (task[t].at \in { "publish", "accepted" } /\ task[t].next = "verifier")

\* The incident a coroutine will hand on, settle or strand.
Working(t) == IF task[t].at = "test" \/ ToVerifier(t) THEN {} ELSE Carried(t)

Covered(i) ==
    \/ \E t \in Task : i \in Working(t)
    \/ \E s \in StageName \ {"verifier"} : queue[<< s, i >>] > 0
    \/ i \in stranded

\* A row numbered i is not at rest.
Unsettled(rs, i) == \E k \in 1 .. Len(rs) : rs[k].id = i /\ rs[k].st \in Moving

\* The inductive form of NoIncidentForgotten: a coroutine or a message of the verifier does not
\* count, since the verifier may leave the status as it is.
Worked == \A i \in Id \ {0} : Unsettled(rows, i) => Covered(i)

LEMMA WorkedImpliesNoIncidentForgotten ==
  ASSUME Typed, Worked PROVE NoIncidentForgotten
<1>1. DOMAIN rows = 1 .. Len(rows)  BY DEF Typed, Table
<1>2. \A t \in Task : Working(t) \subseteq Carried(t)  BY DEF Working
<1> SUFFICES ASSUME NEW k \in 1 .. Len(rows), rows[k].st \in Moving
             PROVE  Covered(rows[k].id)
  BY <1>1, <1>2 DEF NoIncidentForgotten, Covered
<1>3. rows[k] \in Row  BY DEF Typed, Table
<1>4. rows[k].id \in Id \ {0}  BY <1>3 DEF Row
<1> QED  BY <1>4 DEF Worked, Unsettled

\* An incident the coroutine t does not work on stays with those that have it.
LEMMA StillCovered ==
  ASSUME NEW t \in Task, Alone(t), NEW i, Covered(i),
         i \in Working(t) => i \in stranded', i \in stranded => i \in stranded',
         \A s \in StageName \ {"verifier"} : queue[<< s, i >>] > 0 => queue'[<< s, i >>] > 0
  PROVE  Covered(i)'
<1>1. CASE i \in stranded'  BY <1>1 DEF Covered
<1>2. CASE \E s \in StageName \ {"verifier"} : queue[<< s, i >>] > 0
  BY <1>2 DEF Covered
<1>3. ASSUME NEW u \in Task, u # t, i \in Working(u) PROVE Covered(i)'
  <2>1. Working(u)' = Working(u)  BY <1>3 DEF Alone, Working, ToVerifier, Carried
  <2> QED  BY <1>3, <2>1 DEF Covered
<1> QED  BY <1>1, <1>2, <1>3 DEF Covered

\* What a step of t leaves to the others: every incident but j.
LEMMA OthersCovered ==
  ASSUME Worked, NEW t \in Task, Alone(t), NEW j, Working(t) \subseteq {j},
         stranded \subseteq stranded' \union {j},
         \A m \in Message : m[1] # "verifier" /\ queue[m] > 0 => queue'[m] > 0 \/ m[2] = j
  PROVE  \A i \in Id \ {0} : i # j /\ Unsettled(rows, i) => Covered(i)'
<1> SUFFICES ASSUME NEW i \in Id \ {0}, i # j, Unsettled(rows, i) PROVE Covered(i)'
  OBVIOUS
<1>1. Covered(i)  BY DEF Worked
<1>2. \A s \in StageName \ {"verifier"} : queue[<< s, i >>] > 0 => queue'[<< s, i >>] > 0
  BY DEF Message
<1> QED  BY <1>1, <1>2, StillCovered

\* The step of a coroutine that was not working on an incident, in a table where no other
\* incident becomes unsettled.
LEMMA IdleWorked ==
  ASSUME Worked, NEW t \in Task, Alone(t), Working(t) = {},
         \A i \in Id \ {0} : Unsettled(rows', i) => Unsettled(rows, i),
         stranded \subseteq stranded',
         \A m \in Message : m[1] # "verifier" /\ queue[m] > 0 => queue'[m] > 0
  PROVE  Worked'
<1> SUFFICES ASSUME NEW i \in Id \ {0}, Unsettled(rows', i) PROVE Covered(i)'
  BY DEF Worked, Unsettled
<1>1. 0 \notin Id \ {0}  OBVIOUS
<1>2. \A j \in Id \ {0} : j # 0 /\ Unsettled(rows, j) => Covered(j)'
  BY OthersCovered
<1> QED  BY <1>1, <1>2

\* A coroutine that hands incident i on to a stage.
LEMMA EnteredWorked ==
  ASSUME NEW t \in Task, NEW rs \in Table, NEW i \in Id, NEW stage \in StageName,
         Entered(t, rs, stage, i),
         \A j \in Id \ {0} :
           Unsettled(rs, j) /\ (j # i \/ stage = "verifier") => Covered(j)'
  PROVE  Worked'
<1> SUFFICES ASSUME NEW j \in Id \ {0}, Unsettled(rows', j) PROVE Covered(j)'
  BY DEF Worked, Unsettled
<1>1. CASE j # i
  <2>1. Unsettled(rs, j)  BY <1>1 DEF Unsettled, Entered, Restated
  <2> QED  BY <1>1, <2>1
<1>2. CASE stage = "verifier"
  <2>1. rows' = rs  BY <1>2 DEF Entered
  <2> QED  BY <1>2, <2>1
<1>3. CASE j = i /\ stage # "verifier"
  <2>1. ~Are(rows', i, "AWAITING_APPROVAL")
    BY <1>3 DEF Are, Moving, InProgress, Unsettled
  <2>2. CASE i \in stranded'  BY <1>3, <2>2 DEF Covered
  <2>3. CASE /\ task'[t].id = i
             /\ task'[t].at \in { "publish", "observe", "rca", "replay", "fixticket", "fix" }
             /\ task'[t].at = "publish" => task'[t].next # "verifier"
    <3>1. i \in Working(t)'  BY <2>3 DEF Working, ToVerifier, Carried
    <3> QED  BY <1>3, <3>1 DEF Covered
  <2> QED  BY <1>3, <2>1, <2>2, <2>3 DEF Entered, Decided, Moves
<1> QED  BY <1>1, <1>2, <1>3

\* What an incident number means in tables that differ in the rows numbered i only.
LEMMA UnsettledRows ==
  ASSUME NEW rs, NEW r2, NEW i
  PROVE  /\ Restated(rs, r2, i) => \A j : j # i /\ Unsettled(r2, j) => Unsettled(rs, j)
         /\ \A st \in Resting : Are(r2, i, st) => ~Unsettled(r2, i)
         /\ Recounted(rs, r2) => \A j : Unsettled(r2, j) <=> Unsettled(rs, j)
<1>1. Restated(rs, r2, i) => \A j : j # i /\ Unsettled(r2, j) => Unsettled(rs, j)
  BY DEF Restated, Unsettled
<1>2. \A st \in Resting : Are(r2, i, st) => ~Unsettled(r2, i)
  BY DEF Are, Unsettled, Resting
<1>3. Recounted(rs, r2) => \A j : Unsettled(r2, j) <=> Unsettled(rs, j)
  BY DEF Recounted, Unsettled
<1> QED  BY <1>1, <1>2, <1>3

\* A new row is at rest or is that of incident i.
LEMMA InsertedUnsettled ==
  ASSUME NEW rs \in Table, NEW r2, NEW i, NEW s, NEW st, Inserted(rs, r2, i, s, st)
  PROVE  /\ \A j : j # i /\ Unsettled(r2, j) => Unsettled(rs, j)
         /\ st \in Resting => \A j : Unsettled(r2, j) => Unsettled(rs, j)
<1>1. Len(rs) \in Nat  BY DEF Table
<1>2. \A k \in 1 .. Len(r2) : k \in 1 .. Len(rs) \/ k = Len(rs) + 1  BY <1>1 DEF Inserted
<1> QED  BY <1>1, <1>2 DEF Inserted, Unsettled, Resting

\* Messages are only added.
LEMMA AcceptKeeps ==
  ASSUME queue \in [Message -> 0 .. MaxCopies], NEW stage \in StageName, NEW i \in Id \ {0},
         Accept(stage, i)
  PROVE  (\A m \in Message : queue[m] > 0 => queue'[m] > 0) /\ queue'[<< stage, i >>] > 0
<1>1. \A m \in Message : m # << stage, i >> => queue'[m] = queue[m]  BY AcceptStep
<1>2. queue'[<< stage, i >>] > 0  BY AcceptStep
<1> QED  BY <1>1, <1>2

LEMMA WorkingIs ==
  ASSUME Typed, NEW t \in Task
  PROVE  /\ Working(t) \subseteq Carried(t)
         /\ Carried(t) \subseteq { task[t].id }
         /\ task[t].at \in { "idle", "classify", "meta", "breaker", "lookup", "test", "verify" } => Working(t) = {}
         /\ ToVerifier(t) => Working(t) = {}
  BY DEF Working, Carried, ToVerifier

\* The stages keep it.
LEMMA StagesWorked ==
  ASSUME Typed, Worked, NEW t \in Task
  PROVE  /\ PublishOk(t) => Worked'
         /\ PublishFails(t) => Worked'
         /\ StartStage(t) => Worked'
         /\ ObserverDone(t) => Worked'
         /\ RcaDone(t) => Worked'
         /\ FixSucceeded(t) => Worked'
<1>0. PICK i : i = task[t].id  OBVIOUS
<1>1. Working(t) \subseteq {i}  BY <1>0, WorkingIs
<1>2. rows \in Table /\ queue \in [Message -> 0 .. MaxCopies]  BY DEF Typed
<1>3. ASSUME Alone(t), stranded \subseteq stranded', \A m \in Message : queue[m] > 0 => queue'[m] > 0
      PROVE  \A j \in Id \ {0} : j # i /\ Unsettled(rows, j) => Covered(j)'
  BY <1>1, <1>3, OthersCovered
<1>4. ASSUME PublishOk(t) PROVE Worked'
  <2>1. /\ Finished(t) /\ Alone(t) /\ rows' = rows
        /\ task[t].next \in StageName /\ i \in Id \ {0} /\ Accept(task[t].next, i)
        /\ task[t].at = "publish" /\ stranded' = stranded
    BY <1>0, <1>4, PublishOkDoes DEF Finished, PublishOk, history
  <2>2. (\A m \in Message : queue[m] > 0 => queue'[m] > 0) /\ queue'[<< task[t].next, i >>] > 0
    BY <1>2, <2>1, AcceptKeeps
  <2>3. CASE task[t].next = "verifier"
    <3>1. Working(t) = {}  BY <2>1, <2>3, WorkingIs DEF ToVerifier
    <3> QED  BY <2>1, <2>2, <3>1, IdleWorked
  <2>4. CASE task[t].next # "verifier"
    <3>1. Covered(i)'  BY <2>1, <2>2, <2>4 DEF Covered
    <3>2. \A j \in Id \ {0} : Unsettled(rows, j) => Covered(j)'  BY <1>3, <2>1, <2>2, <3>1
    <3> QED  BY <2>1, <3>2 DEF Worked, Unsettled
  <2> QED  BY <2>3, <2>4
<1>5. ASSUME task[t].next \in StageName, i \in Id \ {0}, Entered(t, rows, task[t].next, i),
             task[t].at \in { "publish", "accepted" }, stranded \subseteq stranded',
             \A m \in Message : queue[m] > 0 => queue'[m] > 0
      PROVE  Worked'
  <2>1. Alone(t)  BY <1>5 DEF Entered, Decided, Moves, Finished
  <2>2. \A j \in Id \ {0} : j # i /\ Unsettled(rows, j) => Covered(j)'  BY <1>3, <1>5, <2>1
  <2>3. ASSUME task[t].next = "verifier" PROVE Unsettled(rows, i) => Covered(i)'
    <3>1. Working(t) = {}  BY <1>5, <2>3, WorkingIs DEF ToVerifier
    <3>2. Working(t) \subseteq {0} /\ i # 0  BY <1>5, <3>1
    <3>3. stranded \subseteq stranded' \union {0}  BY <1>5
    <3> QED  BY <1>5, <2>1, <3>2, <3>3, OthersCovered
  <2> QED  BY <1>2, <1>5, <2>2, <2>3, EnteredWorked
<1>6. ASSUME PublishFails(t) PROVE Worked'
  <2>1. /\ task[t].next \in StageName /\ i \in Id \ {0} /\ Entered(t, rows, task[t].next, i)
        /\ queue' = queue \/ Accept(task[t].next, i)
        /\ stranded \subseteq stranded'
    BY <1>0, <1>6, PublishFailsDoes
  <2>2. \A m \in Message : queue[m] > 0 => queue'[m] > 0
    BY <1>2, <2>1, AcceptKeeps
  <2>3. task[t].at = "publish"  BY <1>6 DEF PublishFails
  <2> QED  BY <1>5, <2>1, <2>2, <2>3
<1>7. ASSUME StartStage(t) PROVE Worked'
  <2>1. /\ task[t].next \in StageName /\ i \in Id \ {0} /\ Entered(t, rows, task[t].next, i)
        /\ stranded \subseteq stranded'
    BY <1>0, <1>7, StartStageDoes
  <2>2. task[t].at = "accepted" /\ queue' = queue  BY <1>7 DEF StartStage
  <2> QED  BY <1>5, <2>1, <2>2
<1>8. ASSUME NEW rs \in Table, NEW stage \in StageName, i \in Id \ {0}, Entered(t, rs, stage, i),
             \A j : j # i /\ Unsettled(rs, j) => Unsettled(rows, j),
             stage = "verifier" => ~Unsettled(rs, i),
             stranded \subseteq stranded', queue' = queue
      PROVE  Worked'
  <2>1. Alone(t)  BY <1>8 DEF Entered, Decided, Moves, Finished
  <2>2. \A j \in Id \ {0} : j # i /\ Unsettled(rows, j) => Covered(j)'  BY <1>3, <1>8, <2>1
  <2> QED  BY <1>8, <2>2, EnteredWorked
<1>9. ASSUME ObserverDone(t) PROVE Worked'
  <2>1. PICK rs \in Table :
          /\ i \in Id \ {0} /\ Len(rs) = Len(rows)
          /\ \A k \in 1 .. Len(rows) : rs[k].id = rows[k].id /\ rs[k].st = rows[k].st
          /\ Entered(t, rs, "rca", i)
    BY <1>0, <1>9, ObserverDoneDoes
  <2>2. \A j : j # i /\ Unsettled(rs, j) => Unsettled(rows, j)  BY <2>1 DEF Unsettled
  <2>3. stranded \subseteq stranded' /\ queue' = queue  BY <1>9, ObserverDoneDoes DEF ObserverDone
  <2> QED  BY <1>8, <2>1, <2>2, <2>3 DEF StageName
<1>10. ASSUME RcaDone(t) PROVE Worked'
  <2>1. PICK rs \in Table :
          /\ i \in Id \ {0} /\ Len(rs) = Len(rows)
          /\ \A k \in 1 .. Len(rows) :
               rs[k].id = rows[k].id /\ (rs[k].id # i => rs[k].st = rows[k].st)
          /\ Entered(t, rs, "fixer", i)
    BY <1>0, <1>10, RcaDoneDoes
  <2>2. \A j : j # i /\ Unsettled(rs, j) => Unsettled(rows, j)  BY <2>1 DEF Unsettled
  <2>3. stranded \subseteq stranded' /\ queue' = queue  BY <1>10, RcaDoneDoes DEF RcaDone
  <2> QED  BY <1>8, <2>1, <2>2, <2>3 DEF StageName
<1>11. ASSUME FixSucceeded(t) PROVE Worked'
  <2>1. PICK rs \in Table, st \in Resting \intersect Terminal :
          /\ i \in Id \ {0} /\ Restated(rows, rs, i) /\ Are(rs, i, st)
          /\ Entered(t, rs, "verifier", i)
    BY <1>0, <1>11, FixSucceededDoes
  <2>2. (\A j : j # i /\ Unsettled(rs, j) => Unsettled(rows, j)) /\ ~Unsettled(rs, i)
    BY <2>1, UnsettledRows
  <2>3. stranded \subseteq stranded' /\ queue' = queue  BY <1>11, FixSucceededDoes DEF FixSucceeded
  <2> QED  BY <1>8, <2>1, <2>2, <2>3 DEF StageName
<1> QED  BY <1>4, <1>6, <1>7, <1>9, <1>10, <1>11

\* So do the ends of a stage, the replay, the verifier and the test of a fix.
LEMMA SettledWorked ==
  ASSUME Typed, Worked, NEW t \in Task
  PROVE  /\ Ends(t) => Worked'
         /\ Replayed(t) => Worked'
         /\ Verified(t) => Worked'
         /\ HandleFix(t) => Worked'
<1>0. PICK i : i = task[t].id  OBVIOUS
<1>1. Working(t) \subseteq {i} /\ rows \in Table  BY <1>0, WorkingIs DEF Typed
<1>2. ASSUME Alone(t), stranded \subseteq stranded', queue' = queue,
             \A j \in Id \ {0} : j # i /\ Unsettled(rows', j) => Unsettled(rows, j),
             Unsettled(rows', i) => Covered(i)'
      PROVE  Worked'
  <2>1. \A j \in Id \ {0} : j # i /\ Unsettled(rows, j) => Covered(j)'
    BY <1>1, <1>2, OthersCovered
  <2>2. \A j \in Id \ {0} : Unsettled(rows', j) => Covered(j)'  BY <1>2, <2>1
  <2> QED  BY <2>2 DEF Worked, Unsettled
<1>3. ASSUME Ends(t) PROVE Worked'
  <2>1. EndedAt(t, i) /\ queue' = queue /\ stranded \subseteq stranded'
    BY <1>0, <1>3, EndsDoes
  <2>2. Unsettled(rows', i) => Covered(i)'
    BY <2>1, UnsettledRows DEF EndedAt, Covered
  <2>3. Alone(t) /\ \A j : j # i /\ Unsettled(rows', j) => Unsettled(rows, j)
    BY <2>1, UnsettledRows DEF EndedAt, Finished
  <2> QED  BY <1>2, <2>1, <2>2, <2>3
<1>4. ASSUME Replayed(t) PROVE Worked'
  <2>1. /\ rows' \in Table /\ Restated(rows, rows', i)
        /\ \/ Finished(t) /\ Are(rows', i, "RETRIED")
           \/ Decided(t, rows, i, task[t].act)
    BY <1>0, <1>4, ReplayedDoes
  <2>2. stranded' = stranded /\ queue' = queue  BY <1>4 DEF Replayed, history
  <2>3. "RETRIED" \in Resting /\ "AWAITING_APPROVAL" \in Resting
    BY DEF Resting, PipelineStatus, Terminal, FixFailed, Moving, InProgress
  <2>4. Unsettled(rows', i) => Covered(i)'
    <3>1. CASE Are(rows', i, "RETRIED") \/ Are(rows', i, "AWAITING_APPROVAL")
      BY <2>3, <3>1, UnsettledRows
    <3>2. CASE Moves(t, i) /\ task'[t].at \in { "fixticket", "fix" }
      <4>1. i \in Working(t)'  BY <3>2 DEF Moves, Working, ToVerifier, Carried
      <4> QED  BY <4>1 DEF Covered
    <3> QED  BY <2>1, <3>1, <3>2 DEF Decided
  <2>5. Alone(t) /\ \A j : j # i /\ Unsettled(rows', j) => Unsettled(rows, j)
    BY <2>1, UnsettledRows DEF Decided, Moves, Finished
  <2> QED  BY <1>2, <2>2, <2>4, <2>5
<1>5. ASSUME Verified(t) PROVE Worked'
  <2>1. /\ Finished(t) /\ Restated(rows, rows', i)
        /\ rows' = rows \/ \E st \in Resting \intersect Terminal : Are(rows', i, st)
    BY <1>0, <1>5, VerifiedDoes
  <2>2. Working(t) = {} /\ stranded' = stranded /\ queue' = queue  BY <1>5, WorkingIs DEF Verified
  <2>3. \A j \in Id \ {0} : Unsettled(rows', j) => Unsettled(rows, j)
    BY <2>1, UnsettledRows
  <2> QED  BY <2>1, <2>2, <2>3, IdleWorked DEF Finished
<1>6. ASSUME HandleFix(t) PROVE Worked'
  <2>1. Finished(t) /\ queue' = queue  BY <1>6, HandleFixDoes
  <2>2. PICK rs \in Table :
          /\ Restated(rows, rs, i) /\ Are(rs, i, "FIX_FAILED_RUNTIME")
          /\ \/ rows' = rs /\ stranded' = stranded
             \/ \E s \in Sig, j \in Numbers(rs) :
                  Inserted(rs, rows', j, s, "CLASSIFIED") /\ stranded' = stranded \union {j}
    BY <1>0, <1>6, HandleFixDoes
  <2>3. Working(t) = {} /\ "FIX_FAILED_RUNTIME" \in Resting
    BY <1>6, WorkingIs DEF HandleFix, Resting, PipelineStatus, Terminal, FixFailed, Moving, InProgress
  <2>4. \A j : Unsettled(rs, j) => Unsettled(rows, j)  BY <2>2, <2>3, UnsettledRows
  <2>5. CASE rows' = rs /\ stranded' = stranded
    <3>1. \A j \in Id \ {0} : Unsettled(rows', j) => Unsettled(rows, j)  BY <2>4, <2>5
    <3> QED  BY <2>1, <2>3, <2>5, <3>1, IdleWorked DEF Finished
  <2>6. ASSUME NEW s, NEW j, Inserted(rs, rows', j, s, "CLASSIFIED"),
               stranded' = stranded \union {j}
        PROVE  Worked'
    <3>1. \A l : l # j /\ Unsettled(rows', l) => Unsettled(rows, l)
      BY <2>2, <2>4, <2>6, InsertedUnsettled
    <3>2. Covered(j)'  BY <2>6 DEF Covered
    <3>3. Alone(t)  BY <2>1 DEF Finished
    <3>4. \A l \in Id \ {0} : l # j /\ Unsettled(rows, l) => Covered(l)'
      BY <2>1, <2>3, <2>6, <3>3, OthersCovered
    <3>5. \A l \in Id \ {0} : Unsettled(rows', l) => Covered(l)'  BY <3>1, <3>2, <3>4
    <3> QED  BY <3>5 DEF Worked, Unsettled
  <2> QED  BY <2>2, <2>5, <2>6
<1> QED  BY <1>3, <1>4, <1>5, <1>6

\* So do the doors.
LEMMA DoorsWorked ==
  ASSUME Typed, Worked, NEW t \in Task
  PROVE  /\ AgentsDetect(t) => Worked'
         /\ AgentsRaises(t) => Worked'
         /\ EventsDetect(t) => Worked'
         /\ EventsCreate(t) => Worked'
         /\ EventsRaises(t) => Worked'
<1>1. rows \in Table  BY DEF Typed
<1>2. ASSUME NEW f, Correlated(t, f), Working(t) = {}, queue' = queue PROVE Worked'
  <2>1. PICK k \in 1 .. Len(rows), rs \in Table : Recounted(rows, rs) /\ Resumed(t, rs, k)
    BY <1>2 DEF Correlated, Tried
  <2>2. \A j : Unsettled(rs, j) <=> Unsettled(rows, j)  BY <2>1, UnsettledRows
  <2>3. CASE Finished(t) /\ rows' = rs /\ stranded' = stranded
    <3>1. \A j \in Id \ {0} : Unsettled(rows', j) => Unsettled(rows, j)  BY <2>2, <2>3
    <3> QED  BY <1>2, <2>3, <3>1, IdleWorked DEF Finished
  <2>4. CASE /\ \E stage \in { "rca", "fixer" } : Entered(t, rs, stage, rs[k].id)
             /\ stranded \subseteq stranded' \union { rs[k].id }
    <3>1. PICK stage \in { "rca", "fixer" } : Entered(t, rs, stage, rs[k].id)  BY <2>4
    <3>2. PICK i : i = rs[k].id  OBVIOUS
    <3>3. rs[k] \in Row  BY <2>1 DEF Recounted, Table
    <3>4. i \in Id /\ stage \in StageName  BY <3>2, <3>3 DEF Row, StageName
    <3>5. Alone(t)  BY <3>1 DEF Entered, Decided, Moves, Finished
    <3>6. \A j \in Id \ {0} : j # i /\ Unsettled(rows, j) => Covered(j)'
      BY <1>2, <2>4, <3>2, <3>5, OthersCovered
    <3> QED  BY <2>2, <3>1, <3>2, <3>4, <3>6, EnteredWorked
  <2> QED  BY <2>1, <2>3, <2>4 DEF Resumed
<1>3. ASSUME NEW f, Absorbed(t, f), Working(t) = {}, queue' = queue PROVE Worked'
  <2>1. \A j \in Id \ {0} : Unsettled(rows', j) => Unsettled(rows, j)
    <3>1. PICK r2 : r2 = rows'  OBVIOUS
    <3>2. Recounted(rows, r2)  BY <1>3, <3>1 DEF Absorbed, Tried
    <3> QED  BY <3>1, <3>2, UnsettledRows
  <2> QED  BY <1>3, <2>1, IdleWorked DEF Absorbed, Finished
<1>4. ASSUME NEW rs \in Table, NEW i \in Id, NEW s, NEW st, Inserted(rows, rs, i, s, st),
             Entered(t, rs, "observer", i), Working(t) = {}, queue' = queue, stranded \subseteq stranded'
      PROVE  Worked'
  <2>1. \A j : j # i /\ Unsettled(rs, j) => Unsettled(rows, j)  BY <1>1, <1>4, InsertedUnsettled
  <2>2. Alone(t)  BY <1>4 DEF Entered, Decided, Moves, Finished
  <2>3. \A j \in Id \ {0} : j # i /\ Unsettled(rows, j) => Covered(j)'
    BY <1>4, <2>2, OthersCovered
  <2> QED  BY <1>4, <2>1, <2>3, EnteredWorked DEF StageName
<1>5. ASSUME AgentsDetect(t) PROVE Worked'
  <2>1. Working(t) = {} /\ queue' = queue  BY <1>5, WorkingIs DEF AgentsDetect
  <2>2. CASE Correlated(t, Head(task[t].todo))  BY <1>2, <2>1, <2>2
  <2>3. CASE Absorbed(t, Head(task[t].todo))  BY <1>3, <2>1, <2>3
  <2>4. CASE Created(t, Head(task[t].todo))
    <3>1. PICK i \in Numbers(rows), rs \in Table :
            /\ Len(rows) < MaxRows
            /\ Inserted(rows, rs, i, SigOf[Head(task[t].todo)], "CLASSIFIED")
            /\ \/ Moves(t, i) /\ task'[t].at = "ticket" /\ rows' = rs /\ stranded' = stranded
               \/ Entered(t, rs, "observer", i) /\ stranded \subseteq stranded'
      BY <2>4 DEF Created
    <3>2. i \in Id
      <4>1. i \in 1 .. Len(rows) + 1 /\ Len(rows) \in Nat
        BY <1>1, NumbersSmall DEF Table
      <4> QED  BY <3>1, <4>1, ConstantsAssumption DEF Id
    <3>3. CASE Entered(t, rs, "observer", i) /\ stranded \subseteq stranded'
      BY <1>4, <2>1, <2>4, <3>1, <3>2, <3>3
    <3>4. CASE Moves(t, i) /\ task'[t].at = "ticket" /\ rows' = rs /\ stranded' = stranded
      <4>1. i \in Working(t)'  BY <3>4 DEF Moves, Working, ToVerifier, Carried
      <4>2. Covered(i)'  BY <4>1 DEF Covered
      <4>3. \A j \in Id \ {0} : j # i /\ Unsettled(rows, j) => Covered(j)'
        BY <2>1, <2>4, <3>4, OthersCovered DEF Moves
      <4>4. \A j : j # i /\ Unsettled(rows', j) => Unsettled(rows, j)
        BY <1>1, <3>1, <3>4, InsertedUnsettled
      <4>5. \A j \in Id \ {0} : Unsettled(rows', j) => Covered(j)'  BY <4>2, <4>3, <4>4
      <4> QED  BY <4>5 DEF Worked, Unsettled
    <3> QED  BY <3>1, <3>3, <3>4
  <2> QED  BY <1>5, <2>2, <2>3, <2>4, AgentsDetectDoes
<1>6. ASSUME AgentsRaises(t) PROVE Worked'
  <2>0. PICK i : i = task[t].id  OBVIOUS
  <2>1. Alone(t) /\ rows' = rows /\ queue' = queue  BY <1>6, AgentsRaisesDoes DEF AgentsRaises
  <2>2. Working(t) \subseteq {i} /\ stranded \subseteq stranded'
        /\ (Working(t) # {} => i \in stranded')
    BY <1>6, <2>0, WorkingIs DEF AgentsRaises
  <2>3. CASE Working(t) = {}  BY <2>1, <2>2, <2>3, IdleWorked
  <2>4. CASE Working(t) # {}
    <3>1. \A j \in Id \ {0} : j # i /\ Unsettled(rows, j) => Covered(j)'
      BY <2>1, <2>2, OthersCovered
    <3>2. Covered(i)'  BY <2>2, <2>4 DEF Covered
    <3> QED  BY <2>1, <3>1, <3>2 DEF Worked, Unsettled
  <2> QED  BY <2>3, <2>4
<1>7. ASSUME EventsDetect(t) PROVE Worked'
  <2>1. Working(t) = {} /\ queue' = queue  BY <1>7, WorkingIs DEF EventsDetect
  <2>2. CASE Correlated(t, Head(task[t].todo))  BY <1>2, <2>1, <2>2
  <2>3. CASE Absorbed(t, Head(task[t].todo))  BY <1>3, <2>1, <2>3
  <2>4. CASE UNCHANGED << rows, stranded >> /\ Alone(t)
    BY <2>1, <2>4, IdleWorked
  <2> QED  BY <1>7, <2>2, <2>3, <2>4, EventsDetectDoes DEF Moves, Finished
<1>8. ASSUME EventsCreate(t) PROVE Worked'
  <2>1. Working(t) = {} /\ queue' = queue /\ stranded \subseteq stranded'
    BY <1>8, WorkingIs, EventsCreateDoes DEF EventsCreate
  <2>2. task[t].id \in Id  BY DEF Typed, TaskType
  <2>3. CASE /\ Finished(t)
             /\ Inserted(rows, rows', task[t].id, SigOf[Head(task[t].todo)], "ARTIFACT_MISSING")
    <3>1. "ARTIFACT_MISSING" \in Resting
      BY DEF Resting, PipelineStatus, Terminal, FixFailed, Moving, InProgress
    <3>2. \A j \in Id \ {0} : Unsettled(rows', j) => Unsettled(rows, j)
      BY <1>1, <2>3, <3>1, InsertedUnsettled
    <3> QED  BY <2>1, <2>3, <3>2, IdleWorked DEF Finished
  <2>4. CASE \E rs \in Table :
               /\ Inserted(rows, rs, task[t].id, SigOf[Head(task[t].todo)], "DETECTED")
               /\ Entered(t, rs, "observer", task[t].id)
    BY <1>4, <2>1, <2>2, <2>4
  <2> QED  BY <1>8, <2>3, <2>4, EventsCreateDoes
<1>9. ASSUME EventsRaises(t) PROVE Worked'
  <2>1. Working(t) = {} /\ queue' = queue /\ stranded' = stranded
    BY <1>9, WorkingIs DEF EventsRaises
  <2>2. "PARSE_FAILED" \in Resting
    BY DEF Resting, PipelineStatus, Terminal, FixFailed, Moving, InProgress
  <2>3. Alone(t) /\ \A j \in Id \ {0} : Unsettled(rows', j) => Unsettled(rows, j)
    BY <1>1, <1>9, <2>2, EventsRaisesDoes, InsertedUnsettled
  <2> QED  BY <2>1, <2>3, IdleWorked
<1> QED  BY <1>5, <1>6, <1>7, <1>8, <1>9

\* So do the events, the broker and the messages of an older stage.
LEMMA BeginsWorked ==
  ASSUME Typed, Worked, Begins PROVE Worked'
<1>1. ASSUME NEW t \in Task, task[t].at = "idle", Alone(t), rows' = rows, stranded' = stranded,
             \A m \in Message : m[1] # "verifier" /\ queue[m] > 0 => queue'[m] > 0
      PROVE  Worked'
  <2>1. Working(t) = {}  BY <1>1, WorkingIs
  <2> QED  BY <1>1, <2>1, IdleWorked
<1>2. ASSUME NEW t \in Task, NEW e \in Event, AgentsEvent(t, e) PROVE Worked'
  <2>1. UNCHANGED << rows, queue, stranded >> /\ task[t].at = "idle"  BY <1>2 DEF AgentsEvent
  <2> QED  BY <1>1, <1>2, <2>1, AgentsEventDoes
<1>3. ASSUME NEW t \in Task, NEW e \in Event, EventsEvent(t, e) PROVE Worked'
  <2>1. UNCHANGED << rows, queue, stranded >> /\ task[t].at = "idle"
    BY <1>3 DEF EventsEvent, history
  <2> QED  BY <1>1, <1>3, <2>1, EventsEventDoes
<1>4. ASSUME NEW t \in Task, NEW m \in Message, Deliver(t, m[1], m[2]) PROVE Worked'
  <2>0. PICK i : i = m[2]  OBVIOUS
  <2>1. /\ Alone(t) /\ task'[t].id = i /\ task'[t].at = "accepted" /\ task'[t].next = m[1]
        /\ task[t] = Idle
        /\ \A n \in Message : n # m => queue'[n] = queue[n]
    BY <1>4, <2>0, DeliverDoes DEF Moves
  <2>2. UNCHANGED << rows, stranded >>  BY <1>4 DEF Deliver, history
  <2>3. m[1] \in StageName /\ m = << m[1], i >> /\ i \in Id \ {0}  BY <2>0 DEF Message
  <2>4. task[t].at = "idle"  BY <2>1 DEF Idle
  <2>5. CASE m[1] = "verifier"
    <3>1. \A n \in Message : n[1] # "verifier" => n # m  BY <2>5
    <3> QED  BY <1>1, <2>1, <2>2, <2>4, <3>1
  <2>6. CASE m[1] # "verifier"
    <3>1. i \in Working(t)'  BY <2>1, <2>6 DEF Working, ToVerifier, Carried
    <3>2. Covered(i)'  BY <3>1 DEF Covered
    <3>3. \A n \in Message : n[2] # i => n # m  BY <2>0
    <3>4. Working(t) = {}  BY <2>4, WorkingIs
    <3>5. \A j \in Id \ {0} : j # i /\ Unsettled(rows, j) => Covered(j)'
      BY <2>1, <2>2, <3>3, <3>4, OthersCovered
    <3> QED  BY <2>2, <3>2, <3>5 DEF Worked, Unsettled
  <2> QED  BY <2>5, <2>6
<1>5. ASSUME NEW t \in Task, NEW i \in Id, NEW stage, LegacyStage(t, i, stage) PROVE Worked'
  <2>1. queue' = queue /\ stranded \subseteq stranded' /\ task[t].at = "idle" /\ rows \in Table
    BY <1>5, LegacyStageDoes DEF LegacyStage, Typed
  <2>2. Working(t) = {}  BY <2>1, WorkingIs
  <2>3. ASSUME Alone(t) PROVE \A j \in Id \ {0} : Unsettled(rows, j) => Covered(j)'
    <3>1. \A j \in Id \ {0} : j # 0 /\ Unsettled(rows, j) => Covered(j)'
      BY <2>1, <2>2, <2>3, OthersCovered
    <3> QED  BY <3>1
  <2>4. ASSUME NEW rs \in Table, NEW to \in { "rca", "fixer" }, Entered(t, rs, to, i),
               Restated(rows, rs, i)
        PROVE  Worked'
    <3>1. Alone(t)  BY <2>4 DEF Entered, Decided, Moves, Finished
    <3>2. \A j : j # i /\ Unsettled(rs, j) => Unsettled(rows, j)  BY <2>4, UnsettledRows
    <3> QED  BY <2>3, <2>4, <3>1, <3>2, EnteredWorked DEF StageName
  <2>5. CASE rows' = rows /\ Moves(t, i)
    BY <2>1, <2>2, <2>5, IdleWorked DEF Moves
  <2> QED  BY <1>5, <2>1, <2>4, <2>5, LegacyStageDoes, Unchanged
<1> QED  BY <1>2, <1>3, <1>4, <1>5 DEF Begins

LEMMA WorkedInductive ==
  ASSUME Typed, Worked, [Next]_vars PROVE Worked'
<1>1. ASSUME NEW t \in Task, Works(t) \/ Ends(t) PROVE Worked'
  BY <1>1, StagesWorked, SettledWorked, DoorsWorked, Zenon DEF Works
<1>2. CASE Begins  BY <1>2, BeginsWorked
<1>3. ASSUME NEW k \in DOMAIN rows, WindowPasses(k) PROVE Worked'
  <2>1. \A j : Unsettled(rows', j) => Unsettled(rows, j)
    BY <1>3, WindowPassesDoes DEF Unsettled
  <2>2. UNCHANGED << task, queue, stranded >>  BY <1>3 DEF WindowPasses, history
  <2>3. \A j : Covered(j) => Covered(j)'
    BY <2>2 DEF Covered, Working, ToVerifier, Carried
  <2> QED  BY <2>1, <2>3 DEF Worked, Unsettled
<1>4. CASE Restart
  <2>1. /\ stranded' = stranded \union UNION { Carried(t) : t \in Task }
        /\ UNCHANGED << rows, queue >>
    BY <1>4, RestartDoes
  <2>2. \A j : Covered(j) => Covered(j)'
    <3> TAKE j
    <3>1. (\E t \in Task : j \in Working(t)) => j \in stranded'
      BY <2>1, WorkingIs
    <3> QED  BY <2>1, <3>1 DEF Covered
  <2> QED  BY <2>1, <2>2 DEF Worked, Unsettled
<1>5. CASE UNCHANGED vars
  <2>1. UNCHANGED << rows, task, queue, stranded >>  BY <1>5 DEF vars, history
  <2> QED  BY <2>1 DEF Worked, Unsettled, Covered, Working, ToVerifier, Carried
<1> QED  BY <1>1, <1>2, <1>3, <1>4, <1>5, StepCases

\* NoIncidentForgotten is an invariant: whatever messages are lost, doubled or late, an incident
\* in a status some stage should change is in a coroutine or a message, or a fault stranded it.
THEOREM NoneForgotten == Spec => []NoIncidentForgotten
<1>1. Init => Typed /\ Worked
  <2>1. Init => rows = << >>  BY DEF Init
  <2>2. Init => Worked  BY <2>1 DEF Worked, Unsettled
  <2> QED  BY <2>2, InitTyped
<1>2. Typed /\ Worked /\ [Next]_vars => (Typed /\ Worked)'  BY Inductive, WorkedInductive
<1>3. Typed /\ Worked => NoIncidentForgotten  BY WorkedImpliesNoIncidentForgotten
<1> QED  BY <1>1, <1>2, <1>3, PTL DEF Spec

-----------------------------------------------------------------------------
(* The stages honour their contract *)

\* An actionable diagnosis was stored for an incident that has been diagnosed.
Acted(rs, D) == \A k \in 1 .. Len(rs) : rs[k].act => rs[k].id \in D

\* What a coroutine is about to do is licensed by the stages its incident has been through.
LicensedTask(t) ==
    /\ task[t].at = "fix" => task[t].id \in diagnosed
    /\ task[t].at = "replay" /\ task[t].act => task[t].id \in diagnosed
    /\ ToVerifier(t) => task[t].id \in fixed

\* The inductive invariant behind HonoursContract: the license travels with the row, the
\* coroutine and the message.
Licensed ==
    /\ Acted(rows, diagnosed)
    /\ \A t \in Task : LicensedTask(t)
    /\ \A i \in Id \ {0} : queue[<< "verifier", i >>] > 0 => i \in fixed

LEMMA ActedRows ==
  ASSUME NEW rs \in Table, NEW r2, NEW D, NEW D2, Acted(rs, D), D \subseteq D2
  PROVE  /\ Acted(rs, D2)
         /\ \A i : Restated(rs, r2, i) => Acted(r2, D2)
         /\ Recounted(rs, r2) => Acted(r2, D2)
<1>1. Acted(rs, D2)  BY DEF Acted
<1>2. \A i : Restated(rs, r2, i) => Acted(r2, D2)  BY DEF Acted, Restated
<1>3. Recounted(rs, r2) => Acted(r2, D2)  BY DEF Acted, Recounted
<1> QED  BY <1>1, <1>2, <1>3

LEMMA InsertedActed ==
  ASSUME NEW rs \in Table, NEW r2, NEW D, Acted(rs, D), NEW i, NEW s, NEW st,
         Inserted(rs, r2, i, s, st)
  PROVE  Acted(r2, D)
<1>1. Len(rs) \in Nat  BY DEF Table
<1>2. \A k \in 1 .. Len(r2) : k \in 1 .. Len(rs) \/ k = Len(rs) + 1  BY <1>1 DEF Inserted
<1> QED  BY <1>1, <1>2 DEF Inserted, Acted

LEMMA LicensedStep ==
  ASSUME Licensed, NEW t \in Task, Alone(t), LicensedTask(t)', Acted(rows', diagnosed'),
         diagnosed \subseteq diagnosed', fixed \subseteq fixed',
         \A i \in Id \ {0} : queue'[<< "verifier", i >>] > 0 =>
           queue[<< "verifier", i >>] > 0 \/ i \in fixed'
  PROVE  Licensed'
<1>1. ASSUME NEW u \in Task, u # t PROVE LicensedTask(u)'
  BY <1>1 DEF Licensed, LicensedTask, ToVerifier, Alone
<1>2. \A u \in Task : LicensedTask(u)'  BY <1>1
<1>3. \A i \in Id \ {0} : queue'[<< "verifier", i >>] > 0 => i \in fixed'  BY DEF Licensed
<1> QED  BY <1>2, <1>3 DEF Licensed, Acted

\* Where a coroutine needs no license.
QuietTask(t) == task'[t].at \notin { "fix", "replay", "verify", "publish", "accepted" }

LEMMA QuietLicensed ==
  ASSUME Licensed, NEW t \in Task, Alone(t), QuietTask(t), Acted(rows', diagnosed'),
         diagnosed \subseteq diagnosed', fixed \subseteq fixed',
         \A i \in Id \ {0} : queue'[<< "verifier", i >>] > 0 =>
           queue[<< "verifier", i >>] > 0 \/ i \in fixed'
  PROVE  Licensed'
<1>1. LicensedTask(t)'  BY DEF QuietTask, LicensedTask, ToVerifier
<1> QED  BY <1>1, LicensedStep

LEMMA FinishedQuiet ==
  ASSUME NEW t \in Task, task \in [Task -> TaskType], Finished(t)
  PROVE  Alone(t) /\ QuietTask(t)
<1>1. task[t].todo \in Seq(Failure) /\ Len(task[t].todo) \in Nat  BY DEF TaskType
<1> QED  BY <1>1 DEF Finished, QuietTask, Idle

\* The coroutine t hands an incident on.
LEMMA EnteredLicensed ==
  ASSUME Typed, Licensed, NEW t \in Task, NEW rs \in Table, NEW stage \in StageName, NEW i \in Id,
         Entered(t, rs, stage, i), Acted(rs, diagnosed'),
         stage = "verifier" => i \in fixed',
         diagnosed \subseteq diagnosed', fixed \subseteq fixed',
         \A j \in Id \ {0} : queue'[<< "verifier", j >>] > 0 =>
           queue[<< "verifier", j >>] > 0 \/ j \in fixed'
  PROVE  Licensed'
<1>1. Acted(rows', diagnosed')  BY ActedRows DEF Entered
<1>2. Actionable(rs, i) => i \in diagnosed'  BY DEF Actionable, Acted
<1>3. Alone(t) /\ LicensedTask(t)'
  <2>1. CASE Finished(t)
    BY <2>1, FinishedQuiet DEF Typed, QuietTask, LicensedTask, ToVerifier
  <2>2. CASE Moves(t, i) /\ task'[t].at = "publish" /\ task'[t].next = stage
    BY <2>2 DEF Moves, LicensedTask, ToVerifier
  <2>3. CASE Moves(t, i) /\ task'[t].at \in { "observe", "rca", "fixticket" }
    BY <2>3 DEF Moves, LicensedTask, ToVerifier
  <2>4. CASE Moves(t, i) /\ stage = "verifier" /\ task'[t].at = "verify"
    BY <2>4 DEF Moves, LicensedTask, ToVerifier
  <2>5. CASE Moves(t, i) /\ task'[t].at = "replay" /\ (task'[t].act => Actionable(rs, i))
    BY <1>2, <2>5 DEF Moves, LicensedTask, ToVerifier
  <2>6. CASE Moves(t, i) /\ task'[t].at = "fix" /\ Actionable(rs, i)
    BY <1>2, <2>6 DEF Moves, LicensedTask, ToVerifier
  <2> QED  BY <2>1, <2>2, <2>3, <2>4, <2>5, <2>6, Zenon DEF Entered, Decided
<1> QED  BY <1>1, <1>3, LicensedStep

LEMMA StagesLicensed ==
  ASSUME Typed, Licensed, NEW t \in Task
  PROVE  /\ PublishOk(t) => Licensed'
         /\ PublishFails(t) => Licensed'
         /\ StartStage(t) => Licensed'
         /\ ObserverDone(t) => Licensed'
         /\ RcaDone(t) => Licensed'
         /\ FixSucceeded(t) => Licensed'
         /\ Replayed(t) => Licensed'
         /\ Verified(t) => Licensed'
         /\ HandleFix(t) => Licensed'
         /\ Ends(t) => Licensed'
<1>0. PICK i : i = task[t].id  OBVIOUS
<1>1. /\ rows \in Table /\ task \in [Task -> TaskType] /\ queue \in [Message -> 0 .. MaxCopies]
      /\ Acted(rows, diagnosed)
  BY DEF Typed, Licensed
<1>2. ASSUME NEW stage \in StageName, i \in Id \ {0}, Accept(stage, i), stage = "verifier" => i \in fixed
      PROVE  \A j \in Id \ {0} : queue'[<< "verifier", j >>] > 0 =>
               queue[<< "verifier", j >>] > 0 \/ j \in fixed
  <2> SUFFICES ASSUME NEW j \in Id \ {0}, << "verifier", j >> # << stage, i >>
               PROVE  queue'[<< "verifier", j >>] = queue[<< "verifier", j >>]
    BY <1>2
  <2>1. << "verifier", j >> \in Message  BY DEF Message, StageName
  <2> QED  BY <1>1, <1>2, <2>1, AcceptStep
<1>3. ASSUME PublishOk(t) PROVE Licensed'
  <2>1. /\ Finished(t) /\ rows' = rows /\ task[t].next \in StageName /\ i \in Id \ {0}
        /\ Accept(task[t].next, i) /\ UNCHANGED << diagnosed, fixed >>
    BY <1>0, <1>3, PublishOkDoes DEF PublishOk, history
  <2>2. task[t].next = "verifier" => i \in fixed
    BY <1>0, <1>3 DEF PublishOk, Licensed, LicensedTask, ToVerifier
  <2>3. Alone(t) /\ QuietTask(t)  BY <1>1, <2>1, FinishedQuiet
  <2> QED  BY <1>1, <1>2, <2>1, <2>2, <2>3, QuietLicensed
<1>4. ASSUME PublishFails(t) PROVE Licensed'
  <2>1. /\ task[t].next \in StageName /\ i \in Id \ {0} /\ Entered(t, rows, task[t].next, i)
        /\ queue' = queue \/ Accept(task[t].next, i)
        /\ UNCHANGED << diagnosed, fixed >>
    BY <1>0, <1>4, PublishFailsDoes DEF PublishFails, history
  <2>2. task[t].next = "verifier" => i \in fixed
    BY <1>0, <1>4 DEF PublishFails, Licensed, LicensedTask, ToVerifier
  <2>3. \A j \in Id \ {0} : queue'[<< "verifier", j >>] > 0 =>
          queue[<< "verifier", j >>] > 0 \/ j \in fixed
    BY <1>2, <2>1, <2>2
  <2> QED  BY <1>1, <2>1, <2>2, <2>3, EnteredLicensed
<1>5. ASSUME StartStage(t) PROVE Licensed'
  <2>1. /\ task[t].next \in StageName /\ i \in Id \ {0} /\ Entered(t, rows, task[t].next, i)
        /\ UNCHANGED << queue, diagnosed, fixed >>
    BY <1>0, <1>5, StartStageDoes DEF StartStage, history
  <2>2. task[t].next = "verifier" => i \in fixed
    BY <1>0, <1>5 DEF StartStage, Licensed, LicensedTask, ToVerifier
  <2> QED  BY <1>1, <2>1, <2>2, EnteredLicensed
<1>6. ASSUME ObserverDone(t) PROVE Licensed'
  <2>1. PICK rs \in Table :
          /\ i \in Id \ {0} /\ Len(rs) = Len(rows)
          /\ \A k \in 1 .. Len(rows) : rs[k].id = rows[k].id /\ rs[k].act = rows[k].act
          /\ Entered(t, rs, "rca", i)
    BY <1>0, <1>6, ObserverDoneDoes
  <2>2. UNCHANGED << queue, diagnosed, fixed >>  BY <1>6 DEF ObserverDone, history
  <2>3. Acted(rs, diagnosed')  BY <1>1, <2>1, <2>2 DEF Acted
  <2> QED  BY <2>1, <2>2, <2>3, EnteredLicensed DEF StageName
<1>7. ASSUME RcaDone(t) PROVE Licensed'
  <2>1. PICK rs \in Table :
          /\ i \in Id \ {0} /\ Len(rs) = Len(rows)
          /\ \A k \in 1 .. Len(rows) :
               rs[k].id = rows[k].id /\ (rs[k].id # i => rs[k].act = rows[k].act)
          /\ Entered(t, rs, "fixer", i)
    BY <1>0, <1>7, RcaDoneDoes
  <2>2. UNCHANGED << queue, fixed >> /\ diagnosed' = diagnosed \union {i}
    BY <1>0, <1>7 DEF RcaDone
  <2>3. Acted(rs, diagnosed')  BY <1>1, <2>1, <2>2 DEF Acted
  <2> QED  BY <2>1, <2>2, <2>3, EnteredLicensed DEF StageName
<1>8. ASSUME FixSucceeded(t) PROVE Licensed'
  <2>1. PICK rs \in Table :
          /\ i \in Id \ {0} /\ Restated(rows, rs, i) /\ Entered(t, rs, "verifier", i)
    BY <1>0, <1>8, FixSucceededDoes
  <2>2. UNCHANGED << queue, diagnosed >> /\ fixed' = fixed \union {i}
    BY <1>0, <1>8 DEF FixSucceeded
  <2>3. Acted(rs, diagnosed')  BY <1>1, <2>1, <2>2, ActedRows
  <2> QED  BY <2>1, <2>2, <2>3, EnteredLicensed DEF StageName
<1>9. ASSUME Replayed(t) PROVE Licensed'
  <2>1. /\ Restated(rows, rows', i)
        /\ Finished(t) \/ Decided(t, rows, i, task[t].act)
    BY <1>0, <1>9, ReplayedDoes
  <2>2. UNCHANGED << queue, diagnosed, fixed >> /\ task[t].at = "replay"
    BY <1>9 DEF Replayed, history
  <2>3. Acted(rows', diagnosed')  BY <1>1, <2>1, <2>2, ActedRows
  <2>4. CASE Finished(t)
    BY <1>1, <2>2, <2>3, <2>4, FinishedQuiet, QuietLicensed
  <2>5. CASE Moves(t, i) /\ task'[t].at \in { "fixticket", "fix" } /\
             (task'[t].at = "fix" => task[t].act)
    <3>1. task[t].act => i \in diagnosed  BY <1>0, <2>2 DEF Licensed, LicensedTask
    <3>2. Alone(t) /\ LicensedTask(t)'
      BY <2>2, <2>5, <3>1 DEF Moves, LicensedTask, ToVerifier
    <3> QED  BY <2>2, <2>3, <3>2, LicensedStep
  <2> QED  BY <2>1, <2>4, <2>5 DEF Decided
<1>10. ASSUME Verified(t) PROVE Licensed'
  <2>1. Restated(rows, rows', i) /\ Finished(t)  BY <1>0, <1>10, VerifiedDoes
  <2>2. UNCHANGED << queue, diagnosed, fixed >>  BY <1>10 DEF Verified
  <2> QED  BY <1>1, <2>1, <2>2, ActedRows, FinishedQuiet, QuietLicensed
<1>11. ASSUME HandleFix(t) PROVE Licensed'
  <2>1. Finished(t) /\ UNCHANGED << queue, diagnosed, fixed >>  BY <1>11, HandleFixDoes
  <2>2. PICK rs \in Table :
          /\ Restated(rows, rs, i)
          /\ rows' = rs \/ \E s \in Sig, j \in Numbers(rs) : Inserted(rs, rows', j, s, "CLASSIFIED")
    BY <1>0, <1>11, HandleFixDoes
  <2>3. Acted(rs, diagnosed')  BY <1>1, <2>1, <2>2, ActedRows
  <2>4. Acted(rows', diagnosed')  BY <2>2, <2>3, InsertedActed
  <2> QED  BY <1>1, <2>1, <2>4, FinishedQuiet, QuietLicensed
<1>12. ASSUME Ends(t) PROVE Licensed'
  <2>1. EndedAt(t, i) /\ UNCHANGED << queue, diagnosed, fixed >>  BY <1>0, <1>12, EndsDoes
  <2>2. Finished(t) /\ Restated(rows, rows', i)  BY <2>1 DEF EndedAt
  <2> QED  BY <1>1, <2>1, <2>2, ActedRows, FinishedQuiet, QuietLicensed
<1> QED  BY <1>3, <1>4, <1>5, <1>6, <1>7, <1>8, <1>9, <1>10, <1>11, <1>12

LEMMA DoorsLicensed ==
  ASSUME Typed, Licensed, NEW t \in Task,
         \/ AgentsDetect(t) \/ AgentsRaises(t) \/ EventsDetect(t) \/ EventsCreate(t)
         \/ EventsRaises(t)
  PROVE  Licensed'
<1>1. /\ rows \in Table /\ task \in [Task -> TaskType] /\ Acted(rows, diagnosed)
      /\ UNCHANGED << queue, diagnosed, fixed >>
  BY DEF Typed, Licensed, AgentsDetect, AgentsRaises, EventsDetect, EventsCreate, EventsRaises
<1>2. ASSUME Alone(t), QuietTask(t), Acted(rows', diagnosed) PROVE Licensed'
  BY <1>1, <1>2, QuietLicensed
<1>3. ASSUME NEW rs \in Table, NEW stage \in StageName \ {"verifier"}, NEW i \in Id,
             Acted(rs, diagnosed), Entered(t, rs, stage, i)
      PROVE  Licensed'
  BY <1>1, <1>3, EnteredLicensed
<1>4. ASSUME NEW f, Correlated(t, f) PROVE Licensed'
  <2>1. PICK k \in 1 .. Len(rows), rs \in Table : Recounted(rows, rs) /\ Resumed(t, rs, k)
    BY <1>4 DEF Correlated, Tried
  <2>2. Acted(rs, diagnosed)  BY <1>1, <2>1, ActedRows
  <2>3. CASE Finished(t) /\ rows' = rs
    BY <1>1, <1>2, <2>2, <2>3, FinishedQuiet
  <2>4. CASE \E stage \in { "rca", "fixer" } : Entered(t, rs, stage, rs[k].id)
    <3>1. rs[k] \in Row  BY <2>1 DEF Recounted, Table
    <3>2. rs[k].id \in Id  BY <3>1 DEF Row
    <3> QED  BY <1>3, <2>2, <2>4, <3>2 DEF StageName
  <2> QED  BY <2>1, <2>3, <2>4 DEF Resumed
<1>5. ASSUME NEW f, Absorbed(t, f) PROVE Licensed'
  <2>1. PICK r2 : r2 = rows'  OBVIOUS
  <2>2. Recounted(rows, r2) /\ Finished(t)  BY <1>5, <2>1 DEF Absorbed, Tried
  <2>3. Acted(rows', diagnosed)  BY <1>1, <2>1, <2>2, ActedRows
  <2> QED  BY <1>1, <1>2, <2>2, <2>3, FinishedQuiet
<1>6. ASSUME AgentsDetect(t) PROVE Licensed'
  <2>1. CASE Created(t, Head(task[t].todo))
    <3>1. PICK i \in Numbers(rows), rs \in Table :
            /\ Len(rows) < MaxRows
            /\ Inserted(rows, rs, i, SigOf[Head(task[t].todo)], "CLASSIFIED")
            /\ \/ Moves(t, i) /\ task'[t].at = "ticket" /\ rows' = rs
               \/ Entered(t, rs, "observer", i)
      BY <2>1 DEF Created
    <3>2. i \in 1 .. Len(rows) + 1 /\ Len(rows) \in Nat  BY <1>1, NumbersSmall DEF Table
    <3>3. i \in Id  BY <3>1, <3>2, ConstantsAssumption DEF Id
    <3>4. Acted(rs, diagnosed)  BY <1>1, <3>1, InsertedActed
    <3> QED  BY <1>2, <1>3, <3>1, <3>3, <3>4 DEF Moves, QuietTask, StageName
  <2> QED  BY <1>4, <1>5, <1>6, <2>1, AgentsDetectDoes
<1>7. ASSUME EventsDetect(t) PROVE Licensed'
  <2>1. CASE rows' = rows /\ Finished(t)  BY <1>1, <1>2, <2>1, FinishedQuiet
  <2>2. CASE rows' = rows /\ Alone(t) /\ task'[t].at \in { "breaker", "lookup" }
    BY <1>1, <1>2, <2>2 DEF QuietTask
  <2> QED  BY <1>4, <1>5, <1>7, <2>1, <2>2, EventsDetectDoes DEF Moves
<1>8. ASSUME EventsCreate(t) PROVE Licensed'
  <2>1. task[t].id \in Id  BY <1>1 DEF TaskType
  <2>2. ASSUME NEW s, Inserted(rows, rows', task[t].id, s, "ARTIFACT_MISSING"), Finished(t)
        PROVE Licensed'
    <3>1. Acted(rows', diagnosed)  BY <1>1, <2>2, InsertedActed
    <3> QED  BY <1>1, <1>2, <2>2, <3>1, FinishedQuiet
  <2>3. ASSUME NEW s, NEW rs \in Table, Inserted(rows, rs, task[t].id, s, "DETECTED"),
               Entered(t, rs, "observer", task[t].id)
        PROVE Licensed'
    <3>1. Acted(rs, diagnosed)  BY <1>1, <2>3, InsertedActed
    <3> QED  BY <1>3, <2>1, <2>3, <3>1 DEF StageName
  <2> QED  BY <1>8, <2>2, <2>3, EventsCreateDoes
<1>9. ASSUME Alone(t), task'[t] = Idle, Acted(rows', diagnosed) PROVE Licensed'
  BY <1>2, <1>9 DEF QuietTask, Idle
<1>10. ASSUME AgentsRaises(t) PROVE Licensed'
  <2>1. rows' = rows  BY <1>10 DEF AgentsRaises
  <2> QED  BY <1>1, <1>9, <1>10, <2>1, AgentsRaisesDoes
<1>11. ASSUME EventsRaises(t) PROVE Licensed'
  <2>1. Acted(rows', diagnosed)  BY <1>1, <1>11, EventsRaisesDoes, InsertedActed
  <2> QED  BY <1>9, <1>11, <2>1, EventsRaisesDoes
<1> QED  BY <1>6, <1>7, <1>8, <1>10, <1>11

LEMMA BeginsLicensed ==
  ASSUME Typed, Licensed, Begins PROVE Licensed'
<1>1. Acted(rows, diagnosed) /\ rows \in Table /\ queue \in [Message -> 0 .. MaxCopies]
  BY DEF Licensed, Typed
<1>2. ASSUME NEW t \in Task, Alone(t), LicensedTask(t)',
             UNCHANGED << rows, diagnosed, fixed >>, \A m \in Message : queue'[m] > 0 => queue[m] > 0
      PROVE  Licensed'
  <2>1. \A i \in Id \ {0} : << "verifier", i >> \in Message  BY DEF Message, StageName
  <2> QED  BY <1>1, <1>2, <2>1, LicensedStep
<1>3. ASSUME NEW t \in Task, NEW e \in Event, AgentsEvent(t, e) PROVE Licensed'
  <2>1. UNCHANGED << rows, queue, diagnosed, fixed >>  BY <1>3 DEF AgentsEvent
  <2>2. Alone(t) /\ task'[t].at = "classify"  BY <1>3, AgentsEventDoes
  <2> QED  BY <1>2, <2>1, <2>2 DEF LicensedTask, ToVerifier
<1>4. ASSUME NEW t \in Task, NEW e \in Event, EventsEvent(t, e) PROVE Licensed'
  <2>1. UNCHANGED << rows, queue, diagnosed, fixed >>  BY <1>4 DEF EventsEvent, history
  <2>2. Alone(t) /\ task'[t].at = "meta"  BY <1>4, EventsEventDoes
  <2> QED  BY <1>2, <2>1, <2>2 DEF LicensedTask, ToVerifier
<1>5. ASSUME NEW t \in Task, NEW m \in Message, Deliver(t, m[1], m[2]) PROVE Licensed'
  <2>1. UNCHANGED << rows, diagnosed, fixed >>  BY <1>5 DEF Deliver, history
  <2>2. /\ Moves(t, m[2]) /\ task'[t].at = "accepted" /\ task'[t].next = m[1] /\ queue[m] > 0
        /\ \A n \in Message : n # m => queue'[n] = queue[n]
    BY <1>5, DeliverDoes
  <2>3. m = << m[1], m[2] >> /\ m[2] \in Id \ {0}  BY DEF Message
  <2>4. m[1] = "verifier" => m[2] \in fixed  BY <2>2, <2>3 DEF Licensed
  <2>5. LicensedTask(t)'  BY <2>1, <2>2, <2>4 DEF Moves, LicensedTask, ToVerifier
  <2> QED  BY <1>2, <2>1, <2>2, <2>5 DEF Moves
<1>6. ASSUME NEW t \in Task, NEW i \in Id, NEW stage, LegacyStage(t, i, stage) PROVE Licensed'
  <2>1. UNCHANGED << queue, diagnosed, fixed >>  BY <1>6 DEF LegacyStage, history
  <2>2. ASSUME NEW rs \in Table, NEW to \in { "rca", "fixer" }, Entered(t, rs, to, i),
               Restated(rows, rs, i)
        PROVE  Licensed'
    <3>1. Acted(rs, diagnosed')  BY <1>1, <2>1, <2>2, ActedRows
    <3> QED  BY <2>1, <2>2, <3>1, EnteredLicensed DEF StageName
  <2>3. CASE rows' = rows /\ Moves(t, i) /\ task'[t].at = "test"
    BY <1>2, <2>1, <2>3 DEF Moves, LicensedTask, ToVerifier
  <2> QED  BY <1>1, <1>6, <2>2, <2>3, LegacyStageDoes, Unchanged
<1> QED  BY <1>3, <1>4, <1>5, <1>6 DEF Begins

LEMMA LicensedInductive ==
  ASSUME Typed, Licensed, [Next]_vars PROVE Licensed'
<1>1. ASSUME NEW t \in Task, Works(t) \/ Ends(t) PROVE Licensed'
  BY <1>1, StagesLicensed, DoorsLicensed, Zenon DEF Works
<1>2. CASE Begins  BY <1>2, BeginsLicensed
<1>3. ASSUME NEW k \in DOMAIN rows, WindowPasses(k) PROVE Licensed'
  <2>1. Acted(rows', diagnosed)
    BY <1>3, WindowPassesDoes DEF Licensed, Acted
  <2>2. UNCHANGED << task, queue, diagnosed, fixed >>  BY <1>3 DEF WindowPasses, history
  <2> QED  BY <2>1, <2>2 DEF Licensed, LicensedTask, ToVerifier, Acted
<1>4. CASE Restart
  <2>1. UNCHANGED << rows, queue, diagnosed, fixed >> /\ \A t \in Task : task'[t] = Idle
    BY <1>4, RestartDoes
  <2> QED  BY <2>1 DEF Licensed, LicensedTask, ToVerifier, Acted, Idle
<1>5. CASE UNCHANGED vars
  <2>1. UNCHANGED << rows, task, queue, diagnosed, fixed >>  BY <1>5 DEF vars, history
  <2> QED  BY <2>1 DEF Licensed, LicensedTask, ToVerifier, Acted
<1> QED  BY <1>1, <1>2, <1>3, <1>4, <1>5, StepCases

\* Every step is a step of the contract or none.
LEMMA ContractStep ==
  ASSUME Typed, Licensed, [Next]_vars PROVE [Contract!Next]_(Contract!vars)
<1> DEFINE Same == UNCHANGED << diagnosed, fixed, tested >>
<1>1. ASSUME NEW t \in Task, RcaDone(t) PROVE Contract!Next
  <2>1. task[t].id \in Id  BY <1>1, RcaDoneDoes
  <2> QED  BY <1>1, <2>1 DEF RcaDone, Contract!Next, Contract!Diagnose
<1>2. ASSUME NEW t \in Task, FixSucceeded(t) PROVE Contract!Next
  <2>1. task[t].id \in Id  BY <1>2, FixSucceededDoes
  <2>2. task[t].id \in diagnosed  BY <1>2 DEF FixSucceeded, Licensed, LicensedTask
  <2> QED  BY <1>2, <2>1, <2>2 DEF FixSucceeded, Contract!Next, Contract!Fix
<1>3. ASSUME NEW t \in Task, Verified(t) PROVE Contract!Next
  <2>1. task[t].id \in Id  BY <1>3, VerifiedDoes
  <2>2. task[t].id \in fixed  BY <1>3 DEF Verified, Licensed, LicensedTask, ToVerifier
  <2> QED  BY <1>3, <2>1, <2>2 DEF Verified, Contract!Next, Contract!Test
<1>4. ASSUME NEW t \in Task, Works(t), ~RcaDone(t), ~FixSucceeded(t), ~Verified(t) PROVE Same
  BY <1>4 DEF Works, history, PublishOk, PublishFails, StartStage, ObserverDone, Replayed,
     HandleFix, AgentsDetect, AgentsRaises, EventsDetect, EventsCreate, EventsRaises
<1>5. ASSUME NEW t \in Task, Ends(t) PROVE Same
  BY <1>5, EndsDoes
<1>6. ASSUME Begins PROVE Same
  <2>1. ASSUME NEW t \in Task, NEW e \in Event, AgentsEvent(t, e) \/ EventsEvent(t, e) PROVE Same
    BY <2>1, Zenon DEF AgentsEvent, EventsEvent, history
  <2>2. ASSUME NEW t \in Task, NEW m \in Message, Deliver(t, m[1], m[2]) PROVE Same
    BY <2>2 DEF Deliver, history
  <2>3. ASSUME NEW t \in Task, NEW i \in Id, NEW stage, LegacyStage(t, i, stage) PROVE Same
    BY <2>3 DEF LegacyStage, history
  <2> QED  BY <1>6, <2>1, <2>2, <2>3 DEF Begins
<1>7. ASSUME NEW k \in DOMAIN rows, WindowPasses(k) PROVE Same
  BY <1>7 DEF WindowPasses, history
<1>8. ASSUME Restart \/ UNCHANGED vars PROVE Same
  BY <1>8 DEF Restart, vars, history
<1>9. Contract!Next \/ Same
  BY <1>1, <1>2, <1>3, <1>4, <1>5, <1>6, <1>7, <1>8, StepCases
<1> QED  BY <1>9 DEF Contract!vars

\* HonoursContract: however often, in whatever order and from whatever door the stages are
\* entered, an iFlow is changed only after a diagnosis and tested only after a change.
THEOREM ContractHonoured == Spec => HonoursContract
<1>1. Init => Typed /\ Licensed /\ Contract!Init
  <2>1. Init => Licensed
    <3> SUFFICES ASSUME Init PROVE Licensed
      OBVIOUS
    <3>1. rows = << >> /\ \A t \in Task : task[t] = Idle  BY DEF Init
    <3>2. \A i \in Id \ {0} : queue[<< "verifier", i >>] = 0
      BY DEF Init, Message, StageName
    <3> QED  BY <3>1, <3>2 DEF Licensed, LicensedTask, ToVerifier, Acted, Idle
  <2>2. Init => Contract!Init  BY DEF Init, Contract!Init
  <2> QED  BY <2>1, <2>2, InitTyped
<1>2. Typed /\ Licensed /\ [Next]_vars => (Typed /\ Licensed)'  BY Inductive, LicensedInductive
<1>3. Typed /\ Licensed /\ [Next]_vars => [Contract!Next]_(Contract!vars)  BY ContractStep
<1> QED  BY <1>1, <1>2, <1>3, PTL DEF Spec, HonoursContract, Contract!Spec

-----------------------------------------------------------------------------
(* Every failure is accounted for *)

\* The failures a coroutine has looked for at the table and counted, or failed to count.
Met == heard \union uncounted

\* Where a failure of a delivered event may be.
Accounted ==
    \A e \in cfg.sends \ inbox : \A f \in Range(Entries[e]) :
      f \in Met \union dropped \/ \E t \in Task : f \in Pending(t)

\* As long as signatures are not corrected, the group of an incident is its signature or NULL,
\* and a failure that was met has an incident.
Known ==
    /\ uncounted # {} => Blind
    /\ ~cfg.retype =>
         /\ \A k \in 1 .. Len(rows) : rows[k].group \in {rows[k].sig, NoSig}
         /\ \A f \in Met : \E k \in 1 .. Len(rows) : rows[k].sig = SigOf[f]

LEMMA KnownImpliesFailureAccounted ==
  ASSUME Typed, Accounted, Known PROVE FailureAccounted
<1>1. DOMAIN rows = 1 .. Len(rows)  BY DEF Typed, Table
<1> QED  BY <1>1 DEF FailureAccounted, HasIncident, Accounted, Known, Met

LEMMA FailureStep ==
  ASSUME Accounted, NEW t \in Task, Alone(t),
         Pending(t) \subseteq Pending(t)' \union Met' \union dropped',
         \A e \in inbox \ inbox' : Range(Entries[e]) \subseteq Pending(t)' \union dropped',
         Met \subseteq Met', dropped \subseteq dropped', cfg' = cfg
  PROVE  Accounted'
<1> SUFFICES ASSUME NEW e \in cfg.sends \ inbox', NEW f \in Range(Entries[e])
             PROVE  \/ f \in Met' \union dropped'
                    \/ \E u \in Task : f \in Pending(u)'
  BY DEF Accounted
<1>1. CASE e \in inbox
  <2>1. f \in Pending(t)' \union dropped'  BY <1>1
  <2> QED  BY <2>1
<1>2. CASE e \notin inbox
  <2>1. f \in Met \union dropped \/ \E u \in Task : f \in Pending(u)
    BY <1>2 DEF Accounted
  <2>2. CASE f \in Met \union dropped  BY <2>2
  <2>3. ASSUME NEW u \in Task, f \in Pending(u)
        PROVE f \in Met' \union dropped' \/ \E v \in Task : f \in Pending(v)'
    <3>1. CASE u = t  BY <2>3, <3>1
    <3>2. CASE u # t
      <4>1. Pending(u)' = Pending(u)  BY <3>2 DEF Alone, Pending
      <4> QED  BY <2>3, <4>1
    <3> QED  BY <3>1, <3>2
  <2> QED  BY <2>1, <2>2, <2>3
<1> QED  BY <1>1, <1>2

\* A coroutine that goes on, or ends, keeps the failures it has not looked at; the one it was
\* looking at it has recorded or dropped, unless it only looks for its artifact.
LEMMA PendingStep ==
  ASSUME Typed, NEW t \in Task,
         Finished(t) \/ \E i : Moves(t, i),
         task[t].at \in { "classify", "meta", "lookup" } =>
           task'[t].at = "lookup" \/ Head(task[t].todo) \in Met' \union dropped'
  PROVE  Alone(t) /\ Pending(t) \subseteq Pending(t)' \union Met' \union dropped'
<1>1. task[t].todo \in Seq(Failure) /\ Len(task[t].todo) \in Nat  BY DEF Typed, TaskType
<1>2. CASE task[t].todo = << >>
  <2>1. Pending(t) = {}  BY <1>2 DEF Pending, Range
  <2> QED  BY <2>1 DEF Finished, Moves
<1>3. CASE task[t].todo # << >>
  <2>1. /\ Range(task[t].todo) = { Head(task[t].todo) } \union Range(Tail(task[t].todo))
        /\ Len(task[t].todo) <= 1 => Tail(task[t].todo) = << >>
    BY <1>1, <1>3, ListParts
  <2>2. Pending(t) \subseteq Range(Tail(task[t].todo)) \union
          (IF task[t].at \in { "classify", "meta", "lookup" } THEN { Head(task[t].todo) } ELSE {})
    BY <1>3, <2>1 DEF Pending
  <2>3. CASE Finished(t)
    <3>1. Range(<< >>) = {}  BY DEF Range
    <3>2. Range(Tail(task[t].todo)) \subseteq Pending(t)'
      <4>1. CASE Len(task[t].todo) <= 1  BY <2>1, <3>1, <4>1
      <4>2. CASE Len(task[t].todo) > 1
        <5>1. task'[t].at = "meta" /\ task'[t].todo = Tail(task[t].todo)
          BY <2>3, <4>2 DEF Finished
        <5> QED  BY <5>1 DEF Pending
      <4> QED  BY <1>1, <4>1, <4>2
    <3>3. task'[t].at # "lookup"  BY <1>1, <2>3 DEF Finished, Idle
    <3> QED  BY <2>2, <2>3, <3>2, <3>3 DEF Finished
  <2>4. CASE \E i : Moves(t, i)
    <3>1. task'[t].todo = task[t].todo /\ Alone(t)  BY <2>4 DEF Moves
    <3>2. CASE task'[t].at \in { "classify", "meta", "lookup" }
      <4>1. Pending(t)' = Range(task[t].todo)  BY <3>1, <3>2 DEF Pending
      <4> QED  BY <2>1, <2>2, <3>1, <4>1
    <3>3. CASE task'[t].at \notin { "classify", "meta", "lookup" }
      <4>1. Pending(t)' = Range(Tail(task[t].todo))  BY <1>3, <3>1, <3>3 DEF Pending
      <4> QED  BY <2>2, <3>1, <3>3, <4>1
    <3> QED  BY <3>2, <3>3
  <2> QED  BY <2>3, <2>4
<1> QED  BY <1>2, <1>3

LEMMA EnteredMoves ==
  ASSUME NEW t \in Task, NEW rs, NEW stage, NEW i, Entered(t, rs, stage, i)
  PROVE  Finished(t) \/ Moves(t, i)
  BY DEF Entered, Decided

LEMMA StagesAccounted ==
  ASSUME Typed, Accounted, NEW t \in Task,
         \/ Ends(t)
         \/ PublishOk(t) \/ PublishFails(t) \/ StartStage(t) \/ ObserverDone(t) \/ RcaDone(t)
         \/ Replayed(t) \/ FixSucceeded(t) \/ Verified(t) \/ HandleFix(t)
  PROVE  Accounted'
<1>1. task[t].at \notin { "classify", "meta", "lookup" }
  BY EndsDoes DEF PublishOk, PublishFails, StartStage, ObserverDone, RcaDone, Replayed,
     FixSucceeded, Verified, HandleFix
<1>2. UNCHANGED << cfg, inbox, Met, dropped >>
  <2>1. ASSUME Ends(t) PROVE UNCHANGED << cfg, inbox, Met, dropped >>
    BY <2>1, EndsDoes DEF Met
  <2>2. ASSUME \/ PublishOk(t) \/ PublishFails(t) \/ StartStage(t) \/ ObserverDone(t) \/ RcaDone(t)
               \/ Replayed(t) \/ FixSucceeded(t) \/ Verified(t) \/ HandleFix(t)
        PROVE  UNCHANGED << cfg, inbox, Met, dropped >>
    BY <2>2 DEF Met, history, PublishOk, PublishFails, StartStage, ObserverDone, RcaDone, Replayed,
       FixSucceeded, Verified, HandleFix
  <2> QED  BY <2>1, <2>2
<1>3. Finished(t) \/ \E i : Moves(t, i)
  <2>1. CASE Ends(t)  BY <2>1, EndsDoes DEF EndedAt
  <2>2. CASE PublishOk(t)  BY <2>2, PublishOkDoes
  <2>3. CASE PublishFails(t)  BY <2>3, PublishFailsDoes, EnteredMoves
  <2>4. CASE StartStage(t)  BY <2>4, StartStageDoes, EnteredMoves
  <2>5. CASE ObserverDone(t)  BY <2>5, ObserverDoneDoes, EnteredMoves
  <2>6. CASE RcaDone(t)  BY <2>6, RcaDoneDoes, EnteredMoves
  <2>7. CASE Replayed(t)  BY <2>7, ReplayedDoes DEF Decided
  <2>8. CASE FixSucceeded(t)  BY <2>8, FixSucceededDoes, EnteredMoves
  <2>9. CASE Verified(t)  BY <2>9, VerifiedDoes
  <2>10. CASE HandleFix(t)  BY <2>10, HandleFixDoes
  <2> QED
    BY <2>1, <2>2, <2>3, <2>4, <2>5, <2>6, <2>7, <2>8, <2>9, <2>10
<1>4. Alone(t) /\ Pending(t) \subseteq Pending(t)' \union Met' \union dropped'
  BY <1>1, <1>3, PendingStep
<1> QED  BY <1>2, <1>4, FailureStep

LEMMA DoorsAccounted ==
  ASSUME Typed, Accounted, NEW t \in Task,
         \/ AgentsDetect(t) \/ AgentsRaises(t) \/ EventsDetect(t) \/ EventsCreate(t)
         \/ EventsRaises(t)
  PROVE  Accounted'
<1> DEFINE f == Head(task[t].todo)
<1>1. UNCHANGED << cfg, inbox >>
  BY DEF AgentsDetect, AgentsRaises, EventsDetect, EventsCreate, EventsRaises
<1>2. ASSUME Met \subseteq Met', dropped \subseteq dropped',
             Finished(t) \/ \E i : Moves(t, i),
             task'[t].at = "lookup" \/ f \in Met' \union dropped'
      PROVE  Accounted'
  <2>1. Alone(t) /\ Pending(t) \subseteq Pending(t)' \union Met' \union dropped'
    BY <1>2, PendingStep
  <2> QED  BY <1>1, <1>2, <2>1, FailureStep
<1> HIDE DEF f
<1>3. ASSUME Heard(f) \/ Unheard(f), dropped' = dropped, Finished(t) \/ \E i : Moves(t, i)
      PROVE  Accounted'
  BY <1>2, <1>3 DEF Heard, Unheard, Met
<1>4. ASSUME Correlated(t, f), dropped' = dropped PROVE Accounted'
  <2>1. Finished(t) \/ \E i : Moves(t, i)  BY <1>4, EnteredMoves DEF Correlated, Resumed
  <2>2. Heard(f) \/ Unheard(f)  BY <1>4 DEF Correlated, Tried
  <2> QED  BY <1>3, <1>4, <2>1, <2>2
<1>5. ASSUME Absorbed(t, f), dropped' = dropped PROVE Accounted'
  <2>1. Finished(t) /\ (Heard(f) \/ Unheard(f))  BY <1>5 DEF Absorbed, Tried
  <2> QED  BY <1>3, <1>5, <2>1
<1>6. ASSUME AgentsDetect(t) PROVE Accounted'
  <2>1. dropped' = dropped  BY <1>6 DEF AgentsDetect
  <2>2. Created(t, f) => Finished(t) \/ \E i : Moves(t, i)  BY EnteredMoves DEF Created
  <2>3. Correlated(t, f) \/ Absorbed(t, f) \/ (Heard(f) /\ Created(t, f))
    BY <1>6, AgentsDetectDoes DEF f
  <2> QED  BY <1>3, <1>4, <1>5, <2>1, <2>2, <2>3
<1>11. ASSUME EventsCreate(t) PROVE Accounted'
  <2>1. Heard(f) /\ dropped' = dropped  BY <1>11, EventsCreateDoes DEF EventsCreate, f
  <2>2. Finished(t) \/ \E i : Moves(t, i)  BY <1>11, EventsCreateDoes, EnteredMoves
  <2> QED  BY <1>3, <2>1, <2>2
<1>7. ASSUME EventsDetect(t) PROVE Accounted'
  <2>1. \/ /\ dropped' = dropped \union {f} /\ Met' = Met
           /\ Finished(t) \/ Moves(t, task'[t].id)
        \/ dropped' = dropped /\ (Correlated(t, f) \/ Absorbed(t, f))
        \/ /\ Met' = Met /\ dropped' = dropped
           /\ task'[t].at = "lookup" /\ Moves(t, task'[t].id)
    BY <1>7, EventsDetectDoes DEF f, Met
  <2> QED  BY <1>2, <1>4, <1>5, <2>1
<1>8. ASSUME Alone(t), Met' = Met, dropped \subseteq dropped', Pending(t) \subseteq dropped'
      PROVE  Accounted'
  BY <1>1, <1>8, FailureStep
<1>9. ASSUME AgentsRaises(t) PROVE Accounted'
  <2>1. Alone(t) /\ Met' = Met /\ dropped \subseteq dropped'
    BY <1>9, AgentsRaisesDoes DEF AgentsRaises, Met
  <2>2. CASE task[t].at = "classify"
    BY <1>8, <1>9, <2>1, <2>2 DEF AgentsRaises, Pending
  <2>3. CASE task[t].at = "ticket"
    <3>1. task[t].todo \in Seq(Failure) /\ Len(task[t].todo) = 1
      BY <2>3 DEF Typed, TaskType, Shape
    <3>2. task[t].todo # << >> /\ Tail(task[t].todo) = << >>  BY <3>1, OneEntry
    <3>3. Pending(t) = {}  BY <2>3, <3>2 DEF Pending, Range
    <3> QED  BY <1>8, <2>1, <3>3
  <2> QED  BY <1>9, <2>2, <2>3 DEF AgentsRaises
<1>10. ASSUME EventsRaises(t) PROVE Accounted'
  <2>1. Alone(t)  BY <1>10, EventsRaisesDoes
  <2>2. Met' = Met /\ dropped' = dropped \union Range(task[t].todo)
    BY <1>10 DEF EventsRaises, Met
  <2>3. Pending(t) \subseteq Range(task[t].todo)
    <3>1. task[t].todo \in Seq(Failure)  BY DEF Typed, TaskType
    <3> QED  BY <3>1, ListParts DEF Pending
  <2> QED  BY <1>8, <2>1, <2>2, <2>3
<1> QED  BY <1>6, <1>7, <1>9, <1>10, <1>11

LEMMA BeginsAccounted ==
  ASSUME Typed, Accounted, Begins PROVE Accounted'
<1>1. ASSUME NEW t \in Task, task[t].at = "idle" PROVE Pending(t) = {}
  BY <1>1 DEF Typed, Shape, Idle, Pending
<1>2. ASSUME NEW t \in Task, NEW e \in Event, AgentsEvent(t, e) PROVE Accounted'
  <2>1. /\ task[t].at = "idle" /\ UNCHANGED << cfg, Met >> /\ Take(e)
        /\ dropped' = dropped \union Range(Tail(Entries[e]))
    BY <1>2 DEF AgentsEvent, Met
  <2>2. /\ Alone(t) /\ task'[t].at = "classify" /\ task'[t].todo = << Head(Entries[e]) >>
        /\ Entries[e] \in Seq(Failure) /\ Entries[e] # << >>
    BY <1>2, AgentsEventDoes
  <2>3. Range(Entries[e]) = { Head(Entries[e]) } \union Range(Tail(Entries[e]))
    BY <2>2, ListParts
  <2>4. Head(Entries[e]) \in Pending(t)'
    <3>1. \A x : x \in Range(<< x >>)  BY DEF Range
    <3> QED  BY <2>2, <3>1 DEF Pending
  <2>5. \A d \in inbox \ inbox' : d = e  BY <2>1, TakeDoes
  <2> QED  BY <1>1, <2>1, <2>2, <2>3, <2>4, <2>5, FailureStep
<1>3. ASSUME NEW t \in Task, NEW e \in Event, EventsEvent(t, e) PROVE Accounted'
  <2>1. task[t].at = "idle" /\ UNCHANGED << cfg, Met, dropped >> /\ Take(e)
    BY <1>3 DEF EventsEvent, history, Met
  <2>2. Alone(t) /\ task'[t].at = "meta" /\ task'[t].todo = Entries[e]
    BY <1>3, EventsEventDoes
  <2>3. Pending(t)' = Range(Entries[e])  BY <2>2 DEF Pending
  <2>4. \A d \in inbox \ inbox' : d = e  BY <2>1, TakeDoes
  <2> QED  BY <1>1, <2>1, <2>2, <2>3, <2>4, FailureStep
<1>4. ASSUME NEW t \in Task, task[t].at = "idle", Alone(t), UNCHANGED << cfg, inbox, Met, dropped >>
      PROVE  Accounted'
  BY <1>1, <1>4, FailureStep
<1>5. ASSUME NEW t \in Task, NEW m \in Message, Deliver(t, m[1], m[2]) PROVE Accounted'
  <2>1. task[t].at = "idle" /\ UNCHANGED << cfg, inbox, Met, dropped >>
    BY <1>5 DEF Deliver, history, Met
  <2> QED  BY <1>4, <1>5, <2>1, DeliverDoes DEF Moves
<1>6. ASSUME NEW t \in Task, NEW i \in Id, NEW stage, LegacyStage(t, i, stage) PROVE Accounted'
  <2>1. task[t].at = "idle" /\ UNCHANGED << cfg, inbox, Met, dropped >>
    BY <1>6 DEF LegacyStage, history, Met
  <2> QED
    BY <1>4, <1>6, <2>1, LegacyStageDoes, EnteredMoves DEF Moves, Finished
<1> QED  BY <1>2, <1>3, <1>5, <1>6 DEF Begins

LEMMA AccountedInductive ==
  ASSUME Typed, Accounted, [Next]_vars PROVE Accounted'
<1>1. ASSUME NEW t \in Task, Works(t) \/ Ends(t) PROVE Accounted'
  <2>1. CASE \/ AgentsDetect(t) \/ AgentsRaises(t) \/ EventsDetect(t) \/ EventsCreate(t)
             \/ EventsRaises(t)
    BY <2>1, DoorsAccounted
  <2>2. CASE ~(\/ AgentsDetect(t) \/ AgentsRaises(t) \/ EventsDetect(t) \/ EventsCreate(t)
               \/ EventsRaises(t))
    BY <1>1, <2>2, StagesAccounted DEF Works
  <2> QED  BY <2>1, <2>2
<1>2. CASE Begins  BY <1>2, BeginsAccounted
<1>3. ASSUME NEW k \in DOMAIN rows, WindowPasses(k) PROVE Accounted'
  BY <1>3 DEF WindowPasses, history, Accounted, Met, Pending
<1>4. CASE Restart
  <2>1. /\ dropped' = dropped \union UNION { Pending(t) : t \in Task }
        /\ UNCHANGED << cfg, inbox, Met >>
    BY <1>4, RestartDoes DEF Met
  <2>2. \A e \in cfg.sends \ inbox : \A f \in Range(Entries[e]) : f \in Met' \union dropped'
    BY <2>1 DEF Accounted
  <2> QED  BY <2>1, <2>2 DEF Accounted
<1>5. CASE UNCHANGED vars
  BY <1>5 DEF vars, history, Accounted, Met, Pending
<1> QED  BY <1>1, <1>2, <1>3, <1>4, <1>5, StepCases

\* The table as r2 has the rows of rs with their signatures, and new ones.
Keeps(rs, r2) ==
    /\ Len(rs) <= Len(r2)
    /\ \A k \in 1 .. Len(rs) : r2[k].sig = rs[k].sig /\ r2[k].group = rs[k].group
    /\ \A k \in 1 .. Len(r2) : k \notin 1 .. Len(rs) => r2[k].group \in {r2[k].sig, NoSig}

LEMMA KeepsRows ==
  ASSUME NEW r1 \in Table, NEW rs \in Table, NEW r2
  PROVE  /\ Keeps(rs, rs)
         /\ \A i : Restated(rs, r2, i) => Keeps(rs, r2)
         /\ Recounted(rs, r2) => Keeps(rs, r2)
         /\ \A i, s, st : Inserted(rs, r2, i, s, st) => Keeps(rs, r2)
         /\ \A i : Keeps(r1, rs) /\ Restated(rs, r2, i) => Keeps(r1, r2)
<1>1. Len(rs) \in Nat /\ Len(r1) \in Nat  BY DEF Table
<1>2. Keeps(rs, rs)  BY <1>1 DEF Keeps
<1>3. \A i : Restated(rs, r2, i) => Keeps(rs, r2)  BY <1>1 DEF Keeps, Restated
<1>4. Recounted(rs, r2) => Keeps(rs, r2)  BY <1>1 DEF Keeps, Recounted
<1>5. ASSUME NEW i, NEW s, NEW st, Inserted(rs, r2, i, s, st) PROVE Keeps(rs, r2)
  <2>1. \A k \in 1 .. Len(r2) : k \notin 1 .. Len(rs) => k = Len(rs) + 1  BY <1>1, <1>5 DEF Inserted
  <2> QED  BY <1>1, <1>5, <2>1 DEF Keeps, Inserted
<1>6. ASSUME NEW i, Keeps(r1, rs), Restated(rs, r2, i) PROVE Keeps(r1, r2)
  <2>1. Len(r2) = Len(rs) /\ Len(r1) <= Len(rs)  BY <1>6 DEF Keeps, Restated
  <2>2. \A k \in 1 .. Len(r1) : k \in 1 .. Len(rs)  BY <1>1, <2>1
  <2> QED  BY <1>1, <1>6, <2>1, <2>2 DEF Keeps, Restated
<1> QED  BY <1>2, <1>3, <1>4, <1>5, <1>6

LEMMA KnownStep ==
  ASSUME Typed, Known, cfg' = cfg, NEW r2, r2 = rows', ~cfg.retype => Keeps(rows, r2),
         uncounted' = uncounted \/ Blind,
         \A f \in Met' \ Met : cfg.retype \/ \E k \in 1 .. Len(r2) : r2[k].sig = SigOf[f]
  PROVE  Known'
<1>1. Blind' = Blind  BY DEF Blind
<1>2. uncounted' # {} => Blind'  BY <1>1 DEF Known
<1>3. ASSUME ~cfg.retype
      PROVE  /\ \A k \in 1 .. Len(r2) : r2[k].group \in {r2[k].sig, NoSig}
             /\ \A f \in Met' : \E k \in 1 .. Len(r2) : r2[k].sig = SigOf[f]
  <2>1. Len(rows) \in Nat  BY DEF Typed, Table
  <2>2. /\ \A k \in 1 .. Len(rows) : rows[k].group \in {rows[k].sig, NoSig}
        /\ \A f \in Met : \E k \in 1 .. Len(rows) : rows[k].sig = SigOf[f]
    BY <1>3 DEF Known
  <2>3. \A k \in 1 .. Len(r2) : r2[k].group \in {r2[k].sig, NoSig}
    BY <1>3, <2>1, <2>2 DEF Keeps
  <2>4. ASSUME NEW f \in Met PROVE \E k \in 1 .. Len(r2) : r2[k].sig = SigOf[f]
    <3>1. PICK k \in 1 .. Len(rows) : rows[k].sig = SigOf[f]  BY <2>2
    <3>2. k \in 1 .. Len(r2) /\ r2[k].sig = rows[k].sig
      <4>1. Len(rows) <= Len(r2) /\ r2[k].sig = rows[k].sig  BY <1>3 DEF Keeps
      <4> QED  BY <2>1, <4>1, <1>3 DEF Keeps
    <3> QED  BY <3>1, <3>2
  <2> QED  BY <1>3, <2>3, <2>4
<1> QED  BY <1>2, <1>3 DEF Known

\* A step of a stage or of a door keeps the rows, and a failure it meets has its incident.
LEMMA StagesKnown ==
  ASSUME Typed, Known, NEW t \in Task, Works(t) \/ Ends(t),
         ~(AgentsDetect(t) \/ EventsDetect(t) \/ EventsCreate(t))
  PROVE  Known'
<1>1. rows \in Table  BY DEF Typed
<1>2. PICK r2 : r2 = rows'  OBVIOUS
<1>3. ASSUME ~cfg.retype => Keeps(rows, r2), UNCHANGED << cfg, heard, uncounted >> PROVE Known'
  <2>1. Met' = Met  BY <1>3 DEF Met
  <2> QED  BY <1>2, <1>3, <2>1, KnownStep
<1>4. ASSUME NEW rs \in Table, NEW stage, NEW i, Entered(t, rs, stage, i),
             ~cfg.retype => Keeps(rows, rs)
      PROVE  ~cfg.retype => Keeps(rows, r2)
  <2>1. Restated(rs, r2, i)  BY <1>2, <1>4 DEF Entered
  <2> QED  BY <1>1, <1>4, <2>1, KeepsRows
<1>5. CASE PublishOk(t) \/ AgentsRaises(t)
  <2>1. r2 = rows /\ UNCHANGED << cfg, heard, uncounted >>
    BY <1>2, <1>5 DEF PublishOk, AgentsRaises, history
  <2> QED  BY <1>1, <1>3, <2>1, KeepsRows
<1>6. CASE PublishFails(t) \/ StartStage(t)
  <2>1. UNCHANGED << cfg, heard, uncounted >>  BY <1>6 DEF PublishFails, StartStage
  <2>2. Entered(t, rows, task[t].next, task[t].id)  BY <1>6, PublishFailsDoes, StartStageDoes
  <2> QED  BY <1>1, <1>3, <1>4, <2>1, <2>2, KeepsRows
<1>7. CASE ObserverDone(t)
  <2>1. UNCHANGED << cfg, heard, uncounted >>  BY <1>7 DEF ObserverDone
  <2>2. PICK rs \in Table : (~cfg.retype => rs = rows) /\ Entered(t, rs, "rca", task[t].id)
    BY <1>7, ObserverDoneDoes
  <2> QED  BY <1>1, <1>3, <1>4, <2>1, <2>2, KeepsRows
<1>8. CASE RcaDone(t)
  <2>1. UNCHANGED << cfg, heard, uncounted >>  BY <1>8 DEF RcaDone
  <2>2. PICK rs \in Table :
          /\ Len(rs) = Len(rows)
          /\ \A k \in 1 .. Len(rows) :
               ~cfg.retype => rs[k].sig = rows[k].sig /\ rs[k].group = rows[k].group
          /\ Entered(t, rs, "fixer", task[t].id)
    BY <1>8, RcaDoneDoes
  <2>3. Len(rows) \in Nat  BY <1>1 DEF Table
  <2>4. ~cfg.retype => Keeps(rows, rs)  BY <2>2, <2>3 DEF Keeps
  <2> QED  BY <1>3, <1>4, <2>1, <2>2, <2>4
<1>9. CASE FixSucceeded(t)
  <2>1. UNCHANGED << cfg, heard, uncounted >>  BY <1>9 DEF FixSucceeded
  <2>2. PICK rs \in Table :
          Restated(rows, rs, task[t].id) /\ Entered(t, rs, "verifier", task[t].id)
    BY <1>9, FixSucceededDoes
  <2>3. Keeps(rows, rs)  BY <1>1, <2>2, KeepsRows
  <2> QED  BY <1>3, <1>4, <2>1, <2>2, <2>3
<1>10. CASE Replayed(t) \/ Verified(t) \/ Ends(t)
  <2>1. UNCHANGED << cfg, heard, uncounted >>
    BY <1>10, EndsDoes DEF Replayed, Verified, history
  <2>2. Restated(rows, r2, task[t].id)
    BY <1>2, <1>10, ReplayedDoes, VerifiedDoes, EndsDoes DEF EndedAt
  <2> QED  BY <1>1, <1>3, <2>1, <2>2, KeepsRows
<1>11. CASE HandleFix(t)
  <2>1. UNCHANGED << cfg, heard, uncounted >>  BY <1>11, HandleFixDoes
  <2>2. PICK rs \in Table :
          /\ Restated(rows, rs, task[t].id)
          /\ r2 = rs \/ \E s \in Sig, j \in Numbers(rs) : Inserted(rs, r2, j, s, "CLASSIFIED")
    BY <1>2, <1>11, HandleFixDoes
  <2>3. Keeps(rs, r2)  BY <2>2, KeepsRows
  <2>4. Keeps(rows, r2)
    <3>1. Len(rows) \in Nat /\ Len(rs) = Len(rows)  BY <1>1, <2>2 DEF Table, Restated
    <3> QED  BY <2>2, <2>3, <3>1 DEF Keeps, Restated
  <2> QED  BY <1>3, <2>1, <2>4
<1>12. CASE EventsRaises(t)
  <2>1. UNCHANGED << cfg, heard, uncounted >>  BY <1>12 DEF EventsRaises
  <2>2. r2 = rows \/ \E i, s, st : Inserted(rows, r2, i, s, st)
    BY <1>2, <1>12, EventsRaisesDoes
  <2> QED  BY <1>1, <1>3, <2>1, <2>2, KeepsRows
<1> QED  BY <1>5, <1>6, <1>7, <1>8, <1>9, <1>10, <1>11, <1>12 DEF Works

LEMMA DoorsKnown ==
  ASSUME Typed, Known, NEW t \in Task, AgentsDetect(t) \/ EventsDetect(t) \/ EventsCreate(t)
  PROVE  Known'
<1> DEFINE f == Head(task[t].todo)
<1>1. /\ rows \in Table /\ Len(rows) \in Nat /\ f \in Failure /\ SigOf[f] # NoSig /\ cfg' = cfg
  <2>1. task[t].at \in { "classify", "meta", "lookup" }
    BY DEF AgentsDetect, EventsDetect, EventsCreate
  <2> QED
    BY <2>1, HeadOfList, ConstantsAssumption
       DEF Typed, Table, AgentsDetect, EventsDetect, EventsCreate
<1>2. PICK r2 : r2 = rows'  OBVIOUS
<1> HIDE DEF f
<1>3. ASSUME Heard(f) \/ Unheard(f), ~cfg.retype => Keeps(rows, r2),
             cfg.retype \/ \E k \in 1 .. Len(r2) : r2[k].sig = SigOf[f]
      PROVE  Known'
  <2>1. Met' \ Met \subseteq {f} /\ (uncounted' = uncounted \/ Blind)
    BY <1>3 DEF Heard, Unheard, Met
  <2> QED  BY <1>1, <1>2, <1>3, <2>1, KnownStep
<1>4. ASSUME NEW rs \in Table, NEW stage, NEW i, Entered(t, rs, stage, i), Keeps(rows, rs),
             \E k \in 1 .. Len(rs) : rs[k].sig = SigOf[f]
      PROVE  Keeps(rows, r2) /\ \E k \in 1 .. Len(r2) : r2[k].sig = SigOf[f]
  <2>1. Restated(rs, r2, i)  BY <1>2, <1>4 DEF Entered
  <2>2. Keeps(rows, r2)  BY <1>1, <1>4, <2>1, KeepsRows
  <2> QED  BY <1>4, <2>1, <2>2 DEF Restated
<1>5. CASE Correlated(t, f)
  <2>1. PICK k \in 1 .. Len(rows), rs \in Table :
          rows[k].sig = SigOf[f] /\ Tried(f, k, rs) /\ Resumed(t, rs, k)
    BY <1>5 DEF Correlated
  <2>2. Recounted(rows, rs) /\ (Heard(f) \/ Unheard(f))  BY <2>1 DEF Tried
  <2>3. Keeps(rows, rs) /\ \E j \in 1 .. Len(rs) : rs[j].sig = SigOf[f]
    BY <1>1, <2>1, <2>2, KeepsRows DEF Recounted
  <2>4. CASE r2 = rs  BY <1>3, <2>2, <2>3, <2>4
  <2>5. ASSUME NEW stage, Entered(t, rs, stage, rs[k].id) PROVE Known'
    BY <1>3, <1>4, <2>2, <2>3, <2>5
  <2> QED  BY <1>2, <2>1, <2>4, <2>5 DEF Resumed
<1>6. CASE Absorbed(t, f)
  <2>1. PICK k \in 1 .. Len(rows) : rows[k].group = SigOf[f] /\ Tried(f, k, r2)
    BY <1>2, <1>6 DEF Absorbed
  <2>2. Recounted(rows, r2) /\ (Heard(f) \/ Unheard(f))  BY <2>1 DEF Tried
  <2>3. ~cfg.retype => rows[k].sig = SigOf[f]  BY <1>1, <2>1 DEF Known
  <2>4. Keeps(rows, r2)  BY <1>1, <2>2, KeepsRows
  <2>5. ~cfg.retype => \E j \in 1 .. Len(r2) : r2[j].sig = SigOf[f]
    BY <2>1, <2>2, <2>3 DEF Recounted
  <2> QED  BY <1>3, <2>2, <2>4, <2>5
<1>7. ASSUME NEW rs \in Table, NEW i, NEW st, Inserted(rows, rs, i, SigOf[f], st)
      PROVE  Keeps(rows, rs) /\ \E k \in 1 .. Len(rs) : rs[k].sig = SigOf[f]
  <2>1. Len(rows) + 1 \in 1 .. Len(rs)  BY <1>1, <1>7 DEF Inserted
  <2>2. Keeps(rows, rs)  BY <1>1, <1>7, KeepsRows
  <2> QED  BY <1>7, <2>1, <2>2 DEF Inserted
<1>8. CASE Heard(f) /\ Created(t, f)
  <2>1. PICK i \in Numbers(rows), rs \in Table :
          /\ Inserted(rows, rs, i, SigOf[f], "CLASSIFIED")
          /\ r2 = rs \/ Entered(t, rs, "observer", i)
    BY <1>2, <1>8 DEF Created
  <2>2. Keeps(rows, rs) /\ \E k \in 1 .. Len(rs) : rs[k].sig = SigOf[f]  BY <1>7, <2>1
  <2> QED  BY <1>3, <1>4, <1>8, <2>1, <2>2
<1>9. CASE EventsCreate(t)
  <2>1. /\ Heard(f)
        /\ \/ Inserted(rows, rows', task[t].id, SigOf[f], "ARTIFACT_MISSING")
           \/ \E rs \in Table :
                /\ Inserted(rows, rs, task[t].id, SigOf[f], "DETECTED")
                /\ Entered(t, rs, "observer", task[t].id)
    BY <1>9, EventsCreateDoes DEF f
  <2>2. CASE Inserted(rows, rows', task[t].id, SigOf[f], "ARTIFACT_MISSING")
    <3>1. r2 \in Table  BY <1>2, <1>9, EventsCreateDoes DEF Typed
    <3>2. Keeps(rows, r2) /\ \E k \in 1 .. Len(r2) : r2[k].sig = SigOf[f]
      BY <1>2, <1>7, <2>2, <3>1
    <3> QED  BY <1>3, <2>1, <3>2
  <2>3. ASSUME NEW rs \in Table, Inserted(rows, rs, task[t].id, SigOf[f], "DETECTED"),
               Entered(t, rs, "observer", task[t].id)
        PROVE  Known'
    <3>1. Keeps(rows, rs) /\ \E k \in 1 .. Len(rs) : rs[k].sig = SigOf[f]  BY <1>7, <2>3
    <3> QED  BY <1>3, <1>4, <2>1, <2>3, <3>1
  <2> QED  BY <2>1, <2>2, <2>3
<1>10. CASE UNCHANGED << rows, heard, uncounted >>
  <2>1. Keeps(rows, r2) /\ Met' = Met  BY <1>1, <1>2, <1>10, KeepsRows DEF Met
  <2> QED  BY <1>1, <1>2, <1>10, <2>1, KnownStep
<1>11. CASE AgentsDetect(t)
  BY <1>5, <1>6, <1>8, <1>11, AgentsDetectDoes DEF f
<1>12. CASE EventsDetect(t)
  BY <1>5, <1>6, <1>10, <1>12, EventsDetectDoes DEF f
<1> QED  BY <1>9, <1>11, <1>12

LEMMA KnownInductive ==
  ASSUME Typed, Known, [Next]_vars PROVE Known'
<1>1. rows \in Table  BY DEF Typed
<1>2. PICK r2 : r2 = rows'  OBVIOUS
<1>3. ASSUME Keeps(rows, r2), UNCHANGED << cfg, heard, uncounted >> PROVE Known'
  <2>1. Met' = Met  BY <1>3 DEF Met
  <2> QED  BY <1>2, <1>3, <2>1, KnownStep
<1>4. ASSUME NEW t \in Task, Works(t) \/ Ends(t) PROVE Known'
  BY <1>4, StagesKnown, DoorsKnown
<1>5. CASE Begins
  <2>1. UNCHANGED << cfg, heard, uncounted >>
    BY <1>5 DEF Begins, AgentsEvent, EventsEvent, Deliver, LegacyStage, history
  <2>2. Keeps(rows, r2)
    <3>1. CASE r2 = rows  BY <1>1, <3>1, KeepsRows
    <3>2. ASSUME NEW t \in Task, NEW i \in Id, NEW stage, LegacyStage(t, i, stage), r2 # rows
          PROVE  Keeps(rows, r2)
      <4>1. PICK rs \in Table : Restated(rows, rs, i) /\ \E to : Entered(t, rs, to, i)
        BY <1>1, <1>2, <3>2, LegacyStageDoes, Unchanged
      <4>2. Restated(rs, r2, i) /\ Keeps(rows, rs)  BY <1>1, <1>2, <4>1, KeepsRows DEF Entered
      <4> QED  BY <1>1, <4>1, <4>2, KeepsRows
    <3> QED  BY <1>2, <1>5, <3>1, <3>2 DEF Begins, AgentsEvent, EventsEvent, Deliver
  <2> QED  BY <1>3, <2>1, <2>2
<1>6. ASSUME NEW k \in DOMAIN rows, WindowPasses(k) PROVE Known'
  <2>1. UNCHANGED << cfg, heard, uncounted >>  BY <1>6 DEF WindowPasses, history
  <2>2. Recounted(rows, r2)  BY <1>2, <1>6, WindowPassesDoes DEF Recounted
  <2> QED  BY <1>1, <1>3, <2>1, <2>2, KeepsRows
<1>7. CASE Restart \/ UNCHANGED vars
  <2>1. UNCHANGED << cfg, rows, heard, uncounted >>  BY <1>7, RestartDoes DEF vars, history
  <2> QED  BY <1>1, <1>2, <1>3, <2>1, KeepsRows
<1> QED  BY <1>4, <1>5, <1>6, <1>7, StepCases

\* FailureAccounted is an invariant: of an event that was delivered, no failure is lost unless it
\* is dropped where the code drops it; what the database refuses is a count, and the incident is
\* there nevertheless.
THEOREM AllAccounted == Spec => []FailureAccounted
<1>1. Init => Typed /\ Accounted /\ Known
  <2>1. Init => Accounted  BY DEF Init, Accounted
  <2>2. Init => Known  BY DEF Init, Known, Met
  <2> QED  BY <2>1, <2>2, InitTyped
<1>2. Typed /\ Accounted /\ Known /\ [Next]_vars => (Typed /\ Accounted /\ Known)'
  BY AccountedInductive, KnownInductive, Inductive
<1>3. Typed /\ Accounted /\ Known => FailureAccounted  BY KnownImpliesFailureAccounted
<1> QED  BY <1>1, <1>2, <1>3, PTL DEF Spec

-----------------------------------------------------------------------------
(* The webhook /agents/orchestrator alone, without faults *)

OnlyAgents == cfg.doors = {"agents"} /\ cfg.faults = {}

Distinct(rs) == \A j, k \in 1 .. Len(rs) : rs[j].id = rs[k].id => j = k

\* The coroutine has no list and is in no segment of another door.
Plain(t) ==
    task[t].at \notin { "meta", "lookup", "breaker", "test" } /\ Len(task[t].todo) <= 1

Doored == Distinct(rows) /\ \A t \in Task : Plain(t)

\* What can happen then.
LEMMA AgentsCases ==
  ASSUME Typed, OnlyAgents, Doored, [Next]_vars
  PROVE  \/ \E t \in Task :
              \/ PublishOk(t) \/ PublishFails(t) \/ StartStage(t) \/ ObserverDone(t) \/ RcaDone(t)
              \/ Replayed(t) \/ FixSucceeded(t) \/ Verified(t) \/ Ends(t) \/ AgentsDetect(t)
         \/ \E t \in Task, e \in Event : AgentsEvent(t, e)
         \/ \E t \in Task, m \in Message : Deliver(t, m[1], m[2])
         \/ \E k \in DOMAIN rows : WindowPasses(k)
         \/ UNCHANGED vars
<1>1. ASSUME NEW t \in Task
      PROVE  ~(HandleFix(t) \/ AgentsRaises(t) \/ EventsDetect(t) \/ EventsCreate(t) \/ EventsRaises(t))
  BY DEF OnlyAgents, Doored, Plain, HandleFix, AgentsRaises, EventsDetect, EventsCreate,
     EventsRaises
<1>2. ASSUME NEW t \in Task, NEW e \in Event PROVE ~EventsEvent(t, e)
  BY DEF OnlyAgents, EventsEvent
<1>3. ASSUME NEW t \in Task, NEW i \in Id, NEW stage PROVE ~LegacyStage(t, i, stage)
  BY DEF OnlyAgents, LegacyStage
<1>4. ~Restart  BY DEF OnlyAgents, Restart
<1> QED  BY <1>1, <1>2, <1>3, <1>4, StepCases, Zenon DEF Works, Begins

\* The rows keep their numbers, and the coroutine that moved stays plain.
LEMMA DooredFrame ==
  ASSUME Typed, Doored, NEW t \in Task, Alone(t), Plain(t)', Distinct(rows')
  PROVE  Doored'
<1>1. ASSUME NEW u \in Task, u # t PROVE Plain(u)'
  BY <1>1 DEF Alone, Plain, Doored
<1> QED  BY <1>1 DEF Doored, Distinct

LEMMA PlainFinished ==
  ASSUME Doored, NEW t \in Task, Finished(t)
  PROVE  Alone(t) /\ Plain(t)' /\ task'[t] = Idle
  BY DEF Doored, Plain, Finished, Idle

LEMMA PlainEntered ==
  ASSUME Doored, NEW t \in Task, NEW rs \in Table, NEW stage, NEW i, Entered(t, rs, stage, i)
  PROVE  Alone(t) /\ Plain(t)' /\ (Distinct(rs) => Distinct(rows'))
<1>1. Distinct(rs) => Distinct(rows')  BY DEF Entered, Restated, Distinct
<1>2. CASE Finished(t)  BY <1>1, <1>2, PlainFinished
<1>3. CASE Moves(t, i) /\ task'[t].at \in { "publish", "observe", "rca", "replay", "verify", "fixticket", "fix" }
  BY <1>1, <1>3 DEF Moves, Plain, Doored
<1> QED  BY <1>1, <1>2, <1>3 DEF Entered, Decided

LEMMA DistinctRows ==
  ASSUME NEW rs \in Table, NEW r2, Distinct(rs)
  PROVE  /\ \A i : Restated(rs, r2, i) => Distinct(r2)
         /\ Recounted(rs, r2) => Distinct(r2)
         /\ Len(r2) = Len(rs) /\ (\A k \in 1 .. Len(rs) : r2[k].id = rs[k].id) => Distinct(r2)
<1>1. \A i : Restated(rs, r2, i) => Distinct(r2)  BY DEF Restated, Distinct
<1>2. Recounted(rs, r2) => Distinct(r2)  BY DEF Recounted, Distinct
<1>3. Len(r2) = Len(rs) /\ (\A k \in 1 .. Len(rs) : r2[k].id = rs[k].id) => Distinct(r2)
  BY DEF Distinct
<1> QED  BY <1>1, <1>2, <1>3

\* Without faults a new incident gets a number no row, coroutine or message has.
LEMMA NewNumber ==
  ASSUME Typed, OnlyAgents, NEW i \in Numbers(rows)
  PROVE  ~Holds(rows, i)
<1>1. i = NextId(rows) /\ rows \in Table  BY DEF OnlyAgents, Numbers, Typed
<1>2. \A k \in 1 .. Len(rows) : rows[k].id < NextId(rows)  BY <1>1, NextIdIsNew
<1>3. \A k \in 1 .. Len(rows) : rows[k].id \in Nat
  <2> TAKE k \in 1 .. Len(rows)
  <2>1. rows[k] \in Row  BY <1>1 DEF Table
  <2> QED  BY <2>1, ConstantsAssumption DEF Row, Id
<1>4. NextId(rows) \in Nat
  <2>1. NextId(rows) \in 1 .. Len(rows) + 1 /\ Len(rows) \in Nat  BY <1>1, NextIdIsNew DEF Table
  <2> QED  BY <2>1
<1> QED  BY <1>1, <1>2, <1>3, <1>4 DEF Holds

LEMMA InsertedDistinct ==
  ASSUME NEW rs \in Table, NEW r2, NEW i, NEW s, NEW st, Inserted(rs, r2, i, s, st),
         ~Holds(rs, i), Distinct(rs)
  PROVE  Distinct(r2)
<1>1. Len(rs) \in Nat  BY DEF Table
<1>2. \A k \in 1 .. Len(r2) : k \in 1 .. Len(rs) \/ k = Len(rs) + 1  BY <1>1 DEF Inserted
<1>3. \A k \in 1 .. Len(rs) : r2[k] = rs[k] /\ r2[k].id # i  BY DEF Inserted, Holds
<1> QED  BY <1>1, <1>2, <1>3 DEF Inserted, Distinct

LEMMA DooredInductive ==
  ASSUME Typed, OnlyAgents, Doored, [Next]_vars PROVE Doored'
<1>1. rows \in Table /\ Distinct(rows) /\ task \in [Task -> TaskType]  BY DEF Typed, Doored
<1>2. ASSUME NEW t \in Task, Finished(t), Distinct(rows') PROVE Doored'
  BY <1>2, PlainFinished, DooredFrame
<1>3. ASSUME NEW t \in Task, NEW rs \in Table, NEW stage, NEW i, Distinct(rs), Entered(t, rs, stage, i)
      PROVE  Doored'
  BY <1>3, PlainEntered, DooredFrame
<1>4. ASSUME NEW t \in Task, PublishFails(t) \/ StartStage(t) \/ ObserverDone(t) \/ RcaDone(t) \/ FixSucceeded(t)
      PROVE  Doored'
  <2>1. CASE PublishFails(t)  BY <1>1, <1>3, <2>1, PublishFailsDoes
  <2>2. CASE StartStage(t)  BY <1>1, <1>3, <2>2, StartStageDoes
  <2>3. CASE ObserverDone(t)
    <3>1. PICK rs \in Table :
            /\ Len(rs) = Len(rows) /\ \A k \in 1 .. Len(rows) : rs[k].id = rows[k].id
            /\ Entered(t, rs, "rca", task[t].id)
      BY <2>3, ObserverDoneDoes
    <3> QED  BY <1>1, <1>3, <3>1, DistinctRows
  <2>4. CASE RcaDone(t)
    <3>1. PICK rs \in Table :
            /\ Len(rs) = Len(rows) /\ \A k \in 1 .. Len(rows) : rs[k].id = rows[k].id
            /\ Entered(t, rs, "fixer", task[t].id)
      BY <2>4, RcaDoneDoes
    <3> QED  BY <1>1, <1>3, <3>1, DistinctRows
  <2>5. CASE FixSucceeded(t)
    <3>1. PICK rs \in Table : Restated(rows, rs, task[t].id) /\ Entered(t, rs, "verifier", task[t].id)
      BY <2>5, FixSucceededDoes
    <3> QED  BY <1>1, <1>3, <3>1, DistinctRows
  <2> QED  BY <1>4, <2>1, <2>2, <2>3, <2>4, <2>5
<1>5. ASSUME NEW t \in Task, PublishOk(t) \/ Verified(t) \/ Ends(t) PROVE Doored'
  <2>1. Finished(t) /\ (rows' = rows \/ Restated(rows, rows', task[t].id))
    BY <1>5, PublishOkDoes, VerifiedDoes, EndsDoes DEF EndedAt
  <2>2. Distinct(rows')  BY <1>1, <2>1, DistinctRows
  <2> QED  BY <1>2, <2>1, <2>2
<1>6. ASSUME NEW t \in Task, Replayed(t) PROVE Doored'
  <2>1. /\ Restated(rows, rows', task[t].id)
        /\ \/ Finished(t)
           \/ Moves(t, task[t].id) /\ task'[t].at \in { "fixticket", "fix" }
    BY <1>6, ReplayedDoes DEF Decided
  <2>2. Distinct(rows')  BY <1>1, <2>1, DistinctRows
  <2>3. CASE Moves(t, task[t].id) /\ task'[t].at \in { "fixticket", "fix" }
    BY <2>2, <2>3, DooredFrame DEF Moves, Plain, Doored
  <2> QED  BY <1>2, <2>1, <2>2, <2>3
<1>7. ASSUME NEW t \in Task, AgentsDetect(t) PROVE Doored'
  <2>1. CASE Correlated(t, Head(task[t].todo))
    <3>1. PICK k \in 1 .. Len(rows), rs \in Table : Recounted(rows, rs) /\ Resumed(t, rs, k)
      BY <2>1 DEF Correlated, Tried
    <3>2. Distinct(rs)  BY <1>1, <3>1, DistinctRows
    <3> QED  BY <1>2, <1>3, <3>1, <3>2 DEF Resumed
  <2>2. CASE Absorbed(t, Head(task[t].todo))
    <3>1. PICK r2 : r2 = rows'  OBVIOUS
    <3>2. Finished(t) /\ Recounted(rows, r2)  BY <2>2, <3>1 DEF Absorbed, Tried
    <3>3. Distinct(r2)  BY <1>1, <3>2, DistinctRows
    <3> QED  BY <1>2, <3>1, <3>2, <3>3
  <2>3. CASE Created(t, Head(task[t].todo))
    <3>1. PICK i \in Numbers(rows), rs \in Table :
            /\ Inserted(rows, rs, i, SigOf[Head(task[t].todo)], "CLASSIFIED")
            /\ \/ Moves(t, i) /\ task'[t].at = "ticket" /\ rows' = rs
               \/ Entered(t, rs, "observer", i)
      BY <2>3 DEF Created
    <3>2. Distinct(rs)  BY <1>1, <3>1, NewNumber, InsertedDistinct
    <3>3. CASE Moves(t, i) /\ task'[t].at = "ticket" /\ rows' = rs
      BY <3>2, <3>3, DooredFrame DEF Moves, Plain, Doored
    <3> QED  BY <1>3, <3>1, <3>2, <3>3
  <2> QED  BY <1>7, <2>1, <2>2, <2>3, AgentsDetectDoes
<1>8. ASSUME NEW t \in Task, NEW e \in Event, AgentsEvent(t, e) PROVE Doored'
  <2>1. /\ Alone(t) /\ task'[t].at = "classify" /\ task'[t].todo = << Head(Entries[e]) >>
    BY <1>8, AgentsEventDoes
  <2>2. Plain(t)'  BY <2>1 DEF Plain
  <2>3. rows' = rows  BY <1>8 DEF AgentsEvent
  <2> QED  BY <1>1, <2>1, <2>2, <2>3, DooredFrame
<1>9. ASSUME NEW t \in Task, NEW m \in Message, Deliver(t, m[1], m[2]) PROVE Doored'
  <2>1. Moves(t, m[2]) /\ task'[t].at = "accepted"  BY <1>9, DeliverDoes
  <2>2. Alone(t) /\ Plain(t)'  BY <2>1 DEF Moves, Plain, Doored
  <2>3. rows' = rows  BY <1>9 DEF Deliver
  <2> QED  BY <1>1, <2>2, <2>3, DooredFrame
<1>10. ASSUME NEW k \in DOMAIN rows, WindowPasses(k) PROVE Doored'
  <2>1. Distinct(rows')  BY <1>1, <1>10, WindowPassesDoes, DistinctRows
  <2>2. task' = task  BY <1>10 DEF WindowPasses
  <2> QED  BY <2>1, <2>2 DEF Doored, Plain, Distinct
<1>11. CASE UNCHANGED vars
  BY <1>11 DEF vars, Doored, Plain, Distinct
<1> QED  BY <1>4, <1>5, <1>6, <1>7, <1>8, <1>9, <1>10, <1>11, AgentsCases

-----------------------------------------------------------------------------
(* One coroutine or one message for an incident *)

\* An incident that stands for one failure only, so that no recurrence has resumed it.
Once(rs, i) == \E k \in 1 .. Len(rs) : rs[k].id = i /\ rs[k].n = 1

Final(rs, i) == \E k \in 1 .. Len(rs) : rs[k].id = i /\ rs[k].n = 1 /\ rs[k].st \in Terminal

\* The incident is in one coroutine or in one message, and in no other.
Single(i) ==
    /\ \A t, u \in Task : i \in Carried(t) /\ i \in Carried(u) => t = u
    /\ \A t \in Task, s \in StageName : i \in Carried(t) => queue[<< s, i >>] = 0
    /\ \A s, r \in StageName : queue[<< s, i >>] > 0 /\ queue[<< r, i >>] > 0 => s = r
    /\ \A s \in StageName : queue[<< s, i >>] <= 1

\* Only the verifier, which leaves final statuses final, is still to come.
Closing(i) ==
    /\ \A t \in Task : i \in Carried(t) => ToVerifier(t)
    /\ \A s \in StageName : queue[<< s, i >>] > 0 => s = "verifier"

Older(rs) ==
    \A j, k \in 1 .. Len(rs) :
      j < k /\ rs[j].sig = rs[k].sig /\ rs[j].sig \notin Unnamed =>
        rs[j].st \in Terminal \/ rs[j].n > 1

Tokens ==
    \A i \in Id \ {0} : (Once(rows, i) => Single(i)) /\ (Final(rows, i) => Closing(i))

Undoubled == OnlyAgents /\ ~cfg.retype /\ dups = cfg.spare

\* The inductive form of AgentsDoorIsAtomic.
Atomic ==
    OnlyAgents =>
      /\ Doored
      /\ (~cfg.retype /\ dups = cfg.spare) => (Older(rows) /\ Tokens)

\* A step of t that touches incident i only leaves the other incidents where they were.
LEMMA OthersTokens ==
  ASSUME NEW t \in Task, Alone(t), NEW i, Carried(t) \subseteq {i}, Carried(t)' \subseteq {i},
         \A m \in Message : m[2] # i => queue'[m] = queue[m],
         NEW j \in Id \ {0}, j # i
  PROVE  (Single(j) => Single(j)') /\ (Closing(j) => Closing(j)')
<1>1. \A u \in Task : j \in Carried(u)' => u # t /\ j \in Carried(u) /\ task'[u] = task[u]
  <2> SUFFICES ASSUME NEW u \in Task, j \in Carried(u)'
               PROVE  u # t /\ j \in Carried(u) /\ task'[u] = task[u]
    OBVIOUS
  <2>1. u # t  OBVIOUS
  <2>2. task'[u] = task[u]  BY <2>1 DEF Alone
  <2> QED  BY <2>1, <2>2 DEF Carried
<1>2. \A s \in StageName : queue'[<< s, j >>] = queue[<< s, j >>]  BY DEF Message
<1>3. ASSUME Single(j) PROVE Single(j)'
  BY <1>1, <1>2, <1>3 DEF Single
<1>4. ASSUME Closing(j) PROVE Closing(j)'
  BY <1>1, <1>2, <1>4 DEF Closing, ToVerifier
<1> QED  BY <1>3, <1>4

LEMMA TokensStep ==
  ASSUME Tokens, NEW t \in Task, Alone(t), NEW i, Carried(t) \subseteq {i}, Carried(t)' \subseteq {i},
         \A m \in Message : m[2] # i => queue'[m] = queue[m],
         \A j : j # i /\ Once(rows', j) => Once(rows, j),
         \A j : j # i /\ Final(rows', j) => Final(rows, j),
         Once(rows', i) => Single(i)', Final(rows', i) => Closing(i)'
  PROVE  Tokens'
<1> SUFFICES ASSUME NEW j \in Id \ {0}
             PROVE  (Once(rows', j) => Single(j)') /\ (Final(rows', j) => Closing(j)')
  BY DEF Tokens, Once, Final
<1>1. CASE j = i  BY <1>1
<1>2. CASE j # i
  <2>1. (Single(j) => Single(j)') /\ (Closing(j) => Closing(j)')  BY <1>2, OthersTokens
  <2> QED  BY <1>2, <2>1 DEF Tokens
<1> QED  BY <1>1, <1>2

\* The coroutine that has the incident keeps it or lets it go.
LEMMA CarrierStep ==
  ASSUME Typed, Tokens, NEW t \in Task, Alone(t), NEW i \in Id \ {0}, Carried(t) = {i},
         Carried(t)' \subseteq {i}, queue' = queue,
         \A j : Once(rows', j) => Once(rows, j),
         \A j : j # i /\ Final(rows', j) => Final(rows, j),
         i \in Carried(t)' => ToVerifier(t)' \/ ~Final(rows', i)
  PROVE  Tokens'
<1>1. \A u \in Task : i \in Carried(u)' => i \in Carried(u)
  <2> SUFFICES ASSUME NEW u \in Task, u # t PROVE Carried(u)' = Carried(u)
    OBVIOUS
  <2> QED  BY DEF Alone, Carried
<1>2. Final(rows', i) => Once(rows', i)  BY DEF Final, Once
<1>3. ASSUME Once(rows', i) PROVE Single(i) /\ Single(i)'
  <2>1. Single(i)  BY <1>3 DEF Tokens
  <2> QED  BY <1>1, <2>1 DEF Single
<1>4. ASSUME Final(rows', i) PROVE Closing(i)'
  <2>1. Single(i)  BY <1>2, <1>3, <1>4
  <2>2. \A u \in Task : i \in Carried(u)' => u = t /\ ToVerifier(t)'
    BY <1>1, <1>4, <2>1 DEF Single
  <2>3. \A s \in StageName : queue'[<< s, i >>] = 0  BY <2>1 DEF Single
  <2> QED  BY <2>2, <2>3 DEF Closing
<1> QED  BY <1>3, <1>4, TokensStep

\* An incident that is not on its way to the verifier has no final status.
LEMMA NotFinal ==
  ASSUME Tokens, NEW t \in Task, NEW i \in Id \ {0}, i \in Carried(t), ~ToVerifier(t)
  PROVE  ~Final(rows, i)
  BY DEF Tokens, Closing

\* What is once and final in tables that differ in the rows numbered i only.
LEMMA TokenRows ==
  ASSUME NEW rs \in Table, NEW r2, NEW i
  PROVE  /\ Restated(rs, r2, i) =>
              /\ \A j : Once(r2, j) <=> Once(rs, j)
              /\ \A j : j # i => (Final(r2, j) <=> Final(rs, j))
         /\ \A st \in PipelineStatus \ Terminal : Are(r2, i, st) => ~Final(r2, i)
         /\ \A k \in 1 .. Len(rs) : CountedAt(rs, r2, k) =>
              /\ ~Once(r2, rs[k].id) /\ ~Final(r2, rs[k].id)
              /\ \A j : Once(r2, j) => Once(rs, j)
              /\ \A j : Final(r2, j) => Final(rs, j)
<1>1. ASSUME Restated(rs, r2, i)
      PROVE  /\ \A j : Once(r2, j) <=> Once(rs, j)
             /\ \A j : j # i => (Final(r2, j) <=> Final(rs, j))
  BY <1>1 DEF Restated, Once, Final
<1>2. ASSUME NEW st \in PipelineStatus \ Terminal, Are(r2, i, st) PROVE ~Final(r2, i)
  BY <1>2 DEF Are, Final
<1>3. ASSUME NEW k \in 1 .. Len(rs), CountedAt(rs, r2, k)
      PROVE  /\ ~Once(r2, rs[k].id) /\ ~Final(r2, rs[k].id)
             /\ \A j : Once(r2, j) => Once(rs, j)
             /\ \A j : Final(r2, j) => Final(rs, j)
  <2>1. rs[k] \in Row  BY DEF Table
  <2>2. rs[k].n \in Nat /\ rs[k].n > 0  BY <2>1 DEF Row, Table, Dense
  <2>3. \A j \in 1 .. Len(r2) : r2[j].n = 1 => rs[j].id # rs[k].id /\ rs[j].n = 1
    BY <1>3, <2>2 DEF CountedAt
  <2> QED  BY <1>3, <2>3 DEF CountedAt, Once, Final
<1> QED  BY <1>1, <1>2, <1>3

\* An older incident of the same signature stays closed.
LEMMA OlderKept ==
  ASSUME NEW rs \in Table, NEW r2 \in Table, Older(rs), Len(r2) = Len(rs),
         \A k \in 1 .. Len(rs) :
           /\ r2[k].sig = rs[k].sig
           /\ rs[k].n > 1 => r2[k].n > 1
           /\ rs[k].st \in Terminal /\ rs[k].n = 1 => r2[k].st \in Terminal
  PROVE  Older(r2)
<1>1. \A k \in 1 .. Len(rs) : rs[k].n \in Nat /\ rs[k].n > 0
  <2> TAKE k \in 1 .. Len(rs)
  <2>1. rs[k] \in Row  BY DEF Table
  <2> QED  BY <2>1 DEF Row, Table, Dense
<1>2. \A k \in 1 .. Len(rs) :
        rs[k].st \in Terminal \/ rs[k].n > 1 => r2[k].st \in Terminal \/ r2[k].n > 1
  BY <1>1
<1> QED  BY <1>2 DEF Older

LEMMA OlderRows ==
  ASSUME NEW rs \in Table, Older(rs), NEW r2 \in Table, NEW i
  PROVE  /\ (Restated(rs, r2, i) /\ ~Final(rs, i)) => Older(r2)
         /\ \A st \in Terminal : (Restated(rs, r2, i) /\ Are(r2, i, st)) => Older(r2)
         /\ \A k \in 1 .. Len(rs) : CountedAt(rs, r2, k) => Older(r2)
<1>1. ASSUME Restated(rs, r2, i), ~Final(rs, i) PROVE Older(r2)
  BY <1>1, OlderKept DEF Restated, Final
<1>2. ASSUME NEW st \in Terminal, Restated(rs, r2, i), Are(r2, i, st) PROVE Older(r2)
  BY <1>2, OlderKept DEF Restated, Are
<1>3. ASSUME NEW k \in 1 .. Len(rs), CountedAt(rs, r2, k) PROVE Older(r2)
  <2>1. \A j \in 1 .. Len(rs) : rs[j].n \in Nat /\ rs[j].n > 0
    <3> TAKE j \in 1 .. Len(rs)
    <3>1. rs[j] \in Row  BY DEF Table
    <3> QED  BY <3>1 DEF Row, Table, Dense
  <2>2. \A j \in 1 .. Len(rs) : rs[j].n > 1 => r2[j].n > 1  BY <1>3, <2>1 DEF CountedAt
  <2> QED  BY <1>3, <2>2, OlderKept DEF CountedAt
<1> QED  BY <1>1, <1>2, <1>3

\* A coroutine that hands its incident on, to the verifier when the status is final.
LEMMA EnteredTokens ==
  ASSUME Typed, Tokens, ~Blind, NEW t \in Task, NEW i \in Id \ {0}, i \in Carried(t),
         NEW rs \in Table, NEW stage \in StageName, Entered(t, rs, stage, i), queue' = queue,
         \A j : Once(rs, j) => Once(rows, j),
         \A j : j # i /\ Final(rs, j) => Final(rows, j),
         stage # "verifier" => ~Final(rs, i)
  PROVE  Tokens' /\ (Older(rs) => Older(rows'))
<1>1. rows' \in Table /\ Restated(rs, rows', i)  BY DEF Entered
<1>2. Carried(t) = {i}  BY WorkingIs DEF Carried
<1>3. /\ \A j : Once(rows', j) => Once(rows, j)
      /\ \A j : j # i /\ Final(rows', j) => Final(rows, j)
  BY <1>1, TokenRows
<1>4. Alone(t)  BY DEF Entered, Decided, Moves, Finished
<1>5. CASE stage = "verifier"
  <2>1. /\ Moves(t, i) /\ rows' = rs
        /\ task'[t].at = "verify" \/ (task'[t].at = "publish" /\ task'[t].next = "verifier")
    BY <1>5 DEF Entered
  <2>2. Carried(t)' = {i} /\ ToVerifier(t)'  BY <2>1 DEF Moves, Carried, ToVerifier
  <2>3. Tokens'  BY <1>2, <1>3, <1>4, <2>2, CarrierStep
  <2> QED  BY <2>1, <2>3
<1>6. CASE stage # "verifier"
  <2>1. /\ "OBSERVED" \in PipelineStatus \ Terminal
        /\ "RCA_IN_PROGRESS" \in PipelineStatus \ Terminal
        /\ "FIX_IN_PROGRESS" \in PipelineStatus \ Terminal
        /\ "AWAITING_APPROVAL" \in PipelineStatus \ Terminal
    BY DEF PipelineStatus, Terminal, FixFailed, InProgress
  <2>2. \/ rows' = rs
        \/ \E st \in PipelineStatus \ Terminal : Are(rows', i, st)
    BY <1>6, <2>1 DEF Entered, Decided
  <2>3. ~Final(rows', i)  BY <1>6, <2>2, TokenRows
  <2>4. Carried(t)' \subseteq {i}
    <3>1. CASE Moves(t, i)  BY <3>1 DEF Moves, Carried
    <3>2. CASE Finished(t)
      <4>1. task \in [Task -> TaskType]  BY DEF Typed
      <4> QED  BY <3>2, <4>1, FinishedShape
    <3> QED  BY <3>1, <3>2 DEF Entered, Decided
  <2>5. Tokens'  BY <1>2, <1>3, <1>4, <2>3, <2>4, CarrierStep
  <2>6. Older(rs) => Older(rows')  BY <1>1, <1>6, OlderRows
  <2> QED  BY <2>5, <2>6
<1> QED  BY <1>5, <1>6

\* The stages that go on in their coroutine.
LEMMA StagesTokens ==
  ASSUME Typed, Undoubled, Older(rows), Tokens, NEW t \in Task, dups' = dups
  PROVE  /\ PublishFails(t) => Older(rows') /\ Tokens'
         /\ StartStage(t) => Older(rows') /\ Tokens'
         /\ ObserverDone(t) => Older(rows') /\ Tokens'
         /\ RcaDone(t) => Older(rows') /\ Tokens'
         /\ FixSucceeded(t) => Older(rows') /\ Tokens'
<1>0. PICK i : i = task[t].id  OBVIOUS
<1>1. rows \in Table /\ dups \in Nat
  <2>1. cfg.spare \in Nat  BY ConstantsAssumption DEF Typed, ConfigType
  <2> QED  BY <2>1 DEF Typed
<1>8. ~Blind  BY DEF Undoubled, OnlyAgents, Blind
<1>2. ASSUME task[t].at \in { "publish", "accepted" }, task[t].next \in StageName,
             i \in Id \ {0}, Entered(t, rows, task[t].next, i), queue' = queue
      PROVE  Older(rows') /\ Tokens'
  <2>1. i \in Carried(t)  BY <1>0, <1>2 DEF Carried
  <2>2. task[t].next # "verifier" => ~ToVerifier(t)  BY <1>2 DEF ToVerifier
  <2>3. task[t].next # "verifier" => ~Final(rows, i)  BY <1>2, <2>1, <2>2, NotFinal
  <2> QED  BY <1>1, <1>2, <2>1, <2>3, <1>8, EnteredTokens
<1>3. ASSUME PublishFails(t) PROVE Older(rows') /\ Tokens'
  <2>1. /\ task[t].next \in StageName /\ i \in Id \ {0} /\ Entered(t, rows, task[t].next, i)
        /\ queue' = queue \/ dups' = dups - 1
    BY <1>0, <1>3, PublishFailsDoes
  <2>2. queue' = queue  BY <1>1, <2>1
  <2>3. task[t].at = "publish"  BY <1>3 DEF PublishFails
  <2> QED  BY <1>2, <2>1, <2>2, <2>3
<1>4. ASSUME StartStage(t) PROVE Older(rows') /\ Tokens'
  <2>1. task[t].next \in StageName /\ i \in Id \ {0} /\ Entered(t, rows, task[t].next, i)
    BY <1>0, <1>4, StartStageDoes
  <2>2. task[t].at = "accepted" /\ queue' = queue  BY <1>4 DEF StartStage
  <2> QED  BY <1>2, <2>1, <2>2
<1>5. ASSUME ObserverDone(t) PROVE Older(rows') /\ Tokens'
  <2>1. /\ task[t].at = "observe" /\ queue' = queue /\ ~cfg.retype
    BY <1>5 DEF ObserverDone, Undoubled
  <2>2. i \in Id \ {0} /\ Entered(t, rows, "rca", i)  BY <1>0, <1>5, <2>1, ObserverDoneDoes
  <2>3. i \in Carried(t) /\ ~ToVerifier(t)  BY <1>0, <2>1 DEF Carried, ToVerifier
  <2>4. ~Final(rows, i)  BY <2>2, <2>3, NotFinal
  <2> QED  BY <1>1, <2>1, <2>2, <2>3, <2>4, <1>8, EnteredTokens DEF StageName
<1>6. ASSUME RcaDone(t) PROVE Older(rows') /\ Tokens'
  <2>1. /\ task[t].at = "rca" /\ queue' = queue /\ ~cfg.retype
    BY <1>6 DEF RcaDone, Undoubled
  <2>2. PICK rs \in Table :
          /\ i \in Id \ {0} /\ Len(rs) = Len(rows)
          /\ \A k \in 1 .. Len(rows) :
               /\ rs[k].id = rows[k].id /\ rs[k].n = rows[k].n /\ rs[k].sig = rows[k].sig
               /\ rs[k].id # i => rs[k].st = rows[k].st
          /\ Are(rs, i, "RCA_COMPLETE")
          /\ Entered(t, rs, "fixer", i)
    BY <1>0, <1>6, <2>1, RcaDoneDoes
  <2>3. i \in Carried(t) /\ ~ToVerifier(t)  BY <1>0, <2>1 DEF Carried, ToVerifier
  <2>4. ~Final(rows, i)  BY <2>2, <2>3, NotFinal
  <2>5. ~Final(rs, i)
    BY <2>2 DEF Final, Are, Terminal, FixFailed
  <2>6. /\ \A j : Once(rs, j) => Once(rows, j)
        /\ \A j : j # i /\ Final(rs, j) => Final(rows, j)
    BY <2>2 DEF Once, Final
  <2>7. Older(rs)
    <3>1. \A k \in 1 .. Len(rows) :
            rows[k].st \in Terminal /\ rows[k].n = 1 => rs[k].st \in Terminal
      BY <2>2, <2>4 DEF Final
    <3> QED  BY <1>1, <2>2, <3>1, OlderKept
  <2> QED  BY <2>1, <2>2, <2>3, <2>5, <2>6, <2>7, <1>8, EnteredTokens DEF StageName
<1>7. ASSUME FixSucceeded(t) PROVE Older(rows') /\ Tokens'
  <2>1. PICK rs \in Table, st \in Resting \intersect Terminal :
          /\ i \in Id \ {0} /\ Restated(rows, rs, i) /\ Are(rs, i, st)
          /\ Entered(t, rs, "verifier", i)
    BY <1>0, <1>7, FixSucceededDoes
  <2>2. task[t].at = "fix" /\ queue' = queue  BY <1>7 DEF FixSucceeded
  <2>3. i \in Carried(t)  BY <1>0, <2>2 DEF Carried
  <2>4. /\ \A j : Once(rs, j) => Once(rows, j)
        /\ \A j : j # i /\ Final(rs, j) => Final(rows, j)
    BY <1>1, <2>1, TokenRows
  <2>5. Older(rs)  BY <1>1, <2>1, OlderRows
  <2> QED  BY <2>1, <2>2, <2>3, <2>4, <2>5, <1>8, EnteredTokens DEF StageName
<1> QED  BY <1>3, <1>4, <1>5, <1>6, <1>7

\* The ends of a stage, the replay and the verifier.
LEMMA EndsTokens ==
  ASSUME Typed, Older(rows), Tokens, NEW t \in Task, Plain(t)
  PROVE  /\ Ends(t) => Older(rows') /\ Tokens'
         /\ Replayed(t) => Older(rows') /\ Tokens'
         /\ Verified(t) => Older(rows') /\ Tokens'
<1>0. PICK i : i = task[t].id  OBVIOUS
<1>1. rows \in Table /\ task \in [Task -> TaskType]  BY DEF Typed
<1>2. ASSUME i \in Id \ {0}, Carried(t) = {i}, Alone(t), Carried(t)' \subseteq {i}, queue' = queue,
             Restated(rows, rows', i), i \in Carried(t)' => ToVerifier(t)' \/ ~Final(rows', i)
      PROVE  Tokens'
  <2>1. /\ \A j : Once(rows', j) => Once(rows, j)
        /\ \A j : j # i /\ Final(rows', j) => Final(rows, j)
    BY <1>1, <1>2, TokenRows
  <2> QED  BY <1>2, <2>1, CarrierStep
<1>3. ASSUME Ends(t) PROVE Older(rows') /\ Tokens'
  <2>1. /\ i \in Id \ {0} /\ EndedAt(t, i) /\ queue' = queue
        /\ task[t].at \in { "ticket", "breaker", "observe", "rca", "fixticket", "replay", "fix" }
    BY <1>0, <1>3, EndsDoes
  <2>2. Carried(t) = {i} /\ ~ToVerifier(t)  BY <1>0, <2>1 DEF Carried, ToVerifier, Plain
  <2>3. ~Final(rows, i)  BY <2>1, <2>2, NotFinal
  <2>4. Finished(t) /\ rows' \in Table /\ Restated(rows, rows', i)  BY <2>1 DEF EndedAt
  <2>5. Carried(t)' = {} /\ Alone(t)  BY <1>1, <2>4, FinishedShape DEF Finished
  <2>6. Tokens'  BY <1>2, <2>1, <2>2, <2>4, <2>5
  <2> QED  BY <1>1, <2>3, <2>4, <2>6, OlderRows
<1>4. ASSUME Replayed(t) PROVE Older(rows') /\ Tokens'
  <2>1. /\ i \in Id \ {0} /\ rows' \in Table /\ Restated(rows, rows', i)
        /\ Finished(t) \/ Decided(t, rows, i, task[t].act)
    BY <1>0, <1>4, ReplayedDoes
  <2>2. task[t].at = "replay" /\ queue' = queue  BY <1>4 DEF Replayed
  <2>3. Carried(t) = {i} /\ ~ToVerifier(t)  BY <1>0, <2>2 DEF Carried, ToVerifier
  <2>4. ~Final(rows, i)  BY <2>1, <2>3, NotFinal
  <2>5. Older(rows')  BY <1>1, <2>1, <2>4, OlderRows
  <2>6. CASE Finished(t)
    <3>1. Carried(t)' = {} /\ Alone(t)  BY <1>1, <2>6, FinishedShape DEF Finished
    <3> QED  BY <1>2, <2>1, <2>2, <2>3, <2>5, <3>1
  <2>7. CASE Moves(t, i) /\ (rows' = rows \/ Are(rows', i, "FIX_IN_PROGRESS"))
    <3>1. Alone(t) /\ Carried(t)' \subseteq {i}  BY <2>7 DEF Moves, Carried
    <3>2. "FIX_IN_PROGRESS" \in PipelineStatus \ Terminal
      BY DEF PipelineStatus, Terminal, FixFailed, InProgress
    <3>3. ~Final(rows', i)  BY <1>1, <2>4, <2>7, <3>2, TokenRows
    <3> QED  BY <1>2, <2>1, <2>2, <2>3, <2>5, <3>1, <3>3
  <2> QED  BY <2>1, <2>6, <2>7 DEF Decided
<1>5. ASSUME Verified(t) PROVE Older(rows') /\ Tokens'
  <2>1. /\ i \in Id \ {0} /\ Finished(t) /\ rows' \in Table /\ Restated(rows, rows', i)
        /\ rows' = rows \/ \E st \in Resting \intersect Terminal : Are(rows', i, st)
    BY <1>0, <1>5, VerifiedDoes
  <2>2. task[t].at = "verify" /\ queue' = queue  BY <1>5 DEF Verified
  <2>3. Carried(t) = {i}  BY <1>0, <2>2 DEF Carried
  <2>4. Older(rows')  BY <1>1, <2>1, OlderRows
  <2>5. Carried(t)' = {} /\ Alone(t)  BY <1>1, <2>1, FinishedShape DEF Finished
  <2> QED  BY <1>2, <2>1, <2>2, <2>3, <2>4, <2>5
<1> QED  BY <1>3, <1>4, <1>5

\* The publish turns the coroutine's incident into a message.
LEMMA PublishTokens ==
  ASSUME Typed, Tokens, NEW t \in Task, PublishOk(t)
  PROVE  Tokens'
<1>0. PICK i : i = task[t].id  OBVIOUS
<1>1. /\ Finished(t) /\ rows' = rows /\ task[t].next \in StageName /\ i \in Id \ {0}
      /\ Accept(task[t].next, i) /\ task[t].at = "publish"
  BY <1>0, PublishOkDoes DEF PublishOk
<1>2. PICK stage \in StageName : stage = task[t].next  BY <1>1
<1>3. Carried(t) = {i}  BY <1>0, <1>1 DEF Carried
<1>4. Carried(t)' = {} /\ Alone(t)
  <2>1. task \in [Task -> TaskType]  BY DEF Typed
  <2> QED  BY <1>1, <2>1, FinishedShape DEF Finished
<1>5. \A u \in Task : i \in Carried(u)' => u # t /\ i \in Carried(u)
  <2> SUFFICES ASSUME NEW u \in Task, u # t PROVE Carried(u)' = Carried(u)
    BY <1>4
  <2> QED  BY <1>4 DEF Alone, Carried
<1>6. queue \in [Message -> 0 .. MaxCopies]  BY DEF Typed
<1>7. /\ queue[<< stage, i >>] = 0 => queue'[<< stage, i >>] = 1
      /\ \A m \in Message : m # << stage, i >> => queue'[m] = queue[m]
  BY <1>1, <1>2, <1>6, AcceptStep
<1>8. \A m \in Message : m[2] # i => queue'[m] = queue[m]  BY <1>7
<1>9. \A s \in StageName : s # stage => queue'[<< s, i >>] = queue[<< s, i >>]
  BY <1>1, <1>7 DEF Message
<1>10. ASSUME Once(rows, i) PROVE Single(i)'
  <2>1. Single(i)  BY <1>1, <1>10 DEF Tokens
  <2>2. \A u \in Task : i \notin Carried(u)'  BY <1>3, <1>5, <2>1 DEF Single
  <2>3. \A s \in StageName : queue[<< s, i >>] = 0  BY <1>3, <2>1 DEF Single
  <2>4. \A s \in StageName : queue'[<< s, i >>] = IF s = stage THEN 1 ELSE 0
    BY <1>7, <1>9, <2>3
  <2> QED  BY <2>2, <2>4 DEF Single
<1>11. ASSUME Final(rows, i) PROVE Closing(i)'
  <2>1. Closing(i) /\ Single(i)  BY <1>1, <1>11 DEF Tokens, Final, Once
  <2>2. stage = "verifier"  BY <1>1, <1>2, <1>3, <2>1 DEF Closing, ToVerifier
  <2>3. \A u \in Task : i \notin Carried(u)'  BY <1>3, <1>5, <2>1 DEF Single
  <2>4. \A s \in StageName : s # stage => queue'[<< s, i >>] = 0
    BY <1>3, <1>9, <2>1 DEF Single
  <2> QED  BY <2>2, <2>3, <2>4 DEF Closing
<1>12. (Once(rows', i) => Once(rows, i)) /\ (Final(rows', i) => Final(rows, i))  BY <1>1
<1> QED  BY <1>1, <1>3, <1>4, <1>8, <1>10, <1>11, <1>12, TokensStep

\* A delivery turns a message into a coroutine.
LEMMA DeliverTokens ==
  ASSUME Typed, Tokens, NEW t \in Task, NEW m \in Message, Deliver(t, m[1], m[2]), dups' = dups
  PROVE  Tokens'
<1>1. PICK stage \in StageName, i \in Id \ {0} : m = << stage, i >>  BY DEF Message
<1>2. dups \in Nat
  <2>1. cfg.spare \in Nat  BY ConstantsAssumption DEF Typed, ConfigType
  <2> QED  BY <2>1 DEF Typed
<1>3. /\ Moves(t, i) /\ task'[t].at = "accepted" /\ task'[t].next = stage
      /\ task[t] = Idle /\ queue[m] > 0
      /\ \A n \in Message : n # m => queue'[n] = queue[n]
      /\ queue'[m] = queue[m] - 1
  BY <1>1, <1>2, DeliverDoes
<1>4. rows' = rows  BY DEF Deliver
<1>5. Carried(t) = {}  BY <1>3 DEF Carried, Idle
<1>6. Carried(t)' = {i} /\ Alone(t)  BY <1>3 DEF Carried, Moves
<1>7. \A u \in Task : u # t => Carried(u)' = Carried(u) /\ task'[u] = task[u]
  BY <1>6 DEF Alone, Carried
<1>8. \A n \in Message : n[2] # i => queue'[n] = queue[n]  BY <1>1, <1>3
<1>9. \A s \in StageName : s # stage => queue'[<< s, i >>] = queue[<< s, i >>]
  BY <1>1, <1>3 DEF Message
<1>10. ASSUME Once(rows, i) PROVE (\A u \in Task : u # t => i \notin Carried(u)')
                                  /\ \A s \in StageName : queue'[<< s, i >>] = 0
  <2>1. Single(i)  BY <1>10 DEF Tokens
  <2>2. \A u \in Task : i \notin Carried(u)  BY <1>1, <1>3, <2>1 DEF Single
  <2>3. queue[m] <= 1 /\ queue[m] \in Nat
    BY <1>1, <2>1, ConstantsAssumption DEF Single, Typed
  <2>4. queue'[<< stage, i >>] = 0  BY <1>1, <1>3, <2>3
  <2>5. \A s \in StageName : queue[<< s, i >>] \in Nat
    BY ConstantsAssumption DEF Typed, Message
  <2>6. \A s \in StageName : s # stage => queue[<< s, i >>] = 0
    BY <1>1, <1>3, <2>1, <2>5 DEF Single
  <2> QED  BY <1>7, <1>9, <2>2, <2>4, <2>6
<1>11. ASSUME Once(rows, i) PROVE Single(i)'
  BY <1>10, <1>11 DEF Single
<1>12. ASSUME Final(rows, i) PROVE Closing(i)'
  <2>1. Closing(i) /\ Once(rows, i)  BY <1>12 DEF Tokens, Final, Once
  <2>2. stage = "verifier"  BY <1>1, <1>3, <2>1 DEF Closing
  <2>3. ToVerifier(t)'  BY <1>3, <2>2 DEF ToVerifier
  <2> QED  BY <1>10, <2>1, <2>3 DEF Closing
<1> QED  BY <1>4, <1>5, <1>6, <1>8, <1>11, <1>12, TokensStep

\* A failure is counted by an open incident or starts a new one.
LEMMA DetectTokens ==
  ASSUME Typed, Undoubled, Doored, Older(rows), Tokens, NEW t \in Task, AgentsDetect(t)
  PROVE  Older(rows') /\ Tokens'
<1>1. /\ rows \in Table /\ task \in [Task -> TaskType]
      /\ task[t].at = "classify" /\ queue' = queue
  BY DEF Typed, AgentsDetect
<1>2. PICK f : f = Head(task[t].todo)  OBVIOUS
<1>3. Carried(t) = {} /\ ~Blind  BY <1>1 DEF Carried, Undoubled, OnlyAgents, Blind
<1>4. ASSUME NEW i, Finished(t), NEW k \in 1 .. Len(rows), CountedAt(rows, rows', k),
             rows' \in Table
      PROVE  Older(rows') /\ Tokens'
  <2>1. Carried(t)' = {} /\ Alone(t)  BY <1>1, <1>4, FinishedShape DEF Finished
  <2>2. PICK j : j = rows[k].id  OBVIOUS
  <2>3. /\ ~Once(rows', j) /\ ~Final(rows', j)
        /\ \A l : Once(rows', l) => Once(rows, l)
        /\ \A l : Final(rows', l) => Final(rows, l)
    BY <1>1, <1>4, <2>2, TokenRows
  <2>4. Tokens'  BY <1>1, <1>3, <2>1, <2>3, TokensStep
  <2> QED  BY <1>1, <1>4, <2>4, OlderRows
<1>5. ASSUME NEW stage \in { "rca", "fixer" }, NEW k \in 1 .. Len(rows), NEW rs \in Table,
             CountedAt(rows, rs, k), Entered(t, rs, stage, rs[k].id)
      PROVE  Older(rows') /\ Tokens'
  <2>1. PICK i : i = rs[k].id  OBVIOUS
  <2>2. rows[k].id = i  BY <1>5, <2>1 DEF CountedAt
  <2>3. /\ ~Once(rs, i) /\ ~Final(rs, i)
        /\ \A l : Once(rs, l) => Once(rows, l)
        /\ \A l : Final(rs, l) => Final(rows, l)
    BY <1>1, <1>5, <2>2, TokenRows
  <2>4. rows' \in Table /\ Restated(rs, rows', i)  BY <1>5, <2>1 DEF Entered
  <2>5. /\ ~Once(rows', i) /\ ~Final(rows', i)
        /\ \A l : l # i /\ Once(rows', l) => Once(rows, l)
        /\ \A l : l # i /\ Final(rows', l) => Final(rows, l)
    <3>1. /\ \A l : Once(rows', l) <=> Once(rs, l)
          /\ \A l : l # i => (Final(rows', l) <=> Final(rs, l))
      BY <2>4, TokenRows
    <3>2. ~Final(rows', i)  BY <2>3, <3>1 DEF Once, Final
    <3> QED  BY <2>3, <3>1, <3>2
  <2>6. Alone(t) /\ Carried(t)' \subseteq {i}
    <3>1. CASE Moves(t, i)  BY <3>1 DEF Moves, Carried
    <3>2. CASE Finished(t)  BY <1>1, <3>2, FinishedShape DEF Finished
    <3> QED  BY <1>5, <2>1, <3>1, <3>2 DEF Entered, Decided
  <2>7. Tokens'  BY <1>1, <1>3, <2>5, <2>6, TokensStep
  <2>8. Older(rs)  BY <1>1, <1>5, OlderRows
  <2> QED  BY <2>3, <2>4, <2>7, <2>8, OlderRows
<1>6. CASE Correlated(t, f)
  <2>1. PICK k \in 1 .. Len(rows), rs \in Table : CountedAt(rows, rs, k) /\ Resumed(t, rs, k)
    BY <1>3, <1>6 DEF Correlated, Tried, Unheard
  <2>2. CASE Finished(t) /\ rows' = rs  BY <1>4, <2>1, <2>2
  <2> QED  BY <1>5, <2>1, <2>2 DEF Resumed
<1>7. CASE Absorbed(t, f)
  <2>1. PICK k \in 1 .. Len(rows) : CountedAt(rows, rows', k)
    BY <1>3, <1>7 DEF Absorbed, Tried, Unheard
  <2> QED  BY <1>4, <1>7, <2>1 DEF Absorbed
<1>8. CASE ~Correlates(f) /\ Created(t, f)
  <2>1. PICK i \in Numbers(rows), rs \in Table :
          /\ Inserted(rows, rs, i, SigOf[f], "CLASSIFIED")
          /\ \/ Moves(t, i) /\ task'[t].at = "ticket" /\ rows' = rs
             \/ Entered(t, rs, "observer", i)
    BY <1>8 DEF Created
  <2>2. ~Holds(rows, i)  BY NewNumber DEF Undoubled
  <2>3. Len(rows) \in Nat /\ Len(rs) = Len(rows) + 1  BY <1>1, <2>1 DEF Table, Inserted
  <2>4. \A k \in 1 .. Len(rs) : k \in 1 .. Len(rows) \/ k = Len(rs)  BY <2>3
  <2>5. "CLASSIFIED" \notin Terminal /\ "OBSERVED" \in PipelineStatus \ Terminal
    BY DEF Terminal, FixFailed, PipelineStatus
  <2>6. Older(rs)
    <3> SUFFICES ASSUME NEW j \in 1 .. Len(rs), NEW k \in 1 .. Len(rs), j < k,
                        rs[j].sig = rs[k].sig, rs[j].sig \notin Unnamed
                 PROVE  rs[j].st \in Terminal \/ rs[j].n > 1
      BY DEF Older
    <3>1. j \in 1 .. Len(rows) /\ rs[j] = rows[j]  BY <2>1, <2>3, <2>4 DEF Inserted
    <3>2. CASE k \in 1 .. Len(rows)
      <4>1. rs[k] = rows[k]  BY <2>1, <3>2 DEF Inserted
      <4> QED  BY <3>1, <3>2, <4>1 DEF Older
    <3>3. CASE k = Len(rs)
      <4>1. rs[k].sig = SigOf[f]  BY <2>1, <2>3, <3>3 DEF Inserted
      <4>2. OpenBySignature(rows, SigOf[f]) = {}  BY <1>8, <3>1, <4>1 DEF Correlates
      <4>3. rows[j].st \in Terminal
        BY <1>1, <3>1, <4>1, <4>2 DEF OpenBySignature, Table
      <4> QED  BY <3>1, <4>3
    <3> QED  BY <2>4, <3>2, <3>3
  <2>7. /\ ~Final(rs, i)
        /\ \A j : j # i /\ Once(rs, j) => Once(rows, j)
        /\ \A j : j # i /\ Final(rs, j) => Final(rows, j)
    <3>1. \A k \in 1 .. Len(rows) : rs[k] = rows[k] /\ rows[k].id # i
      BY <2>1, <2>2 DEF Inserted, Holds
    <3>2. rs[Len(rs)].id = i /\ rs[Len(rs)].st = "CLASSIFIED"  BY <2>1, <2>3 DEF Inserted
    <3> QED  BY <2>4, <2>5, <3>1, <3>2 DEF Once, Final
  <2>8. /\ rows' \in Table /\ Older(rows') /\ ~Final(rows', i)
        /\ \A j : j # i /\ Once(rows', j) => Once(rows, j)
        /\ \A j : j # i /\ Final(rows', j) => Final(rows, j)
    <3>1. CASE rows' = rs  BY <2>1, <2>6, <2>7, <3>1
    <3>2. CASE Entered(t, rs, "observer", i)
      <4>1. rows' \in Table /\ Restated(rs, rows', i)  BY <3>2 DEF Entered
      <4>2. rows' = rs \/ Are(rows', i, "OBSERVED")  BY <1>3, <3>2 DEF Entered
      <4>3. ~Final(rows', i)  BY <2>1, <2>5, <2>7, <4>2, TokenRows
      <4>4. /\ \A j : Once(rows', j) <=> Once(rs, j)
            /\ \A j : j # i => (Final(rows', j) <=> Final(rs, j))
        BY <2>1, <4>1, TokenRows
      <4>5. Older(rows')  BY <2>1, <2>6, <2>7, <4>1, OlderRows
      <4> QED  BY <2>7, <4>1, <4>3, <4>4, <4>5
    <3> QED  BY <2>1, <3>1, <3>2
  <2>9. Moves(t, i)  BY <1>3, <2>1 DEF Entered, Decided
  <2>10. Alone(t) /\ Carried(t)' \subseteq {i}  BY <2>9 DEF Moves, Carried
  <2>11. \A u \in Task : u # t => i \notin Carried(u)'
    <3> SUFFICES ASSUME NEW u \in Task, u # t PROVE i \notin Carried(u)'
      OBVIOUS
    <3>1. Carried(u)' = Carried(u)  BY <2>10 DEF Alone, Carried
    <3> QED  BY <2>2, <3>1 DEF Typed, Shape
  <2>12. i \in Id \ {0} => \A s \in StageName : queue'[<< s, i >>] = 0
    <3> SUFFICES ASSUME i \in Id \ {0}, NEW s \in StageName PROVE queue[<< s, i >>] = 0
      BY <1>1
    <3>1. << s, i >> \in Message /\ << s, i >>[2] = i  BY DEF Message
    <3>2. ~(queue[<< s, i >>] > 0)  BY <2>2, <3>1 DEF Typed
    <3>3. queue[<< s, i >>] \in 0 .. MaxCopies /\ MaxCopies \in Nat
      BY <3>1, ConstantsAssumption DEF Typed
    <3> QED  BY <3>2, <3>3
  <2>13. Once(rows', i) => Single(i)'
    <3> SUFFICES ASSUME Once(rows', i) PROVE Single(i)'
      OBVIOUS
    <3>1. PICK k \in 1 .. Len(rows') : rows'[k].id = i  BY DEF Once
    <3>2. rows'[k] \in Row  BY <2>8, <3>1 DEF Table
    <3>3. i \in Id \ {0}  BY <3>1, <3>2 DEF Row
    <3> QED  BY <2>11, <2>12, <3>3 DEF Single
  <2>14. Tokens'  BY <1>1, <1>3, <2>8, <2>10, <2>13, TokensStep
  <2> QED  BY <2>8, <2>14
<1> QED  BY <1>2, <1>3, <1>6, <1>7, <1>8, AgentsDetectDoes

LEMMA AtomicInductive ==
  ASSUME Typed, Atomic, [Next]_vars PROVE Atomic'
<1>1. cfg' = cfg
  <2>1. ASSUME NEW t \in Task, DoorStep(t) PROVE cfg' = cfg
    BY <2>1 DEF DoorStep, AgentsDetect, AgentsTicket, AgentsRaises, EventsDetect, BreakerTicket,
                EventsCreate, EventsRaises
  <2>2. ASSUME NEW t \in Task, StageStep(t) PROVE cfg' = cfg
    BY <2>2 DEF StageStep, PublishOk, PublishFails, StartStage, ObserverDone, ObserverRaises,
                RcaDone, RcaRaises, FixTicket, Replayed, FixSucceeded, FixFails, FixRaises,
                Verified, HandleFix, GiveUp
  <2>3. ASSUME NEW t \in Task, NEW e \in Event, AgentsEvent(t, e) \/ EventsEvent(t, e)
        PROVE  cfg' = cfg
    BY <2>3 DEF AgentsEvent, EventsEvent
  <2>4. ASSUME NEW t \in Task, NEW m \in Message, Deliver(t, m[1], m[2]) PROVE cfg' = cfg
    BY <2>4, Zenon DEF Deliver
  <2>5. ASSUME NEW t \in Task, NEW i \in Id, NEW stage, LegacyStage(t, i, stage)
        PROVE  cfg' = cfg
    BY <2>5 DEF LegacyStage
  <2>6. ASSUME NEW k \in DOMAIN rows, WindowPasses(k) PROVE cfg' = cfg
    BY <2>6 DEF WindowPasses
  <2>7. Restart => cfg' = cfg  BY DEF Restart
  <2>8. UNCHANGED vars => cfg' = cfg  BY DEF vars
  <2> QED  BY <2>1, <2>2, <2>3, <2>4, <2>5, <2>6, <2>7, <2>8, Zenon DEF Next, Step, DeliverSome
<1>2. ASSUME OnlyAgents, Doored PROVE Doored'
  BY <1>2, DooredInductive
<1>3. cfg.spare \in Nat /\ dups \in 0 .. cfg.spare /\ rows \in Table
  BY ConstantsAssumption DEF Typed, ConfigType
<1>4. ASSUME OnlyAgents, Doored, ~cfg.retype, dups' = cfg.spare,
             dups = cfg.spare => Older(rows) /\ Tokens
      PROVE  Older(rows') /\ Tokens'
  <2>1. ASSUME dups = cfg.spare
        PROVE  Undoubled /\ Older(rows) /\ Tokens /\ dups' = dups
    BY <1>4, <2>1 DEF Undoubled
  <2>2. ASSUME rows' = rows, queue' = queue, task' = task, dups = cfg.spare
        PROVE  Older(rows') /\ Tokens'
    BY <2>1, <2>2 DEF Tokens, Once, Final, Single, Closing, Carried, ToVerifier
  <2>3. ASSUME NEW t \in Task, PublishOk(t) PROVE Older(rows') /\ Tokens'
    <3>1. dups = cfg.spare /\ rows' = rows  BY <1>4, <2>3 DEF PublishOk
    <3> QED  BY <2>1, <2>3, <3>1, PublishTokens
  <2>4. ASSUME NEW t \in Task,
               \/ PublishFails(t) \/ StartStage(t) \/ ObserverDone(t) \/ RcaDone(t)
               \/ FixSucceeded(t)
        PROVE  Older(rows') /\ Tokens'
    <3>1. dups = cfg.spare
      <4>1. dups' = dups \/ dups' = dups - 1
        BY <2>4 DEF PublishFails, StartStage, ObserverDone, RcaDone, FixSucceeded, history
      <4> QED  BY <1>3, <1>4, <4>1
    <3> QED  BY <2>1, <2>4, <3>1, StagesTokens
  <2>5. ASSUME NEW t \in Task, Ends(t) \/ Replayed(t) \/ Verified(t)
        PROVE  Older(rows') /\ Tokens'
    <3>1. dups = cfg.spare  BY <1>4, <2>5, EndsDoes DEF Replayed, Verified
    <3>2. Plain(t)  BY <1>4 DEF Doored
    <3> QED  BY <2>1, <2>5, <3>1, <3>2, EndsTokens
  <2>6. ASSUME NEW t \in Task, AgentsDetect(t) PROVE Older(rows') /\ Tokens'
    <3>1. dups = cfg.spare  BY <1>4, <2>6 DEF AgentsDetect
    <3> QED  BY <1>4, <2>1, <2>6, <3>1, DetectTokens
  <2>7. ASSUME NEW t \in Task, NEW e \in Event, AgentsEvent(t, e) PROVE Older(rows') /\ Tokens'
    <3>1. Take(e) /\ rows' = rows /\ queue' = queue /\ task[t].at = "idle"
      BY <2>7 DEF AgentsEvent
    <3>2. dups = cfg.spare  BY <1>4, <3>1, TakeDoes
    <3>3. Alone(t) /\ task'[t].at = "classify"  BY <2>7, AgentsEventDoes
    <3>4. Carried(t) = {} /\ Carried(t)' = {}  BY <3>1, <3>3 DEF Carried
    <3>5. Once(rows', 0) => Single(0)'
      <4> SUFFICES ASSUME NEW k \in 1 .. Len(rows), rows[k].id = 0 PROVE FALSE
        BY <3>1 DEF Once
      <4>1. rows[k] \in Row  BY <1>3 DEF Table
      <4> QED  BY <4>1 DEF Row
    <3>6. Final(rows', 0) => Closing(0)'
      <4> SUFFICES ASSUME NEW k \in 1 .. Len(rows), rows[k].id = 0 PROVE FALSE
        BY <3>1 DEF Final
      <4>1. rows[k] \in Row  BY <1>3 DEF Table
      <4> QED  BY <4>1 DEF Row
    <3>7. Tokens'  BY <2>1, <3>1, <3>2, <3>3, <3>4, <3>5, <3>6, TokensStep
    <3> QED  BY <2>1, <3>1, <3>2, <3>7
  <2>8. ASSUME NEW t \in Task, NEW m \in Message, Deliver(t, m[1], m[2])
        PROVE  Older(rows') /\ Tokens'
    <3>1. rows' = rows  BY <2>8 DEF Deliver
    <3>2. dups = cfg.spare /\ dups' = dups
      <4>1. dups' = dups \/ dups' = dups - 1  BY <2>8, DeliverDoes
      <4> QED  BY <1>3, <1>4, <4>1
    <3> QED  BY <2>1, <2>8, <3>1, <3>2, DeliverTokens
  <2>9. ASSUME NEW k \in DOMAIN rows, WindowPasses(k) PROVE Older(rows') /\ Tokens'
    <3>1. dups = cfg.spare /\ task' = task /\ queue' = queue
      BY <1>4, <2>9 DEF WindowPasses
    <3>2. /\ rows' \in Table /\ Len(rows') = Len(rows)
          /\ \A j \in 1 .. Len(rows) :
               /\ rows'[j].id = rows[j].id /\ rows'[j].sig = rows[j].sig
               /\ rows'[j].st = rows[j].st /\ rows'[j].n = rows[j].n
      BY <2>9, WindowPassesDoes DEF Typed
    <3>3. Older(rows')  BY <1>3, <2>1, <3>1, <3>2, OlderKept
    <3>4. \A i : (Once(rows', i) => Once(rows, i)) /\ (Final(rows', i) => Final(rows, i))
      BY <3>2 DEF Once, Final
    <3>5. Tokens'
      BY <2>1, <3>1, <3>4 DEF Tokens, Single, Closing, Carried, ToVerifier
    <3> QED  BY <3>3, <3>5
  <2>10. CASE UNCHANGED vars
    BY <1>4, <2>2, <2>10 DEF vars
  <2> QED
    BY <1>4, <2>3, <2>4, <2>5, <2>6, <2>7, <2>8, <2>9, <2>10, AgentsCases
<1> QED  BY <1>1, <1>2, <1>4 DEF Atomic, OnlyAgents

\* As long as only /agents/orchestrator is called and nothing fails, ids are unique, and
\* without doubled messages or corrected signatures an incident that is open beside a newer
\* one of its signature was resumed by a recurrence.
THEOREM DoorAtomic == Spec => []AgentsDoorIsAtomic
<1>1. Init => Typed /\ Atomic
  <2> SUFFICES ASSUME Init PROVE Typed /\ Atomic
    OBVIOUS
  <2>1. /\ rows = << >> /\ \A t \in Task : task[t] = Idle
        /\ \A m \in Message : queue[m] = 0
    BY DEF Init
  <2>2. Len(rows) = 0  BY <2>1
  <2>3. Distinct(rows) /\ Older(rows) /\ \A i : ~Once(rows, i) /\ ~Final(rows, i)
    BY <2>2 DEF Distinct, Older, Once, Final
  <2>4. \A t \in Task : Plain(t)
    <3>1. Idle.todo = << >> /\ Idle.at = "idle"  BY DEF Idle
    <3>2. Len(<< >>) = 0  OBVIOUS
    <3> QED  BY <2>1, <3>1, <3>2 DEF Plain
  <2> QED  BY <2>3, <2>4, InitTyped DEF Atomic, Doored, Tokens
<1>2. ASSUME Typed, Atomic, [Next]_vars PROVE (Typed /\ Atomic)'
  BY <1>2, Inductive, AtomicInductive
<1>3. Typed /\ Atomic => AgentsDoorIsAtomic
  <2> SUFFICES ASSUME Typed, Atomic, OnlyAgents PROVE AgentsDoorIsAtomic
    BY DEF AgentsDoorIsAtomic, OnlyAgents
  <2>1. DOMAIN rows = 1 .. Len(rows)  BY DEF Typed, Table
  <2>2. UniqueIds  BY <2>1 DEF Atomic, Doored, Distinct, UniqueIds
  <2> QED  BY <2>1, <2>2 DEF Atomic, Older, AgentsDoorIsAtomic
<1>4. Typed /\ Atomic /\ [Next]_vars => (Typed /\ Atomic)'
  BY <1>2
<1> QED  BY <1>1, <1>3, <1>4, PTL DEF Spec

-----------------------------------------------------------------------------
(* Occurrence counts *)

\* The same rows as far as the counts go.
SameCounts(rs, r2) ==
    /\ Len(r2) = Len(rs)
    /\ \A k \in 1 .. Len(rs) : r2[k].id = rs[k].id /\ r2[k].n = rs[k].n

\* One failure more is counted, unless two rows of the result share a number.
OneMore(rs, r2) ==
    Distinct(r2) => Distinct(rs)
                    /\ \E p : p \notin Occurrences(rs) /\ Occurrences(r2) = Occurrences(rs) \union {p}

\* The inductive form of CountsAddUp.
Tallied ==
    Distinct(rows) =>
      IsFiniteSet(Occurrences(rows)) /\ recorded = Cardinality(Occurrences(rows))

LEMMA OccurrencesAre ==
  ASSUME NEW rs \in Table
  PROVE  /\ \A p \in Occurrences(rs) : p = << p[1], p[2] >>
         /\ \A k, m : << k, m >> \in Occurrences(rs) <=> k \in 1 .. Len(rs) /\ m \in 1 .. rs[k].n
<1>1. DOMAIN rs = 1 .. Len(rs)  BY DEF Table
<1> QED  BY <1>1 DEF Occurrences

LEMMA PairsAreEqual ==
  ASSUME NEW S, NEW T, \A p \in S : p = << p[1], p[2] >>, \A p \in T : p = << p[1], p[2] >>,
         \A k, m : << k, m >> \in S <=> << k, m >> \in T
  PROVE  S = T
<1>1. \A p \in S : p \in T  OBVIOUS
<1>2. \A p \in T : p \in S  OBVIOUS
<1> QED  BY <1>1, <1>2

\* A step that leaves the counts alone.
LEMMA SameOccurrences ==
  ASSUME NEW rs \in Table, NEW r2 \in Table, SameCounts(rs, r2)
  PROVE  Occurrences(r2) = Occurrences(rs) /\ (Distinct(r2) <=> Distinct(rs))
<1>1. \A k, m : << k, m >> \in Occurrences(r2) <=> << k, m >> \in Occurrences(rs)
  <2>1. \A k, m : << k, m >> \in Occurrences(rs) <=> k \in 1 .. Len(rs) /\ m \in 1 .. rs[k].n
    BY OccurrencesAre
  <2>2. \A k, m : << k, m >> \in Occurrences(r2) <=> k \in 1 .. Len(r2) /\ m \in 1 .. r2[k].n
    BY OccurrencesAre
  <2> QED  BY <2>1, <2>2 DEF SameCounts
<1>2. Occurrences(r2) = Occurrences(rs)
  <2>1. \A p \in Occurrences(rs) : p = << p[1], p[2] >>  BY OccurrencesAre
  <2>2. \A p \in Occurrences(r2) : p = << p[1], p[2] >>  BY OccurrencesAre
  <2> QED  BY <1>1, <2>1, <2>2, PairsAreEqual
<1>3. Distinct(r2) <=> Distinct(rs)  BY DEF SameCounts, Distinct
<1> QED  BY <1>2, <1>3

\* increment_incident_occurrence adds one occurrence.
LEMMA CountedOneMore ==
  ASSUME NEW rs \in Table, NEW r2 \in Table, NEW k \in 1 .. Len(rs), CountedAt(rs, r2, k)
  PROVE  OneMore(rs, r2)
<1> SUFFICES ASSUME Distinct(r2)
             PROVE  Distinct(rs) /\ \E p : /\ p \notin Occurrences(rs)
                                           /\ Occurrences(r2) = Occurrences(rs) \union {p}
  BY DEF OneMore
<1>1. Distinct(rs)  BY DEF Distinct, CountedAt
<1>2. /\ Len(r2) = Len(rs)
      /\ \A j \in 1 .. Len(rs) : r2[j].n = IF j = k THEN rs[k].n + 1 ELSE rs[j].n
  BY <1>1 DEF Distinct, CountedAt
<1>3. rs[k].n \in Nat
  <2>1. rs[k] \in Row  BY DEF Table
  <2> QED  BY <2>1 DEF Row
<1> DEFINE n == rs[k].n
           p == << k, n + 1 >>
<1>4. \A m : m \in 1 .. n + 1 <=> m \in 1 .. n \/ m = n + 1  BY <1>3
<1>5. n + 1 \notin 1 .. n  BY <1>3
<1>6. p \notin Occurrences(rs)  BY <1>5, OccurrencesAre
<1>7. \A j, m : << j, m >> \in Occurrences(r2) <=>
                  << j, m >> \in Occurrences(rs) \/ (j = k /\ m = n + 1)
  <2> SUFFICES ASSUME NEW j, NEW m
               PROVE  << j, m >> \in Occurrences(r2) <=>
                      << j, m >> \in Occurrences(rs) \/ (j = k /\ m = n + 1)
    OBVIOUS
  <2>1. << j, m >> \in Occurrences(r2) <=> j \in 1 .. Len(rs) /\ m \in 1 .. r2[j].n
    BY <1>2, OccurrencesAre
  <2>2. << j, m >> \in Occurrences(rs) <=> j \in 1 .. Len(rs) /\ m \in 1 .. rs[j].n
    BY OccurrencesAre
  <2>3. CASE j = k  BY <2>1, <2>2, <2>3, <1>2, <1>4
  <2>4. CASE j # k  BY <2>1, <2>2, <2>4, <1>2
  <2> QED  BY <2>3, <2>4
<1> HIDE DEF n
<1>8. Occurrences(r2) = Occurrences(rs) \union {p}
  <2>1. \A q \in Occurrences(rs) \union {p} : q = << q[1], q[2] >>
    <3>1. \A q \in Occurrences(rs) : q = << q[1], q[2] >>  BY OccurrencesAre
    <3> QED  BY <3>1
  <2>2. \A q \in Occurrences(r2) : q = << q[1], q[2] >>  BY OccurrencesAre
  <2> QED  BY <1>7, <2>1, <2>2, PairsAreEqual
<1> QED  BY <1>1, <1>6, <1>8

\* So does a new row.
LEMMA InsertedOneMore ==
  ASSUME NEW rs \in Table, NEW r2 \in Table, NEW i, NEW s, NEW st, Inserted(rs, r2, i, s, st)
  PROVE  OneMore(rs, r2)
<1> SUFFICES ASSUME Distinct(r2)
             PROVE  Distinct(rs) /\ \E p : /\ p \notin Occurrences(rs)
                                           /\ Occurrences(r2) = Occurrences(rs) \union {p}
  BY DEF OneMore
<1> DEFINE l == Len(rs)
           p == << l + 1, 1 >>
<1>1. l \in Nat /\ Len(r2) = l + 1 /\ r2[l + 1].n = 1 /\ \A k \in 1 .. l : r2[k] = rs[k]
  BY DEF Table, Inserted
<1>2. \A k : k \in 1 .. l + 1 <=> k \in 1 .. l \/ k = l + 1  BY <1>1
<1>3. l + 1 \notin 1 .. l /\ \A m : m \in 1 .. 1 <=> m = 1  BY <1>1
<1>4. Distinct(rs)  BY <1>1, <1>2 DEF Distinct
<1>5. \A k, m : << k, m >> \in Occurrences(r2) <=> k \in 1 .. l + 1 /\ m \in 1 .. r2[k].n
  BY <1>1, OccurrencesAre
<1>6. \A k, m : << k, m >> \in Occurrences(rs) <=> k \in 1 .. l /\ m \in 1 .. rs[k].n
  BY OccurrencesAre
<1> HIDE DEF l
<1>7. p \notin Occurrences(rs)  BY <1>3, <1>6
<1>8. \A k, m : << k, m >> \in Occurrences(r2) <=>
                  << k, m >> \in Occurrences(rs) \/ (k = l + 1 /\ m = 1)
  BY <1>1, <1>2, <1>3, <1>5, <1>6
<1>9. Occurrences(r2) = Occurrences(rs) \union {p}
  <2>1. \A q \in Occurrences(rs) \union {p} : q = << q[1], q[2] >>
    <3>1. \A q \in Occurrences(rs) : q = << q[1], q[2] >>  BY OccurrencesAre
    <3> QED  BY <3>1
  <2>2. \A q \in Occurrences(r2) : q = << q[1], q[2] >>  BY OccurrencesAre
  <2> QED  BY <1>8, <2>1, <2>2, PairsAreEqual
<1> QED  BY <1>4, <1>7, <1>9

\* What one step adds does not depend on what else it writes.
LEMMA OneMoreBetween ==
  ASSUME NEW rs \in Table, NEW r2 \in Table, NEW r3 \in Table
  PROVE  /\ SameCounts(rs, r2) /\ OneMore(r2, r3) => OneMore(rs, r3)
         /\ OneMore(rs, r2) /\ SameCounts(r2, r3) => OneMore(rs, r3)
<1>1. ASSUME SameCounts(rs, r2), OneMore(r2, r3) PROVE OneMore(rs, r3)
  BY <1>1, SameOccurrences DEF OneMore
<1>2. ASSUME OneMore(rs, r2), SameCounts(r2, r3) PROVE OneMore(rs, r3)
  BY <1>2, SameOccurrences DEF OneMore
<1> QED  BY <1>1, <1>2

LEMMA TalliedStep ==
  ASSUME Typed, Tallied, rows' \in Table,
         \/ SameCounts(rows, rows') /\ recorded' = recorded
         \/ OneMore(rows, rows') /\ recorded' = recorded + 1
  PROVE  Tallied'
<1> SUFFICES ASSUME Distinct(rows')
             PROVE  /\ IsFiniteSet(Occurrences(rows'))
                    /\ recorded' = Cardinality(Occurrences(rows'))
  BY DEF Tallied
<1>1. rows \in Table  BY DEF Typed
<1>2. CASE SameCounts(rows, rows') /\ recorded' = recorded
  BY <1>1, <1>2, SameOccurrences DEF Tallied
<1>3. CASE OneMore(rows, rows') /\ recorded' = recorded + 1
  <2>1. IsFiniteSet(Occurrences(rows)) /\ recorded = Cardinality(Occurrences(rows))
    BY <1>3 DEF OneMore, Tallied
  <2>2. PICK p : /\ p \notin Occurrences(rows)
                 /\ Occurrences(rows') = Occurrences(rows) \union {p}
    BY <1>3 DEF OneMore
  <2>3. /\ IsFiniteSet(Occurrences(rows) \union {p})
        /\ Cardinality(Occurrences(rows) \union {p}) = Cardinality(Occurrences(rows)) + 1
    BY <2>1, <2>2, FS_AddElement
  <2> QED  BY <1>3, <2>1, <2>2, <2>3
<1> QED  BY <1>2, <1>3

\* The beginning of a stage and the corrections before it leave the counts alone.
LEMMA EnteredCounts ==
  ASSUME NEW t \in Task, NEW rs \in Table, NEW stage, NEW i, Entered(t, rs, stage, i)
  PROVE  rows' \in Table /\ SameCounts(rs, rows')
BY DEF Entered, Restated, SameCounts

LEMMA RestatedCounts ==
  ASSUME NEW rs, NEW r2, NEW i, Restated(rs, r2, i)
  PROVE  SameCounts(rs, r2)
BY DEF Restated, SameCounts

\* Both doors count a failure that recurs once.
LEMMA RecurringTallied ==
  ASSUME Typed, Tallied, NEW t \in Task, NEW f, Correlated(t, f) \/ Absorbed(t, f)
  PROVE  Tallied'
<1>1. rows \in Table  BY DEF Typed
<1>4. ASSUME NEW k \in 1 .. Len(rows), NEW rs \in Table, Tried(f, k, rs), rows' \in Table,
             SameCounts(rs, rows')
      PROVE  Tallied'
  <2>1. CASE CountedAt(rows, rs, k) /\ Heard(f)
    <3>1. OneMore(rows, rs)  BY <1>1, <2>1, CountedOneMore
    <3>2. OneMore(rows, rows')  BY <1>1, <1>4, <3>1, OneMoreBetween
    <3> QED  BY <1>4, <2>1, <3>2, TalliedStep DEF Heard
  <2>2. CASE rs = rows /\ Unheard(f)
    BY <1>4, <2>2, TalliedStep DEF Unheard
  <2> QED  BY <1>4, <2>1, <2>2 DEF Tried
<1>2. CASE Correlated(t, f)
  <2>1. PICK k \in 1 .. Len(rows), rs \in Table : Tried(f, k, rs) /\ Resumed(t, rs, k)
    BY <1>2 DEF Correlated
  <2>2. rows' \in Table /\ SameCounts(rs, rows')
    <3>1. SameCounts(rs, rs)  BY DEF SameCounts
    <3> QED  BY <2>1, <3>1, EnteredCounts DEF Resumed
  <2> QED  BY <1>4, <2>1, <2>2
<1>3. CASE Absorbed(t, f)
  <2>1. rows' \in Table  BY <1>3 DEF Absorbed
  <2>2. PICK k \in 1 .. Len(rows) : Tried(f, k, rows')  BY <1>3 DEF Absorbed
  <2>3. PICK rs \in Table : rs = rows'  BY <2>1
  <2>4. Tried(f, k, rs) /\ SameCounts(rs, rows')  BY <2>2, <2>3 DEF SameCounts
  <2> QED  BY <1>4, <2>1, <2>4
<1> QED  BY <1>2, <1>3

LEMMA DoorsTallied ==
  ASSUME Typed, Tallied, NEW t \in Task
  PROVE  /\ AgentsDetect(t) => Tallied'
         /\ AgentsRaises(t) => Tallied'
         /\ EventsDetect(t) => Tallied'
         /\ EventsCreate(t) => Tallied'
         /\ EventsRaises(t) => Tallied'
<1> DEFINE f == Head(task[t].todo)
<1>1. rows \in Table  BY DEF Typed
<1>2. SameCounts(rows, rows)  BY DEF SameCounts
<1>3. ASSUME NEW i, NEW s, NEW st, NEW rs \in Table, NEW stage, Inserted(rows, rs, i, s, st),
             rows' = rs \/ Entered(t, rs, stage, i), recorded' = recorded + 1
      PROVE  Tallied'
  <2>1. SameCounts(rs, rs)  BY DEF SameCounts
  <2>2. rows' \in Table /\ SameCounts(rs, rows')  BY <1>3, <2>1, EnteredCounts
  <2>3. OneMore(rows, rs)  BY <1>1, <1>3, InsertedOneMore
  <2>4. OneMore(rows, rows')  BY <1>1, <2>2, <2>3, OneMoreBetween
  <2> QED  BY <1>3, <2>2, <2>4, TalliedStep
<1>4. ASSUME AgentsDetect(t) PROVE Tallied'
  <2>2. Correlated(t, f) \/ Absorbed(t, f) \/ (Heard(f) /\ Created(t, f))
    BY <1>4, AgentsDetectDoes
  <2>3. CASE Heard(f) /\ Created(t, f)
    <3>1. PICK i \in Numbers(rows), rs \in Table :
            /\ Inserted(rows, rs, i, SigOf[f], "CLASSIFIED")
            /\ rows' = rs \/ Entered(t, rs, "observer", i)
      BY <2>3 DEF Created
    <3> QED  BY <1>3, <2>3, <3>1 DEF Heard
  <2> QED  BY <2>2, <2>3, RecurringTallied
<1>5. ASSUME AgentsRaises(t) PROVE Tallied'
  BY <1>1, <1>2, <1>5, TalliedStep DEF AgentsRaises
<1>6. ASSUME EventsDetect(t) PROVE Tallied'
  <2>1. \/ rows' = rows /\ recorded' = recorded
        \/ Correlated(t, f) \/ Absorbed(t, f)
    BY <1>6, EventsDetectDoes
  <2>2. CASE rows' = rows /\ recorded' = recorded
    BY <1>1, <1>2, <2>2, TalliedStep
  <2> QED  BY <2>1, <2>2, RecurringTallied
<1>7. ASSUME EventsCreate(t) PROVE Tallied'
  <2>1. recorded' = recorded + 1  BY <1>7, EventsCreateDoes DEF Heard
  <2>2. rows' \in Table  BY <1>7, EventsCreateDoes DEF Typed
  <2>3. \E rs \in Table, st \in { "ARTIFACT_MISSING", "DETECTED" } :
          /\ Inserted(rows, rs, task[t].id, SigOf[f], st)
          /\ rows' = rs \/ Entered(t, rs, "observer", task[t].id)
    BY <1>7, <2>2, EventsCreateDoes
  <2> QED  BY <1>3, <2>1, <2>3
<1>8. ASSUME EventsRaises(t) PROVE Tallied'
  <2>1. rows' \in Table  BY <1>8, EventsRaisesDoes DEF Typed
  <2>2. rows' = rows \/ \E i : Inserted(rows, rows', i, NoSig, "PARSE_FAILED")
    BY <1>8, EventsRaisesDoes
  <2>3. \/ rows' = rows /\ recorded' = recorded
        \/ rows' # rows /\ recorded' = recorded + 1
    <3>1. \A r : Append(rows, r) # rows
      <4> SUFFICES ASSUME NEW r PROVE Append(rows, r) # rows
        OBVIOUS
      <4>1. Len(Append(rows, r)) = Len(rows) + 1 /\ Len(rows) \in Nat  BY <1>1 DEF Table
      <4> QED  BY <4>1
    <3> QED  BY <1>8, <3>1 DEF EventsRaises
  <2>4. CASE rows' = rows /\ recorded' = recorded
    BY <1>1, <1>2, <2>4, TalliedStep
  <2>5. CASE rows' # rows /\ recorded' = recorded + 1
    BY <1>3, <2>1, <2>2, <2>5
  <2> QED  BY <2>3, <2>4, <2>5
<1> QED  BY <1>4, <1>5, <1>6, <1>7, <1>8

\* The stages leave the counts alone.
LEMMA StagesTallied ==
  ASSUME Typed, Tallied, NEW t \in Task
  PROVE  /\ Ends(t) => Tallied'
         /\ Works(t) => Tallied'
<1>1. rows \in Table /\ SameCounts(rows, rows)  BY DEF Typed, SameCounts
<1>2. ASSUME NEW rs \in Table, NEW stage, NEW i, SameCounts(rows, rs), Entered(t, rs, stage, i),
             recorded' = recorded
      PROVE  Tallied'
  <2>1. rows' \in Table /\ SameCounts(rs, rows')  BY <1>2, EnteredCounts
  <2>2. SameCounts(rows, rows')  BY <1>2, <2>1 DEF SameCounts
  <2> QED  BY <1>2, <2>1, <2>2, TalliedStep
<1>3. ASSUME NEW i, rows' \in Table, Restated(rows, rows', i), recorded' = recorded
      PROVE  Tallied'
  BY <1>3, RestatedCounts, TalliedStep
<1>4. ASSUME Ends(t) PROVE Tallied'
  BY <1>3, <1>4, EndsDoes DEF EndedAt
<1>5. ASSUME PublishOk(t) PROVE Tallied'
  <2>1. rows' = rows /\ recorded' = recorded  BY <1>5 DEF PublishOk, history
  <2> QED  BY <1>1, <2>1, TalliedStep
<1>6. ASSUME PublishFails(t) PROVE Tallied'
  <2>1. recorded' = recorded  BY <1>6 DEF PublishFails, history
  <2> QED  BY <1>1, <1>2, <1>6, <2>1, PublishFailsDoes
<1>7. ASSUME StartStage(t) PROVE Tallied'
  <2>1. recorded' = recorded  BY <1>7 DEF StartStage, history
  <2> QED  BY <1>1, <1>2, <1>7, <2>1, StartStageDoes
<1>8. ASSUME ObserverDone(t) PROVE Tallied'
  <2>1. recorded' = recorded  BY <1>8 DEF ObserverDone, history
  <2>2. PICK rs \in Table : SameCounts(rows, rs) /\ Entered(t, rs, "rca", task[t].id)
    BY <1>8, ObserverDoneDoes DEF SameCounts
  <2> QED  BY <1>2, <2>1, <2>2
<1>9. ASSUME RcaDone(t) PROVE Tallied'
  <2>1. recorded' = recorded  BY <1>9 DEF RcaDone
  <2>2. PICK rs \in Table : SameCounts(rows, rs) /\ Entered(t, rs, "fixer", task[t].id)
    BY <1>9, RcaDoneDoes DEF SameCounts
  <2> QED  BY <1>2, <2>1, <2>2
<1>10. ASSUME Replayed(t) PROVE Tallied'
  <2>1. recorded' = recorded  BY <1>10 DEF Replayed, history
  <2> QED  BY <1>3, <1>10, <2>1, ReplayedDoes
<1>11. ASSUME FixSucceeded(t) PROVE Tallied'
  <2>1. recorded' = recorded  BY <1>11 DEF FixSucceeded
  <2>2. PICK rs \in Table : SameCounts(rows, rs) /\ Entered(t, rs, "verifier", task[t].id)
    BY <1>11, FixSucceededDoes, RestatedCounts
  <2> QED  BY <1>2, <2>1, <2>2
<1>12. ASSUME Verified(t) PROVE Tallied'
  <2>1. recorded' = recorded  BY <1>12 DEF Verified
  <2> QED  BY <1>3, <1>12, <2>1, VerifiedDoes
<1>13. ASSUME HandleFix(t) PROVE Tallied'
  <2>1. rows' \in Table  BY <1>13, HandleFixDoes DEF Typed
  <2>2. PICK rs \in Table :
          /\ SameCounts(rows, rs)
          /\ rows' = rs \/ \E j, s : Inserted(rs, rows', j, s, "CLASSIFIED")
    BY <1>13, HandleFixDoes, RestatedCounts
  <2>3. Len(rows) \in Nat /\ Len(rs) = Len(rows)  BY <1>1, <2>2 DEF Table, SameCounts
  <2>4. \/ Len(rows') = Len(rows) /\ recorded' = recorded
        \/ Len(rows') = Len(rows) + 1 /\ recorded' = recorded + 1
    <3>1. PICK i : i = task[t].id  OBVIOUS
    <3>2. PICK q : q = SetStatus(rows, i, "FIX_FAILED_RUNTIME")  OBVIOUS
    <3>3. q \in Table /\ Len(q) = Len(rows)
      BY <1>1, <3>2, SetStatusRows DEF PipelineStatus, Terminal, FixFailed, Restated
    <3>4. \A r : Len(Append(q, r)) = Len(rows) + 1  BY <3>3 DEF Table
    <3> QED  BY <1>13, <3>1, <3>2, <3>3, <3>4 DEF HandleFix
  <2>5. CASE Len(rows') = Len(rows) /\ recorded' = recorded
    <3>1. rows' = rs  BY <2>2, <2>3, <2>5 DEF Inserted
    <3> QED  BY <2>1, <2>2, <2>5, <3>1, TalliedStep
  <2>6. CASE Len(rows') = Len(rows) + 1 /\ recorded' = recorded + 1
    <3>1. PICK j, s : Inserted(rs, rows', j, s, "CLASSIFIED")  BY <2>2, <2>3, <2>6
    <3>2. OneMore(rs, rows')  BY <2>1, <3>1, InsertedOneMore
    <3>3. OneMore(rows, rows')  BY <1>1, <2>1, <2>2, <3>2, OneMoreBetween
    <3> QED  BY <2>1, <2>6, <3>3, TalliedStep
  <2> QED  BY <2>4, <2>5, <2>6
<1> QED
  BY <1>4, <1>5, <1>6, <1>7, <1>8, <1>9, <1>10, <1>11, <1>12, <1>13, DoorsTallied DEF Works

LEMMA TalliedInductive ==
  ASSUME Typed, Tallied, [Next]_vars PROVE Tallied'
<1>1. rows \in Table /\ rows' \in Table /\ SameCounts(rows, rows)
  BY Inductive DEF Typed, SameCounts
<1>2. ASSUME rows' = rows, recorded' = recorded PROVE Tallied'
  BY <1>1, <1>2, TalliedStep
<1>3. ASSUME NEW t \in Task, Works(t) \/ Ends(t) PROVE Tallied'
  BY <1>3, StagesTallied
<1>4. ASSUME Begins PROVE Tallied'
  <2>1. ASSUME NEW t \in Task, NEW e \in Event, AgentsEvent(t, e) \/ EventsEvent(t, e)
        PROVE  Tallied'
    <3>1. rows' = rows /\ recorded' = recorded  BY <2>1 DEF AgentsEvent, EventsEvent, history
    <3> QED  BY <1>2, <3>1
  <2>2. ASSUME NEW t \in Task, NEW m \in Message, Deliver(t, m[1], m[2]) PROVE Tallied'
    <3>1. rows' = rows /\ recorded' = recorded  BY <2>2 DEF Deliver, history
    <3> QED  BY <1>2, <3>1
  <2>3. ASSUME NEW t \in Task, NEW i \in Id, NEW stage, LegacyStage(t, i, stage) PROVE Tallied'
    <3>1. recorded' = recorded  BY <2>3 DEF LegacyStage, history
    <3>2. \/ rows' = rows
          \/ \E rs \in Table : \E s : SameCounts(rows, rs) /\ Entered(t, rs, s, i)
      BY <1>1, <2>3, LegacyStageDoes, RestatedCounts
    <3>3. rows' = rows \/ SameCounts(rows, rows')
      <4>1. ASSUME NEW rs \in Table, NEW s, SameCounts(rows, rs), Entered(t, rs, s, i)
            PROVE  SameCounts(rows, rows')
        BY <4>1, EnteredCounts DEF SameCounts
      <4> QED  BY <3>2, <4>1
    <3> QED  BY <1>1, <1>2, <3>1, <3>3, TalliedStep
  <2> QED  BY <1>4, <2>1, <2>2, <2>3, Zenon DEF Begins
<1>5. ASSUME NEW k \in DOMAIN rows, WindowPasses(k) PROVE Tallied'
  <2>1. recorded' = recorded  BY <1>5 DEF WindowPasses, history
  <2>2. SameCounts(rows, rows')  BY <1>5, WindowPassesDoes DEF SameCounts
  <2> QED  BY <1>1, <2>1, <2>2, TalliedStep
<1>6. ASSUME Restart PROVE Tallied'
  BY <1>2, <1>6, RestartDoes
<1>7. CASE UNCHANGED vars
  BY <1>2, <1>7 DEF vars, history
<1> QED  BY <1>3, <1>4, <1>5, <1>6, <1>7, StepCases

\* CountsAddUp is an invariant: no interleaving of coroutines counts a failure twice or writes
\* over a concurrent count, as long as ids are unique.
THEOREM CountsExact == Spec => []CountsAddUp
<1>1. Init => Typed /\ Tallied
  <2> SUFFICES ASSUME Init PROVE Tallied
    BY InitTyped
  <2>1. rows = << >> /\ recorded = 0  BY DEF Init
  <2>2. Occurrences(rows) = {}  BY <2>1 DEF Occurrences
  <2> QED  BY <2>1, <2>2, FS_EmptySet DEF Tallied
<1>2. ASSUME Typed, Tallied, [Next]_vars PROVE (Typed /\ Tallied)'
  BY <1>2, Inductive, TalliedInductive
<1>3. Typed /\ Tallied => CountsAddUp
  <2> SUFFICES ASSUME Typed, Tallied, UniqueIds PROVE recorded = Cardinality(Occurrences(rows))
    BY DEF CountsAddUp
  <2>1. DOMAIN rows = 1 .. Len(rows)  BY DEF Typed, Table
  <2> QED  BY <2>1 DEF UniqueIds, Distinct, Tallied
<1>4. Typed /\ Tallied /\ [Next]_vars => (Typed /\ Tallied)'
  BY <1>2
<1> QED  BY <1>1, <1>3, <1>4, PTL DEF Spec
=============================================================================
