-------------------------- MODULE Admission_proofs --------------------------
(***************************************************************************)
(* Proofs about Admission for every set of requests and every capacity.    *)
(* The inductive invariant joins the queue to the phases (QueueIsExact),   *)
(* because release() hands a slot to whoever heads the queue, and the      *)
(* count to the phases (SlotsAreHeld), which that hand-over would break    *)
(* if the head were not a waiting request.                                 *)
(***************************************************************************)
EXTENDS Admission, FiniteSetTheorems, SequenceTheorems, TLAPS

Inv == TypeOK /\ QueueIsExact /\ SlotsAreHeld /\ WithinCapacity /\ NoIdleSlot

-----------------------------------------------------------------------------
(* Slots and queue positions *)

(* The requests that hold a slot are finitely many, whatever the phases. *)
LEMMA HoldersFinite ==
  /\ IsFiniteSet(Holders) /\ Cardinality(Holders) \in Nat
  /\ IsFiniteSet(Holders') /\ Cardinality(Holders') \in Nat
<1>1. Holders \subseteq Requests /\ Holders' \subseteq Requests
  BY DEF Holders
<1> QED
  BY <1>1, RequestsAssumption, FS_Subset, FS_CardinalityType

(* occupy() adds one holder. *)
LEMMA OneMoreHolder ==
  ASSUME NEW r \in Requests, r \notin Holders, Holders' = Holders \cup {r}
  PROVE  Cardinality(Holders') = Cardinality(Holders) + 1
BY HoldersFinite, FS_AddElement

(* release() takes one away. *)
LEMMA OneHolderLess ==
  ASSUME NEW r \in Holders, Holders' = Holders \ {r}
  PROVE  Cardinality(Holders') = Cardinality(Holders) - 1
BY HoldersFinite, FS_RemoveElement

(* release() hands a slot on: one holder takes the place of another. *)
LEMMA HolderReplaced ==
  ASSUME NEW r \in Holders, NEW w \in Requests, w \notin Holders,
         Holders' = (Holders \ {r}) \cup {w}
  PROVE  Cardinality(Holders') = Cardinality(Holders)
<1>1. IsFiniteSet(Holders \ {r}) /\ Cardinality(Holders \ {r}) = Cardinality(Holders) - 1
  BY HoldersFinite, FS_RemoveElement
<1>2. Cardinality((Holders \ {r}) \cup {w}) = Cardinality(Holders \ {r}) + 1
  BY <1>1, FS_AddElement
<1> QED
  BY <1>1, <1>2, HoldersFinite

(* queue.splice(i, 1): the other waiters keep their order. *)
LEMMA RemoveAtElements ==
  ASSUME NEW S, NEW q \in Seq(S), NEW i \in 1..Len(q)
  PROVE  /\ RemoveAt(q, i) \in Seq(S)
         /\ Len(RemoveAt(q, i)) = Len(q) - 1
         /\ \A k \in 1..(Len(q) - 1) :
              RemoveAt(q, i)[k] = IF k < i THEN q[k] ELSE q[k + 1]
<1> DEFINE front == SubSeq(q, 1, i - 1)
           back == SubSeq(q, i + 1, Len(q))
<1>1. Len(q) \in Nat /\ i \in Nat /\ 1 <= i /\ i <= Len(q)
  OBVIOUS
<1>2. front \in Seq(S) /\ Len(front) = i - 1 /\ \A k \in 1..(i - 1) : front[k] = q[k]
  BY <1>1, SubSeqProperties
<1>3. back \in Seq(S) /\ Len(back) = Len(q) - i
      /\ \A k \in 1..(Len(q) - i) : back[k] = q[i + k]
  BY <1>1, SubSeqProperties
<1>4. RemoveAt(q, i) = front \o back
  BY DEF RemoveAt
<1> HIDE DEF front, back
<1>5. /\ front \o back \in Seq(S)
      /\ Len(front \o back) = Len(front) + Len(back)
      /\ \A k \in 1..(Len(front) + Len(back)) :
           (front \o back)[k] = IF k <= Len(front) THEN front[k] ELSE back[k - Len(front)]
  BY <1>2, <1>3, ConcatProperties
<1>6. Len(front) + Len(back) = Len(q) - 1
  BY <1>1, <1>2, <1>3
<1>7. ASSUME NEW k \in 1..(Len(q) - 1)
      PROVE  (front \o back)[k] = IF k < i THEN q[k] ELSE q[k + 1]
  <2>1. k \in Nat /\ 1 <= k /\ k <= Len(q) - 1
        /\ (front \o back)[k] = IF k <= i - 1 THEN front[k] ELSE back[k - (i - 1)]
    BY <1>1, <1>2, <1>5, <1>6
  <2>2. CASE k < i
    BY <1>1, <1>2, <2>1, <2>2
  <2>3. CASE ~(k < i)
    <3>1. k - (i - 1) \in 1..(Len(q) - i) /\ i + (k - (i - 1)) = k + 1 /\ ~(k <= i - 1)
      BY <1>1, <2>1, <2>3
    <3> QED
      BY <1>3, <2>1, <2>3, <3>1
  <2> QED
    BY <2>2, <2>3
<1> QED
  BY <1>4, <1>5, <1>6, <1>7

-----------------------------------------------------------------------------
(* The steps that do not touch the queue *)

(* occupy(): a request that is not waiting takes a slot. *)
LEMMA OccupyKeepsInv ==
  ASSUME Inv, NEW r \in Requests, phase[r] = "idle", Occupy(r),
         inFlight < MaxInFlight + Reserved, byPolicy' \subseteq Requests
  PROVE  Inv'
<1> USE DEF Inv, Occupy
<1>1. TypeOK'
  BY DEF TypeOK, Phase
<1>2. QueueIsExact'
  BY DEF QueueIsExact, TypeOK
<1>3. SlotsAreHeld'
  <2>1. r \notin Holders /\ Holders' = Holders \cup {r}
    BY DEF Holders, TypeOK
  <2> QED
    BY <2>1, OneMoreHolder DEF SlotsAreHeld
<1>4. WithinCapacity' /\ NoIdleSlot'
  BY MaxInFlightAssumption, ReservedAssumption
     DEF WithinCapacity, NoIdleSlot, TypeOK
<1> QED
  BY <1>1, <1>2, <1>3, <1>4

(* A request that neither holds a slot nor waits moves on, and ends up
   neither holding one nor waiting: a newcomer is shed, an answered one
   leaves. *)
LEMMA PhaseOnlyKeepsInv ==
  ASSUME Inv, NEW r \in Requests, NEW p \in Phase \ {"admitted", "queued"},
         phase[r] \notin {"admitted", "queued"},
         phase' = [phase EXCEPT ![r] = p], UNCHANGED <<inFlight, queue, byPolicy>>
  PROVE  Inv'
<1> USE DEF Inv
<1>1. TypeOK'
  BY DEF TypeOK
<1>2. QueueIsExact'
  BY DEF QueueIsExact, TypeOK
<1>3. Holders' = Holders
  BY DEF Holders, TypeOK
<1>4. SlotsAreHeld' /\ WithinCapacity' /\ NoIdleSlot'
  BY <1>3 DEF SlotsAreHeld, WithinCapacity, NoIdleSlot
<1> QED
  BY <1>1, <1>2, <1>4

-----------------------------------------------------------------------------
(* The steps that do *)

(* A newcomer joins the queue behind the others. *)
LEMMA EnqueueKeepsInv ==
  ASSUME Inv, NEW r \in Requests, Enqueue(r)
  PROVE  Inv'
<1> USE DEF Inv, Enqueue
<1>1. /\ queue' \in Seq(Requests) /\ Len(queue') = Len(queue) + 1
      /\ \A i \in 1..Len(queue) : queue'[i] = queue[i]
      /\ queue'[Len(queue) + 1] = r
  BY AppendProperties DEF TypeOK
<1>2. TypeOK'
  BY <1>1 DEF TypeOK, Phase
<1>3. QueueIsExact'
  <2>1. Len(queue) \in Nat /\ \A i \in 1..Len(queue) : queue[i] # r
    BY DEF QueueIsExact, TypeOK
  <2>2. ASSUME NEW i \in 1..Len(queue'), NEW j \in 1..Len(queue'), queue'[i] = queue'[j]
        PROVE  i = j
    BY <1>1, <2>1, <2>2 DEF QueueIsExact
  <2>3. ASSUME NEW x \in Requests
        PROVE  phase'[x] = "queued" <=> \E i \in 1..Len(queue') : queue'[i] = x
    <3>1. CASE x = r
      BY <1>1, <2>1, <3>1 DEF TypeOK
    <3>2. CASE x # r
      BY <1>1, <2>1, <3>2 DEF QueueIsExact, TypeOK
    <3> QED
      BY <3>1, <3>2
  <2> QED
    BY <2>2, <2>3 DEF QueueIsExact
<1>4. Holders' = Holders
  BY DEF Holders, TypeOK
<1>5. SlotsAreHeld' /\ WithinCapacity' /\ NoIdleSlot'
  BY <1>4 DEF SlotsAreHeld, WithinCapacity, NoIdleSlot
<1> QED
  BY <1>2, <1>3, <1>5

(* A waiter that times out or is cancelled leaves the queue, from wherever
   it stands in it. *)
LEMMA GiveUpKeepsInv ==
  ASSUME Inv, NEW r \in Requests, NEW outcome \in Phase \ {"admitted", "queued"},
         GiveUp(r, outcome)
  PROVE  Inv'
<1> USE DEF Inv
<1>1. PICK i \in 1..Len(queue) : queue[i] = r /\ queue' = RemoveAt(queue, i)
  BY DEF GiveUp
<1>2. /\ phase' = [phase EXCEPT ![r] = outcome]
      /\ UNCHANGED <<inFlight, byPolicy>>
  BY DEF GiveUp
<1>3. /\ queue' \in Seq(Requests)
      /\ Len(queue') = Len(queue) - 1
      /\ \A k \in 1..(Len(queue) - 1) :
           queue'[k] = IF k < i THEN queue[k] ELSE queue[k + 1]
  BY <1>1, RemoveAtElements DEF TypeOK
<1>4. Len(queue) \in Nat /\ i \in Nat
  BY DEF TypeOK
<1>5. TypeOK'
  BY <1>2, <1>3 DEF TypeOK
<1>6. QueueIsExact'
  <2>1. ASSUME NEW j \in 1..Len(queue'), NEW k \in 1..Len(queue'), queue'[j] = queue'[k]
        PROVE  j = k
    <3> DEFINE Old(n) == IF n < i THEN n ELSE n + 1
    <3>1. Old(j) \in 1..Len(queue) /\ Old(k) \in 1..Len(queue)
      BY <1>3, <1>4
    <3>2. queue[Old(j)] = queue[Old(k)]
      BY <1>3, <2>1
    <3>3. Old(j) = Old(k)
      BY <3>1, <3>2 DEF QueueIsExact
    <3> QED
      BY <1>3, <1>4, <3>3
  <2>2. ASSUME NEW x \in Requests
        PROVE  phase'[x] = "queued" <=> \E k \in 1..Len(queue') : queue'[k] = x
    <3>1. CASE x = r
      <4>1. ASSUME NEW k \in 1..Len(queue'), queue'[k] = r PROVE FALSE
        <5> DEFINE old == IF k < i THEN k ELSE k + 1
        <5>1. old \in 1..Len(queue) /\ old # i
          BY <1>3, <1>4
        <5>2. queue[old] = queue[i]
          BY <1>1, <1>3, <4>1
        <5> QED
          BY <5>1, <5>2 DEF QueueIsExact
      <4> QED
        BY <1>2, <3>1, <4>1 DEF TypeOK
    <3>2. CASE x # r
      <4>1. phase'[x] = phase[x]
        BY <1>2, <3>2 DEF TypeOK
      <4>2. ASSUME NEW k \in 1..Len(queue), queue[k] = x
            PROVE  \E j \in 1..Len(queue') : queue'[j] = x
        <5>1. k # i
          BY <1>1, <3>2, <4>2
        <5>2. CASE k < i
          BY <1>3, <1>4, <4>2, <5>2
        <5>3. CASE k > i
          <6>1. k - 1 \in 1..Len(queue') /\ ~(k - 1 < i) /\ (k - 1) + 1 = k
            BY <1>3, <1>4, <5>3
          <6>2. queue'[k - 1] = x
            BY <1>3, <4>2, <6>1
          <6> QED
            BY <6>1, <6>2
        <5> QED
          BY <1>4, <5>1, <5>2, <5>3
      <4>3. ASSUME NEW j \in 1..Len(queue'), queue'[j] = x
            PROVE  \E k \in 1..Len(queue) : queue[k] = x
        BY <1>3, <1>4, <4>3
      <4> QED
        BY <4>1, <4>2, <4>3 DEF QueueIsExact
    <3> QED
      BY <3>1, <3>2
  <2> QED
    BY <2>1, <2>2 DEF QueueIsExact
<1>7. phase[r] = "queued"
  BY <1>1 DEF QueueIsExact
<1>8. Holders' = Holders
  BY <1>2, <1>7 DEF Holders, TypeOK
<1>9. queue # <<>>
  BY <1>4
<1>10. SlotsAreHeld' /\ WithinCapacity' /\ NoIdleSlot'
  BY <1>2, <1>8, <1>9 DEF SlotsAreHeld, WithinCapacity, NoIdleSlot
<1> QED
  BY <1>5, <1>6, <1>10

(* release() gives the slot back, or hands it to the oldest waiter. *)
LEMMA ReleaseKeepsInv ==
  ASSUME Inv, NEW r \in Requests, Release(r)
  PROVE  Inv'
<1> USE DEF Inv
<1>1. phase[r] = "admitted" /\ byPolicy' = byPolicy \ {r} /\ r \in Holders
  BY DEF Release, Holders
<1>2. CASE inFlight - 1 < MaxInFlight /\ queue # <<>>
  <2> DEFINE w == Head(queue)
  <2>1. /\ queue' = Tail(queue)
        /\ phase' = [phase EXCEPT ![r] = "released", ![w] = "admitted"]
        /\ UNCHANGED inFlight
    BY <1>2 DEF Release
  <2>2. /\ Len(queue) \in Nat \ {0} /\ w = queue[1] /\ w \in Requests
        /\ queue' \in Seq(Requests) /\ Len(queue') = Len(queue) - 1
        /\ \A i \in 1..Len(queue') : queue'[i] = queue[i + 1]
    BY <1>2, <2>1, HeadTailProperties, EmptySeq DEF TypeOK
  <2>3. phase[w] = "queued" /\ w # r /\ w \notin Holders
    BY <1>1, <2>2 DEF QueueIsExact, Holders
  <2> HIDE DEF w
  <2>4. TypeOK'
    BY <1>1, <2>1, <2>2 DEF TypeOK, Phase
  <2>5. QueueIsExact'
    <3>1. ASSUME NEW i \in 1..Len(queue'), NEW j \in 1..Len(queue'), queue'[i] = queue'[j]
          PROVE  i = j
      <4>1. i + 1 \in 1..Len(queue) /\ j + 1 \in 1..Len(queue)
        BY <2>2
      <4>2. i + 1 = j + 1
        BY <2>2, <3>1, <4>1 DEF QueueIsExact
      <4> QED
        BY <4>2
    <3>2. ASSUME NEW x \in Requests
          PROVE  phase'[x] = "queued" <=> \E i \in 1..Len(queue') : queue'[i] = x
      <4>1. ASSUME NEW i \in 1..Len(queue'), queue'[i] = x
            PROVE  phase[x] = "queued" /\ x # w
        <5>1. i + 1 \in 1..Len(queue) /\ 1 \in 1..Len(queue) /\ i + 1 # 1
          BY <2>2
        <5> QED
          BY <2>2, <4>1, <5>1 DEF QueueIsExact
      <4>2. ASSUME phase[x] = "queued", x # w
            PROVE  \E i \in 1..Len(queue') : queue'[i] = x
        <5>1. PICK k \in 1..Len(queue) : queue[k] = x
          BY <4>2 DEF QueueIsExact
        <5>2. k # 1
          BY <2>2, <4>2, <5>1
        <5>3. k - 1 \in 1..Len(queue') /\ (k - 1) + 1 = k
          BY <2>2, <5>2
        <5> QED
          BY <2>2, <5>1, <5>3
      <4>3. phase'[x] = "queued" <=> (phase[x] = "queued" /\ x # w)
        BY <1>1, <2>1, <2>2, <2>3 DEF TypeOK
      <4> QED
        BY <4>1, <4>2, <4>3
    <3> QED
      BY <3>1, <3>2 DEF QueueIsExact
  <2>6. Holders' = (Holders \ {r}) \cup {w}
    BY <1>1, <2>1, <2>2, <2>3 DEF Holders, TypeOK
  <2>7. SlotsAreHeld'
    BY <1>1, <2>1, <2>2, <2>3, <2>6, HolderReplaced DEF SlotsAreHeld
  <2>8. WithinCapacity' /\ NoIdleSlot'
    BY <1>2, <2>1 DEF WithinCapacity, NoIdleSlot
  <2> QED
    BY <2>4, <2>5, <2>7, <2>8
<1>3. CASE ~(inFlight - 1 < MaxInFlight /\ queue # <<>>)
  <2>1. /\ inFlight' = inFlight - 1
        /\ phase' = [phase EXCEPT ![r] = "released"]
        /\ UNCHANGED queue
    BY <1>3 DEF Release
  <2>2. Holders' = Holders \ {r}
    BY <1>1, <2>1 DEF Holders, TypeOK
  <2>3. inFlight = Cardinality(Holders) /\ Cardinality(Holders') = inFlight - 1
        /\ Cardinality(Holders') \in Nat
    BY <1>1, <2>2, OneHolderLess, HoldersFinite DEF SlotsAreHeld
  <2>4. TypeOK'
    BY <1>1, <2>1, <2>3 DEF TypeOK, Phase
  <2>5. QueueIsExact'
    BY <1>1, <2>1 DEF QueueIsExact, TypeOK
  <2>6. SlotsAreHeld' /\ WithinCapacity' /\ NoIdleSlot'
    BY <1>3, <2>1, <2>3, MaxInFlightAssumption, ReservedAssumption
       DEF SlotsAreHeld, WithinCapacity, NoIdleSlot, TypeOK
  <2> QED
    BY <2>4, <2>5, <2>6
<1> QED
  BY <1>2, <1>3

-----------------------------------------------------------------------------
(* The gate starts empty, and every step keeps the invariant: one lemma per
   kind of step above. *)
LEMMA Inductive == (Init => Inv) /\ (Inv /\ [Next]_vars => Inv')
<1>1. ASSUME Init PROVE Inv
  <2>1. Holders = {}
    BY <1>1 DEF Init, Holders
  <2>2. TypeOK /\ QueueIsExact
    BY <1>1 DEF Init, TypeOK, QueueIsExact, Phase
  <2> QED
    BY <1>1, <2>1, <2>2, FS_EmptySet, MaxInFlightAssumption, ReservedAssumption
       DEF Init, Inv, SlotsAreHeld, WithinCapacity, NoIdleSlot
<1>2. ASSUME Inv, UNCHANGED vars PROVE Inv'
  BY <1>2 DEF Inv, vars, TypeOK, QueueIsExact, SlotsAreHeld, Holders,
              WithinCapacity, NoIdleSlot
<1>3. ASSUME Inv, NEW r \in Requests,
             \/ AdmitByPolicy(r) \/ ShedOutright(r) \/ FastPath(r)
             \/ Enqueue(r) \/ ShedSaturated(r)
             \/ TimesOut(r) \/ Cancelled(r)
             \/ Release(r) \/ Leave(r)
      PROVE  Inv'
  <2>1. CASE AdmitByPolicy(r)
    BY <1>3, <2>1, OccupyKeepsInv DEF AdmitByPolicy, Inv, TypeOK
  <2>2. CASE ShedOutright(r) \/ ShedSaturated(r)
    BY <1>3, <2>2, PhaseOnlyKeepsInv DEF ShedOutright, ShedSaturated, Shed, Phase
  <2>3. CASE FastPath(r)
    <3>1. inFlight < MaxInFlight + Reserved
      BY <1>3, <2>3, MaxInFlightAssumption, ReservedAssumption DEF FastPath, Inv, TypeOK
    <3> QED
      BY <1>3, <2>3, <3>1, OccupyKeepsInv DEF FastPath, Inv, TypeOK
  <2>4. CASE Enqueue(r)
    BY <1>3, <2>4, EnqueueKeepsInv
  <2>5. CASE TimesOut(r) \/ Cancelled(r)
    BY <1>3, <2>5, GiveUpKeepsInv DEF TimesOut, Cancelled, Phase
  <2>6. CASE Release(r)
    BY <1>3, <2>6, ReleaseKeepsInv
  <2>7. CASE Leave(r)
    BY <1>3, <2>7, PhaseOnlyKeepsInv DEF Leave, Phase
  <2> QED
    BY <1>3, <2>1, <2>2, <2>3, <2>4, <2>5, <2>6, <2>7
<1> QED
  BY <1>1, <1>2, <1>3 DEF Next

(* The gate's state keeps its types, whatever the load. *)
THEOREM TypeCorrect == Spec => []TypeOK
<1>1. Inv => TypeOK
  BY DEF Inv
<1> QED
  BY <1>1, Inductive, PTL DEF Spec

(* No slot of the gate leaks and none is given back twice. *)
THEOREM SlotsAreAlwaysHeld == Spec => []SlotsAreHeld
<1>1. Inv => SlotsAreHeld
  BY DEF Inv
<1> QED
  BY <1>1, Inductive, PTL DEF Spec

(* The load never exceeds the capacity and the reserved headroom. *)
THEOREM AlwaysWithinCapacity == Spec => []WithinCapacity
<1>1. Inv => WithinCapacity
  BY DEF Inv
<1> QED
  BY <1>1, Inductive, PTL DEF Spec

(* Nobody waits for a slot that is free. *)
THEOREM NeverAnIdleSlot == Spec => []NoIdleSlot
<1>1. Inv => NoIdleSlot
  BY DEF Inv
<1> QED
  BY <1>1, Inductive, PTL DEF Spec

(* The queue and the waiting requests are the same at all times. *)
THEOREM QueueAlwaysExact == Spec => []QueueIsExact
<1>1. Inv => QueueIsExact
  BY DEF Inv
<1> QED
  BY <1>1, Inductive, PTL DEF Spec

(* Releasing a reserved slot never hands it to an ordinary waiter. *)
THEOREM HeadroomStaysReserved == Spec => HeadroomIsReserved
<1> DEFINE Kept ==
      \A r \in Requests :
        (phase[r] # "admitted" /\ phase'[r] = "admitted" /\ r \notin byPolicy')
           => inFlight' <= MaxInFlight
<1>1. ASSUME Inv, [Next]_vars PROVE Kept
  <2> SUFFICES ASSUME NEW r \in Requests, phase[r] # "admitted",
                      phase'[r] = "admitted", r \notin byPolicy'
               PROVE  inFlight' <= MaxInFlight
    OBVIOUS
  <2>1. TypeOK /\ MaxInFlight \in Nat \ {0}
    BY <1>1, MaxInFlightAssumption DEF Inv
  <2>2. PICK x \in Requests :
          \/ AdmitByPolicy(x) \/ ShedOutright(x) \/ FastPath(x)
          \/ Enqueue(x) \/ ShedSaturated(x)
          \/ TimesOut(x) \/ Cancelled(x)
          \/ Release(x) \/ Leave(x)
    BY <1>1 DEF Next, vars
  <2>3. CASE AdmitByPolicy(x)
    BY <2>1, <2>3 DEF AdmitByPolicy, Occupy, TypeOK
  <2>4. CASE FastPath(x)
    BY <2>1, <2>4 DEF FastPath, Occupy, TypeOK
  <2>5. CASE Release(x)
    BY <2>1, <2>5 DEF Release, TypeOK
  <2>6. CASE \/ ShedOutright(x) \/ Enqueue(x) \/ ShedSaturated(x)
             \/ TimesOut(x) \/ Cancelled(x) \/ Leave(x)
    BY <2>1, <2>6 DEF ShedOutright, Enqueue, ShedSaturated, Shed, TimesOut,
                      Cancelled, GiveUp, Leave, TypeOK
  <2> QED
    BY <2>2, <2>3, <2>4, <2>5, <2>6
<1>2. Spec => []Inv
  BY Inductive, PTL DEF Spec
<1>3. Spec => [][Kept]_vars
  BY <1>1, <1>2, PTL DEF Spec
<1> QED
  BY <1>3 DEF HeadroomIsReserved
=============================================================================
