-------------------------- MODULE JobQueue_proofs --------------------------
(***************************************************************************)
(* Proofs about JobQueue for every number of processes, jobs and slots.    *)
(*                                                                         *)
(* The argument is in five invariants: TypeInv; TokenInv, on which fencing *)
(* rests; RenewInv, while nothing has lapsed; SlotsFit, which counts the   *)
(* slots a lease() in flight has spoken for; and PromiseInv, the reasons   *)
(* behind the settle calls, from which the refinement of JobDelivery       *)
(* follows.  AttemptInv adds to RenewInv the attempts that are left.       *)
(***************************************************************************)
EXTENDS JobQueue, FiniteSetTheorems, TLAPS

-----------------------------------------------------------------------------
(* Sets of jobs, and the tokens lease() hands out *)

(* Every set of jobs is finite and has a natural number of elements. *)
LEMMA JobSetFinite ==
  ASSUME NEW S \in SUBSET Job
  PROVE  IsFiniteSet(S) /\ Cardinality(S) \in Nat
<1>1. IsFiniteSet(Job)
  BY FS_Interval, MaxJobsAssumption DEF Job
<1> QED
  BY <1>1, FS_Subset, FS_CardinalityType

(* The rank of a job in a set of jobs is a natural number, positive for a
   member, and grows with the job: lease() walks the Map in order. *)
LEMMA RankOfMember ==
  ASSUME NEW S \in SUBSET Job, NEW i \in S, NEW j \in S
  PROVE  /\ UpTo(S, j) \in Nat \ {0}
         /\ i <= j => UpTo(S, i) <= UpTo(S, j)
         /\ UpTo(S, i) = UpTo(S, j) => i = j
<1> DEFINE Below(k) == {x \in S : x <= k}
<1>1. i \in Nat /\ j \in Nat /\ \A x \in S : x \in Nat
  BY MaxJobsAssumption DEF Job
<1>2. /\ IsFiniteSet(Below(i)) /\ Cardinality(Below(i)) \in Nat
      /\ IsFiniteSet(Below(j)) /\ Cardinality(Below(j)) \in Nat
  BY JobSetFinite
<1>3. j \in Below(j) /\ i \in Below(i)
  BY <1>1
<1>4. Cardinality(Below(j)) # 0
  BY <1>2, <1>3, FS_EmptySet
<1>5. ASSUME i <= j PROVE Below(i) \subseteq Below(j)
  <2> SUFFICES ASSUME NEW x \in S, x <= i PROVE x <= j
    OBVIOUS
  <2> QED
    BY <1>1, <1>5
<1>6. ASSUME j <= i PROVE Below(j) \subseteq Below(i)
  <2> SUFFICES ASSUME NEW x \in S, x <= j PROVE x <= i
    OBVIOUS
  <2> QED
    BY <1>1, <1>6
<1>7. i <= j => Cardinality(Below(i)) <= Cardinality(Below(j))
  BY <1>2, <1>5, FS_Subset
<1>8. ASSUME Cardinality(Below(i)) = Cardinality(Below(j))
      PROVE  i = j
  <2>1. Below(i) = Below(j)
    <3>1. CASE i <= j
      BY <1>2, <1>5, <1>8, <3>1, FS_Subset
    <3>2. CASE j <= i
      BY <1>2, <1>6, <1>8, <3>2, FS_Subset
    <3> QED
      BY <1>1, <3>1, <3>2
  <2> QED
    BY <1>1, <1>3, <2>1
<1> QED
  BY <1>2, <1>4, <1>7, <1>8 DEF UpTo

(* The tokens of one lease() are new, all issued by the end of it, and no
   two jobs get the same one. *)
LEMMA TokensAreNew ==
  ASSUME StoreTypeOK, NEW limit \in Nat
  PROVE  /\ Leased(limit) \subseteq Job
         /\ Cardinality(Leased(limit)) \in Nat
         /\ \A j \in Job : Token(limit, j) \in Nat
         /\ \A j \in Leased(limit) :
              /\ Token(limit, j) > leaseSeq
              /\ Token(limit, j) <= leaseSeq + Cardinality(Leased(limit))
         /\ \A i, j \in Leased(limit) :
              Token(limit, i) = Token(limit, j) => i = j
<1>1. Due \in SUBSET Job /\ leaseSeq \in Nat
  BY DEF Due, StoreTypeOK
<1>2. Leased(limit) \in SUBSET Due
  BY DEF Leased
<1>3. \A j \in Due : UpTo(Due, j) \in Nat \ {0}
  BY <1>1, RankOfMember
<1>4. IsFiniteSet(Leased(limit)) /\ Cardinality(Leased(limit)) \in Nat
  BY <1>1, <1>2, JobSetFinite
<1>5. ASSUME NEW j \in Leased(limit)
      PROVE  UpTo(Due, j) <= Cardinality(Leased(limit))
  <2>1. {i \in Due : i <= j} \subseteq Leased(limit)
    <3> SUFFICES ASSUME NEW i \in Due, i <= j
                 PROVE  UpTo(Due, i) <= limit
      BY DEF Leased
    <3>1. UpTo(Due, i) <= UpTo(Due, j) /\ UpTo(Due, j) <= limit
      BY <1>1, <1>2, RankOfMember DEF Leased
    <3> QED
      BY <1>2, <1>3, <3>1
  <2> QED
    BY <1>4, <2>1, FS_Subset DEF UpTo
<1>6. \A i, j \in Leased(limit) : UpTo(Due, i) = UpTo(Due, j) => i = j
  BY <1>1, <1>2, RankOfMember
<1> QED
  BY <1>1, <1>2, <1>3, <1>4, <1>5, <1>6 DEF Token, NoLease

-----------------------------------------------------------------------------
(* Types *)

(* The image of a finite set under a function onto it is finite. *)
LEMMA FiniteOnto ==
  ASSUME NEW S, IsFiniteSet(S), NEW T, NEW f \in [S -> T],
         \A t \in T : \E s \in S : f[s] = t
  PROVE  IsFiniteSet(T)
<1>1. f \in Surjection(S, T)
  BY DEF Surjection
<1> QED
  BY <1>1, FS_Surjection

TypeInv == TypeOK /\ FiniteRuns

(* A queue that has just been created is well typed and has no run. *)
LEMMA InitTypeInv == Init => TypeInv
<1> SUFFICES ASSUME Init PROVE TypeInv
  OBVIOUS
<1>1. StoreTypeOK
  <2>1. \A j \in Job : jobName[j] \in Names
    BY NamesAssumption DEF Init, StoreInit
  <2>2. jobName \in [Job -> Names]
    BY <2>1 DEF Init, StoreInit
  <2> QED
    BY <2>2, MaxJobsAssumption, MaxDelayAssumption, LeaseMsAssumption
    DEF Init, StoreInit, StoreTypeOK, NoLease
<1>2. FiniteRuns
  BY FS_EmptySet DEF Init, FiniteRuns
<1> QED
  BY <1>1, <1>2, BoundsAssumption
  DEF Init, TypeInv, TypeOK, NoGrant, NoLease, NoRun

(* What a reply leaves of lease() in flight is well typed. *)
LEMMA NoReplyTypes ==
  ASSUME TypeInv, NEW w \in Workers, NoReply(w)
  PROVE  /\ leasing' \in [Workers -> {"none", "called", "replied"}]
         /\ free' \in [Workers -> Nat]
         /\ grant' \in [Workers -> [Job -> Nat]]
         /\ prior' \in [Workers -> [Job -> Nat]]
<1>1. NoGrant \in [Job -> Nat] /\ [j \in Job |-> 0] \in [Job -> Nat]
  BY DEF NoGrant, NoLease
<1> QED
  BY <1>1 DEF NoReply, TypeInv, TypeOK

(* The runs of a process after Admit are well typed and finitely many. *)
LEMMA AdmittedRuns ==
  ASSUME TypeInv, NEW w \in Workers
  PROVE  LET R == {Adopt(w, r) : r \in runs[w]}
                    \cup {Begun(w, j) : j \in Started(w)}
         IN  R \subseteq Run /\ IsFiniteSet(R)
<1> DEFINE A == {Adopt(w, r) : r \in runs[w]}
           B == {Begun(w, j) : j \in Started(w)}
<1>1. \A j \in Job : grant[w][j] \in Nat /\ prior[w][j] \in Nat
  BY DEF TypeInv, TypeOK
<1>2. \A r \in runs[w] : Adopt(w, r) \in Run
  <2> SUFFICES ASSUME NEW r \in runs[w] PROVE Adopt(w, r) \in Run
    OBVIOUS
  <2>1. r \in Run /\ r.job \in Job
    BY DEF TypeInv, TypeOK, Run
  <2> QED
    BY <1>1, <2>1 DEF Adopt, Adopts, Run, NoLease
<1>3. \A j \in Started(w) : Begun(w, j) \in Run
  BY <1>1 DEF Started, Begun, Run, NoLease
<1>4. IsFiniteSet(runs[w])
  BY DEF TypeInv, FiniteRuns
<1>5. IsFiniteSet(Started(w))
  BY JobSetFinite DEF Started
<1>6. IsFiniteSet(A)
  <2> DEFINE f == [r \in runs[w] |-> Adopt(w, r)]
  <2>1. f \in [runs[w] -> A] /\ \A t \in A : \E r \in runs[w] : f[r] = t
    OBVIOUS
  <2> HIDE DEF f, A
  <2> QED
    BY <1>4, <2>1, FiniteOnto
<1>7. IsFiniteSet(B)
  <2> DEFINE f == [j \in Started(w) |-> Begun(w, j)]
  <2>1. f \in [Started(w) -> B] /\ \A t \in B : \E j \in Started(w) : f[j] = t
    OBVIOUS
  <2> HIDE DEF f, B
  <2> QED
    BY <1>5, <2>1, FiniteOnto
<1> QED
  BY <1>2, <1>3, <1>6, <1>7, FS_Union

(* The store's own variables keep their types in every operation. *)
LEMMA StoreTypes ==
  ASSUME StoreTypeOK
  PROVE  /\ \A n \in Names, d \in 0..MaxDelay : StoreEnqueue(n, d) => StoreTypeOK'
         /\ \A limit \in Nat : StoreLease(limit) => StoreTypeOK'
         /\ \A j \in Job, t \in Nat, o \in {"completed", "dead"} :
              StoreRemove(j, t, o) => StoreTypeOK'
         /\ \A j \in Job, t \in Nat, d \in 0..MaxDelay : StoreRetry(j, t, d) => StoreTypeOK'
         /\ \A j \in Job, t \in Nat : StoreRenew(j, t) => StoreTypeOK'
         /\ StoreTick => StoreTypeOK'
<1>1. ASSUME NEW n \in Names, NEW d \in 0..MaxDelay, StoreEnqueue(n, d)
      PROVE  StoreTypeOK'
  <2>1. seq' \in 0..MaxJobs /\ seq + 1 \in Job
    BY <1>1, MaxJobsAssumption DEF StoreEnqueue, StoreTypeOK, Job
  <2> QED
    BY <1>1, <2>1 DEF StoreEnqueue, StoreTypeOK
<1>2. ASSUME NEW limit \in Nat, StoreLease(limit)
      PROVE  StoreTypeOK'
  <2>1. \A j \in Job : Token(limit, j) \in Nat
    BY TokensAreNew
  <2>2. Cardinality(Leased(limit)) \in Nat
    BY TokensAreNew
  <2>3. LeaseMs \in 0..LeaseMs
    BY LeaseMsAssumption
  <2> QED
    BY <1>2, <2>1, <2>2, <2>3 DEF StoreLease, StoreTypeOK
<1>3. ASSUME NEW j \in Job, NEW t \in Nat, NEW o \in {"completed", "dead"},
             StoreRemove(j, t, o)
      PROVE  StoreTypeOK'
  BY <1>3, LeaseMsAssumption DEF StoreRemove, StoreTypeOK, NoLease
<1>4. ASSUME NEW j \in Job, NEW t \in Nat, NEW d \in 0..MaxDelay, StoreRetry(j, t, d)
      PROVE  StoreTypeOK'
  BY <1>4, LeaseMsAssumption DEF StoreRetry, StoreTypeOK, NoLease
<1>5. ASSUME NEW j \in Job, NEW t \in Nat, StoreRenew(j, t)
      PROVE  StoreTypeOK'
  BY <1>5, LeaseMsAssumption DEF StoreRenew, StoreTypeOK
<1>6. ASSUME StoreTick
      PROVE  StoreTypeOK'
  <2>1. \A j \in Job : /\ (IF wait[j] > 0 THEN wait[j] - 1 ELSE 0) \in 0..MaxDelay
                       /\ (IF hidden[j] > 0 THEN hidden[j] - 1 ELSE 0) \in 0..LeaseMs
    BY MaxDelayAssumption, LeaseMsAssumption DEF StoreTypeOK
  <2> QED
    BY <1>6, <2>1 DEF StoreTick, StoreTypeOK
<1> QED
  BY <1>1, <1>2, <1>3, <1>4, <1>5, <1>6

(* Every step of the queue keeps every variable well typed and the runs of
   every process finitely many. *)
LEMMA NextTypeInv == TypeInv /\ [Next]_vars => TypeInv'
<1> SUFFICES ASSUME TypeInv, [Next]_vars PROVE TypeInv'
  OBVIOUS
<1> USE DEF TypeInv
<1>0. StoreTypeOK
  BY DEF TypeOK
<1>1. ASSUME NEW w \in Workers, NEW n \in Names, NEW d \in 0..MaxDelay,
             Enqueue(w, n, d)
      PROVE  TypeInv'
  BY <1>0, <1>1, StoreTypes
  DEF Enqueue, workerVars, historyVars, boundVars, TypeOK, FiniteRuns
<1>2. ASSUME NEW w \in Workers, Poll(w)
      PROVE  TypeInv'
  <2>1. Cardinality(runs[w]) \in Nat
    BY FS_CardinalityType DEF FiniteRuns
  <2>2. Concurrency - Cardinality(runs[w]) \in Nat
    BY <1>2, <2>1, ConcurrencyAssumption DEF Poll
  <2> QED
    BY <1>2, <2>2
    DEF Poll, storeVars, historyVars, boundVars, TypeOK, StoreTypeOK, FiniteRuns
<1>3. ASSUME NEW w \in Workers, LeaseServed(w)
      PROVE  TypeInv'
  <2>1. free[w] \in Nat
    BY DEF TypeOK
  <2>2. StoreTypeOK'
    BY <1>0, <1>3, <2>1, StoreTypes DEF LeaseServed
  <2>3. [j \in Job |-> Token(free[w], j)] \in [Job -> Nat]
    BY <1>0, <2>1, TokensAreNew
  <2>4. [j \in Job |-> IF j \in Leased(free[w]) THEN attempt[j] ELSE 0]
          \in [Job -> Nat]
    BY <1>0 DEF StoreTypeOK
  <2> QED
    BY <1>3, <2>2, <2>3, <2>4
    DEF LeaseServed, historyVars, boundVars, TypeOK, FiniteRuns
<1>4. ASSUME NEW w \in Workers, LeaseFails(w)
      PROVE  TypeInv'
  BY <1>4, NoReplyTypes, BoundsAssumption
  DEF LeaseFails, storeVars, historyVars, TypeOK, StoreTypeOK, FiniteRuns
<1>5. ASSUME NEW w \in Workers, Admit(w)
      PROVE  TypeInv'
  <2>1. runs' \in [Workers -> SUBSET Run] /\ FiniteRuns'
    BY <1>5, AdmittedRuns DEF Admit, TypeOK, FiniteRuns
  <2>2. holds' \in [Workers -> [Job -> Nat]]
    BY <1>5 DEF Admit, TypeOK
  <2>3. \A j \in Undefined(w) : CallOf(Begun(w, j), "deadLetter", 0) \in Call
    <3> SUFFICES ASSUME NEW j \in Undefined(w)
                 PROVE  CallOf(Begun(w, j), "deadLetter", 0) \in Call
      OBVIOUS
    <3>1. j \in Job /\ grant[w][j] \in Nat \ {0} /\ 0 \in 0..MaxDelay
      BY MaxDelayAssumption DEF Undefined, Started, TypeOK, NoLease
    <3> QED
      BY <3>1 DEF CallOf, Begun, Call
  <2>4. calls' \subseteq Call /\ unusable' \subseteq Job
    BY <1>5, <2>3 DEF Admit, TypeOK, Undefined, Started
  <2> QED
    BY <1>5, <2>1, <2>2, <2>4, NoReplyTypes
    DEF Admit, storeVars, boundVars, TypeOK, StoreTypeOK
<1>6. ASSUME NEW w \in Workers, NEW r \in runs[w], NEW d \in 0..MaxDelay,
             NEW op \in {"complete", "retry", "deadLetter"},
             Settle(w, r, op, d),
             returned' \subseteq Job, thrown' \in [Job -> Nat], unusable' \subseteq Job
      PROVE  TypeInv'
  <2>1. r \in Run
    BY DEF TypeOK
  <2>2. CallOf(r, op, d) \in Call /\ [r EXCEPT !.phase = "settling"] \in Run
    BY <2>1 DEF CallOf, Call, Run
  <2>3. IsFiniteSet((runs[w] \ {r}) \cup {[r EXCEPT !.phase = "settling"]})
    BY FS_RemoveElement, FS_AddElement DEF FiniteRuns
  <2>4. runs' \in [Workers -> SUBSET Run] /\ FiniteRuns'
    BY <1>6, <2>2, <2>3 DEF Settle, TypeOK, FiniteRuns
  <2> QED
    BY <1>6, <2>2, <2>4 DEF Settle, storeVars, boundVars, TypeOK, StoreTypeOK
<1>7. ASSUME NEW w \in Workers, NEW j \in Job, HandlerEnds(w, j)
      PROVE  TypeInv'
  <2> PICK r \in runs[w] :
        \/ HandlerReturns(w, r)
        \/ \E d \in 0..MaxDelay : HandlerThrowsAndRetries(w, r, d)
        \/ HandlerThrowsForGood(w, r)
    BY <1>7 DEF HandlerEnds
  <2>1. r.job \in Job /\ 0 \in 0..MaxDelay
    BY MaxDelayAssumption DEF TypeOK, Run
  <2>2. CASE HandlerReturns(w, r)
    BY <1>6, <2>1, <2>2 DEF HandlerReturns, TypeOK
  <2>3. CASE \E d \in 0..MaxDelay : HandlerThrowsAndRetries(w, r, d)
    BY <1>6, <2>1, <2>3 DEF HandlerThrowsAndRetries, TypeOK
  <2>4. CASE HandlerThrowsForGood(w, r)
    BY <1>6, <2>1, <2>4 DEF HandlerThrowsForGood, TypeOK
  <2> QED
    BY <2>2, <2>3, <2>4
<1>8. ASSUME NEW w \in Workers, NEW r \in runs[w], Renew(w, r)
      PROVE  TypeInv'
  <2>1. r.job \in Job /\ r.lease \in Nat
    BY DEF TypeOK, Run
  <2> QED
    BY <1>0, <1>8, <2>1, StoreTypes
    DEF Renew, workerVars, historyVars, boundVars, TypeOK, FiniteRuns
<1>9. ASSUME NEW w \in Workers, NEW r \in runs[w], Release(w, r)
      PROVE  TypeInv'
  <2>1. \A v \in Workers : IsFiniteSet(runs'[v])
    BY <1>9, FS_RemoveElement DEF Release, TypeOK, FiniteRuns
  <2>2. holds' \in [Workers -> [Job -> Nat]]
    BY <1>9 DEF Release, TypeOK, NoRun
  <2> QED
    BY <1>9, <2>1, <2>2
    DEF Release, storeVars, historyVars, boundVars, TypeOK, StoreTypeOK, FiniteRuns
<1>10. ASSUME NEW c \in calls, Answer(c)
       PROVE  /\ calls' \subseteq Call
              /\ runs' \in [Workers -> SUBSET Run]
              /\ FiniteRuns'
  <2>1. ASSUME NEW w \in Workers
        PROVE  runs'[w] \subseteq Run /\ IsFiniteSet(runs'[w])
    <3> DEFINE g(r) == IF r.id = c.run THEN [r EXCEPT !.phase = "answered"] ELSE r
               f == [r \in runs[w] |-> g(r)]
    <3>1. runs'[w] = {g(r) : r \in runs[w]}
      BY <1>10 DEF Answer
    <3>2. \A r \in runs[w] : g(r) \in Run
      <4> SUFFICES ASSUME NEW r \in runs[w] PROVE g(r) \in Run
        OBVIOUS
      <4>1. r \in Run
        BY DEF TypeOK
      <4>2. [r EXCEPT !.phase = "answered"] \in Run
        BY <4>1 DEF Run
      <4> QED
        BY <4>1, <4>2
    <3>3. f \in [runs[w] -> runs'[w]] /\ \A t \in runs'[w] : \E r \in runs[w] : f[r] = t
      BY <3>1
    <3>4. IsFiniteSet(runs[w])
      BY DEF FiniteRuns
    <3> HIDE DEF f
    <3>5. IsFiniteSet(runs'[w])
      BY <3>3, <3>4, FiniteOnto
    <3> QED
      BY <3>1, <3>2, <3>5
  <2> QED
    BY <1>10, <2>1 DEF Answer, TypeOK, FiniteRuns
<1>11. ASSUME NEW c \in calls, SettleServed(c)
       PROVE  TypeInv'
  <2>1. c.job \in Job /\ c.lease \in Nat /\ c.delay \in 0..MaxDelay
    BY DEF TypeOK, Call
  <2>2. StoreTypeOK'
    <3>1. ASSUME UNCHANGED storeVars PROVE StoreTypeOK'
      BY <1>0, <3>1 DEF storeVars, StoreTypeOK
    <3>2. CASE StoreRemove(c.job, c.lease, "completed")
      BY <1>0, <2>1, <3>2, StoreTypes
    <3>3. CASE StoreRemove(c.job, c.lease, "dead")
      BY <1>0, <2>1, <3>3, StoreTypes
    <3>4. CASE StoreRetry(c.job, c.lease, c.delay)
      BY <1>0, <2>1, <3>4, StoreTypes
    <3> QED
      BY <1>11, <3>1, <3>2, <3>3, <3>4 DEF SettleServed, Ignored
  <2>3. Answer(c)
    BY <1>11 DEF SettleServed
  <2>4. calls' \subseteq Call /\ runs' \in [Workers -> SUBSET Run] /\ FiniteRuns'
    BY <1>10, <2>3
  <2> QED
    BY <1>11, <2>2, <2>4 DEF SettleServed, Answer, historyVars, boundVars, TypeOK
<1>12. ASSUME NEW c \in calls, SettleFails(c)
       PROVE  TypeInv'
  <2>1. Answer(c)
    BY <1>12 DEF SettleFails
  <2>2. calls' \subseteq Call /\ runs' \in [Workers -> SUBSET Run] /\ FiniteRuns'
    BY <1>10, <2>1
  <2> QED
    BY <1>12, <2>2, BoundsAssumption
    DEF SettleFails, Answer, storeVars, historyVars, TypeOK, StoreTypeOK
<1>13. ASSUME NEW w \in Workers, Stop(w) \/ Stopped(w) \/ Start(w)
       PROVE  TypeInv'
  <2>1. /\ timer' \in [Workers -> {"on", "stopping", "off"}]
        /\ stops' \in 0..MaxStops
    BY <1>13, BoundsAssumption DEF Stop, Stopped, Start, boundVars, TypeOK
  <2> QED
    BY <1>13, <2>1
    DEF Stop, Stopped, Start, storeVars, historyVars, boundVars, TypeOK, StoreTypeOK,
        FiniteRuns
<1>14. ASSUME NEW w \in Workers, Crash(w)
       PROVE  TypeInv'
  BY <1>14, NoReplyTypes, FS_EmptySet, BoundsAssumption
  DEF Crash, storeVars, historyVars, TypeOK, StoreTypeOK, FiniteRuns, NoRun
<1>15. ASSUME Tick
       PROVE  TypeInv'
  <2>1. Cardinality(Lapsing) \in Nat
    BY JobSetFinite DEF Lapsing
  <2>2. lapses' \in 0..MaxLapses
    BY <1>15, <2>1, BoundsAssumption DEF Tick, TypeOK
  <2> QED
    BY <1>0, <1>15, <2>2, StoreTypes
    DEF Tick, workerVars, historyVars, TypeOK, FiniteRuns
<1>16. CASE UNCHANGED vars
  BY <1>16 DEF vars, storeVars, workerVars, historyVars, boundVars, TypeOK,
               StoreTypeOK, FiniteRuns
<1> QED
  BY <1>1, <1>2, <1>3, <1>4, <1>5, <1>7, <1>8, <1>9, <1>11, <1>12, <1>13,
     <1>14, <1>15, <1>16
  DEF Next, Producing

(* Every variable of the queue keeps its type, whatever the number of
   processes, jobs, crashes and failures. *)
THEOREM TypeCorrect == Spec => []TypeOK
<1>1. Init => TypeInv
  BY InitTypeInv
<1>2. TypeInv /\ [Next]_vars => TypeInv'
  BY NextTypeInv
<1>3. TypeInv => TypeOK
  BY DEF TypeInv
<1> QED
  BY <1>1, <1>2, <1>3, PTL DEF Spec

-----------------------------------------------------------------------------
(* Tokens *)

(* Nothing that carries a token changes. *)
tokenVars == <<lease, leaseSeq, grant, runs, holds, calls>>

(* Dropping a reply, runs and holds of a process, or any calls, or giving up
   leases, keeps every token where it was or forgets it. *)
LEMMA ForgettingKeepsTokens ==
  ASSUME TypeInv, TypeInv', TokenInv,
         leaseSeq' = leaseSeq,
         \A j \in Job : lease'[j] = lease[j] \/ lease'[j] = NoLease,
         \A w \in Workers : grant'[w] = grant[w] \/ grant'[w] = NoGrant,
         \A w \in Workers : runs'[w] \subseteq runs[w],
         \A w \in Workers : \A r \in runs'[w] : holds'[w][r.job] = holds[w][r.job],
         calls' \subseteq calls
  PROVE  TokenInv'
<1> USE DEF TokenInv
<1>1. TokensWereIssued'
  <2>1. leaseSeq \in Nat /\ NoLease <= leaseSeq
    BY DEF TypeInv, TypeOK, StoreTypeOK, NoLease
  <2>2. \A j \in Job : lease'[j] <= leaseSeq
    BY <2>1 DEF TokensWereIssued
  <2>3. \A w \in Workers : \A j \in Job : grant'[w][j] <= leaseSeq
    BY <2>1 DEF TokensWereIssued, NoGrant
  <2>4. /\ \A w \in Workers : \A r \in runs'[w] : r.id <= leaseSeq /\ r.lease <= leaseSeq
        /\ \A c \in calls' : c.lease <= leaseSeq
    BY DEF TokensWereIssued
  <2> QED
    BY <2>2, <2>3, <2>4 DEF TokensWereIssued
<1>2. OneGrantPerToken'
  BY DEF OneGrantPerToken, NoGrant
<1>3. GrantsAreUnused'
  BY DEF GrantsAreUnused, NoGrant
<1>4. OneRunPerId'
  BY DEF OneRunPerId
<1>5. OneRunPerToken'
  BY DEF OneRunPerToken
<1>6. HoldsNameTheirRun'
  BY DEF HoldsNameTheirRun
<1>7. CallsComeFromSettling'
  BY DEF CallsComeFromSettling
<1> QED
  BY <1>1, <1>2, <1>3, <1>4, <1>5, <1>6, <1>7

(* A lease() served by the store issues tokens nobody has seen, to one
   reply, and takes the current token away from whoever had it. *)
LEMMA LeaseServedTokens ==
  ASSUME TypeInv, TokenInv, NEW w \in Workers, LeaseServed(w)
  PROVE  TokenInv'
<1> USE DEF TokenInv
<1> DEFINE L == Leased(free[w])
<1>1. StoreTypeOK /\ free[w] \in Nat
  BY DEF TypeInv, TypeOK
<1>2. /\ L \subseteq Job
      /\ Cardinality(L) \in Nat
      /\ \A j \in Job : Token(free[w], j) \in Nat
      /\ \A j \in L : /\ Token(free[w], j) > leaseSeq
                      /\ Token(free[w], j) <= leaseSeq + Cardinality(L)
      /\ \A i, j \in L : Token(free[w], i) = Token(free[w], j) => i = j
  BY <1>1, TokensAreNew
<1>3. \A j \in Job \ L : Token(free[w], j) = NoLease
  BY DEF Token
<1>4. /\ leaseSeq' = leaseSeq + Cardinality(L)
      /\ \A j \in Job : lease'[j] = IF j \in L THEN Token(free[w], j) ELSE lease[j]
      /\ \A j \in Job : grant'[w][j] = Token(free[w], j)
      /\ \A v \in Workers \ {w} : grant'[v] = grant[v]
      /\ UNCHANGED <<runs, holds, calls>>
  BY DEF LeaseServed, StoreLease, TypeInv, TypeOK
<1>5. /\ leaseSeq \in Nat /\ leaseSeq' \in Nat /\ leaseSeq <= leaseSeq'
      /\ \A j \in Job : lease[j] \in Nat
      /\ \A v \in Workers : \A j \in Job : grant[v][j] \in Nat
      /\ \A v \in Workers : \A r \in runs[v] : r.id \in Nat /\ r.lease \in Nat
      /\ \A c \in calls : c.lease \in Nat
  BY <1>1, <1>2, <1>4 DEF StoreTypeOK, TypeInv, TypeOK, Run, Call
<1> HIDE DEF L
<1>6. TokensWereIssued'
  <2>1. \A j \in Job : lease'[j] <= leaseSeq'
    BY <1>2, <1>4, <1>5 DEF TokensWereIssued
  <2>2. \A v \in Workers : \A j \in Job : grant'[v][j] <= leaseSeq'
    BY <1>2, <1>3, <1>4, <1>5 DEF TokensWereIssued, NoLease
  <2>3. \A v \in Workers : \A r \in runs[v] : r.id <= leaseSeq' /\ r.lease <= leaseSeq'
    BY <1>5 DEF TokensWereIssued
  <2>4. \A c \in calls : c.lease <= leaseSeq'
    BY <1>5 DEF TokensWereIssued
  <2> QED
    BY <1>4, <2>1, <2>2, <2>3, <2>4 DEF TokensWereIssued
<1>7. OneGrantPerToken'
  <2> SUFFICES ASSUME NEW v1 \in Workers, NEW v2 \in Workers,
                      NEW j1 \in Job, NEW j2 \in Job,
                      grant'[v1][j1] # NoLease, grant'[v1][j1] = grant'[v2][j2]
               PROVE  v1 = v2 /\ j1 = j2
    BY DEF OneGrantPerToken
  <2>1. CASE v1 = w /\ v2 = w
    BY <1>2, <1>3, <1>4, <2>1
  <2>2. CASE v1 # w /\ v2 # w
    BY <1>4, <2>2 DEF OneGrantPerToken
  <2>3. \A v \in Workers \ {w} : \A i, j \in Job :
          grant'[w][j] # NoLease => grant'[v][i] # grant'[w][j]
    BY <1>2, <1>3, <1>4, <1>5 DEF TokensWereIssued
  <2> QED
    BY <2>1, <2>2, <2>3
<1>8. GrantsAreUnused'
  <2>1. ASSUME NEW j \in Job, grant'[w][j] # NoLease
        PROVE  grant'[w][j] > leaseSeq /\ grant'[w][j] \in Nat
    BY <1>2, <1>3, <1>4, <2>1
  <2>2. ASSUME NEW j \in Job, grant'[w][j] # NoLease
        PROVE  /\ \A v \in Workers : \A r \in runs[v] :
                    grant'[w][j] # r.id /\ grant'[w][j] # r.lease
               /\ \A c \in calls : grant'[w][j] # c.lease
    <3>1. grant'[w][j] > leaseSeq /\ grant'[w][j] \in Nat
      BY <2>1, <2>2
    <3> QED
      BY <1>5, <3>1 DEF TokensWereIssued
  <2> QED
    BY <1>4, <2>2 DEF GrantsAreUnused
<1>9. OneRunPerId' /\ OneRunPerToken' /\ HoldsNameTheirRun' /\ CallsComeFromSettling'
  BY <1>4 DEF OneRunPerId, OneRunPerToken, HoldsNameTheirRun, CallsComeFromSettling
<1> QED
  BY <1>6, <1>7, <1>8, <1>9

(* A reply turns each of its tokens into the lease of one run. *)
LEMMA AdmitTokens ==
  ASSUME TypeInv, TokenInv, NEW w \in Workers, Admit(w)
  PROVE  TokenInv'
<1> USE DEF TokenInv
<1>1. /\ runs' = [runs EXCEPT ![w] = {Adopt(w, r) : r \in runs[w]}
                                       \cup {Begun(w, j) : j \in Started(w)}]
      /\ \A v \in Workers \ {w} : runs'[v] = runs[v]
      /\ runs'[w] = {Adopt(w, r) : r \in runs[w]}
                      \cup {Begun(w, j) : j \in Started(w)}
      /\ \A j \in Job : holds'[w][j] = IF j \in Started(w) THEN grant[w][j]
                                                           ELSE holds[w][j]
      /\ \A v \in Workers \ {w} : holds'[v] = holds[v]
      /\ grant'[w] = NoGrant
      /\ \A v \in Workers \ {w} : grant'[v] = grant[v]
      /\ calls' = calls \cup
           {CallOf(Begun(w, j), "deadLetter", 0) : j \in Undefined(w)}
      /\ UNCHANGED <<lease, leaseSeq>>
  BY DEF Admit, NoReply, storeVars, TypeInv, TypeOK
<1>2. /\ leaseSeq \in Nat
      /\ \A v \in Workers : \A j \in Job : grant[v][j] \in Nat
      /\ \A v \in Workers : \A r \in runs[v] :
           /\ r \in Run /\ r.job \in Job
           /\ r.id \in Nat \ {0} /\ r.lease \in Nat \ {0}
      /\ \A c \in calls : c.lease \in Nat \ {0}
  BY DEF StoreTypeOK, TypeInv, TypeOK, Run, Call
<1>3. ASSUME NEW r \in runs[w]
      PROVE  LET a == Adopt(w, r) IN
             /\ a.id = r.id /\ a.job = r.job /\ a.phase = r.phase
             /\ \/ a.lease = r.lease
                \/ a.lease = grant[w][r.job] /\ grant[w][r.job] # NoLease
  BY <1>2 DEF Adopt, Adopts, Run
<1>4. ASSUME NEW j \in Started(w)
      PROVE  /\ j \in Job /\ grant[w][j] # NoLease /\ holds[w][j] = NoRun
             /\ Begun(w, j).id = grant[w][j] /\ Begun(w, j).job = j
             /\ Begun(w, j).lease = grant[w][j]
             /\ j \in Undefined(w) => Begun(w, j).phase = "settling"
  BY DEF Started, Begun, Undefined
<1>5. ASSUME NEW r \in runs[w] PROVE r.job \notin Started(w)
  BY <1>2, <1>4, <1>5 DEF HoldsNameTheirRun, NoRun
<1>6. ASSUME NEW r1 \in runs[w], NEW r2 \in runs[w], r1.job = r2.job
      PROVE  r1 = r2
  BY <1>6 DEF HoldsNameTheirRun, OneRunPerId
(* Where the runs of w come from, and what their tokens are. *)
<1>7. ASSUME NEW x \in runs'[w]
      PROVE  \/ \E r \in runs[w] : x = Adopt(w, r)
             \/ \E j \in Started(w) : x = Begun(w, j)
  BY <1>1
<1>8. TokensWereIssued'
  <2>1. \A x \in runs'[w] : x.id <= leaseSeq /\ x.lease <= leaseSeq
    BY <1>2, <1>3, <1>4, <1>7 DEF TokensWereIssued
  <2>2. \A c \in calls' : c.lease <= leaseSeq
    BY <1>1, <1>4 DEF TokensWereIssued, CallOf, Undefined
  <2>3. \A j \in Job : grant'[w][j] <= leaseSeq
    BY <1>1, <1>2 DEF NoGrant, NoLease
  <2> QED
    BY <1>1, <2>1, <2>2, <2>3 DEF TokensWereIssued
<1>9. OneGrantPerToken'
  BY <1>1 DEF OneGrantPerToken, NoGrant
<1>10. GrantsAreUnused'
  <2> SUFFICES ASSUME NEW v \in Workers \ {w}, NEW j \in Job, grant[v][j] # NoLease
               PROVE  /\ \A u \in Workers : \A x \in runs'[u] :
                           grant[v][j] # x.id /\ grant[v][j] # x.lease
                      /\ \A c \in calls' : grant[v][j] # c.lease
    BY <1>1 DEF GrantsAreUnused, NoGrant
  <2>1. \A i \in Job : grant[w][i] # grant[v][j]
    BY DEF OneGrantPerToken
  <2>2. \A x \in runs'[w] : grant[v][j] # x.id /\ grant[v][j] # x.lease
    BY <1>2, <1>3, <1>4, <1>7, <2>1 DEF GrantsAreUnused
  <2>3. \A c \in calls' : grant[v][j] # c.lease
    BY <1>1, <1>4, <2>1 DEF GrantsAreUnused, CallOf, Undefined
  <2> QED
    BY <1>1, <2>2, <2>3 DEF GrantsAreUnused
(* A token of w's reply is in no run outside w, and a run of w that has one
   is the run of the job it was granted for. *)
<1>11. ASSUME NEW x \in runs'[w], NEW v \in Workers \ {w}, NEW y \in runs'[v]
       PROVE  x.id # y.id /\ x.lease # y.lease
  <2>1. y \in runs[v]
    BY <1>1
  <2>2. \A j \in Job : grant[w][j] # NoLease => grant[w][j] # y.id /\ grant[w][j] # y.lease
    BY <2>1 DEF GrantsAreUnused
  <2>3. \A r \in runs[w] : r.id # y.id /\ r.lease # y.lease
    BY <2>1 DEF OneRunPerId, OneRunPerToken
  <2> QED
    BY <1>2, <1>3, <1>4, <1>7, <2>2, <2>3
<1>12. ASSUME NEW x \in runs'[w], NEW y \in runs'[w],
              x.id = y.id \/ x.lease = y.lease
       PROVE  x = y
  <2>1. CASE \E r1, r2 \in runs[w] : x = Adopt(w, r1) /\ y = Adopt(w, r2)
    <3> PICK r1 \in runs[w], r2 \in runs[w] : x = Adopt(w, r1) /\ y = Adopt(w, r2)
      BY <2>1
    <3>1. CASE x.id = y.id
      BY <1>3, <3>1 DEF OneRunPerId
    <3>2. CASE x.lease = y.lease
      <4>1. CASE x.lease = r1.lease /\ y.lease = r2.lease
        BY <3>2, <4>1 DEF OneRunPerToken
      <4>2. CASE x.lease = r1.lease /\ y.lease = grant[w][r2.job] /\ grant[w][r2.job] # NoLease
        BY <1>2, <3>2, <4>2 DEF GrantsAreUnused
      <4>3. CASE y.lease = r2.lease /\ x.lease = grant[w][r1.job] /\ grant[w][r1.job] # NoLease
        BY <1>2, <3>2, <4>3 DEF GrantsAreUnused
      <4>4. CASE /\ x.lease = grant[w][r1.job] /\ grant[w][r1.job] # NoLease
                 /\ y.lease = grant[w][r2.job] /\ grant[w][r2.job] # NoLease
        <5>1. r1.job = r2.job
          BY <1>2, <3>2, <4>4 DEF OneGrantPerToken
        <5> QED
          BY <1>6, <5>1
      <4> QED
        BY <1>3, <4>1, <4>2, <4>3, <4>4
    <3> QED
      BY <1>12, <3>1, <3>2
  <2>2. ASSUME NEW r \in runs[w], NEW j \in Started(w)
        PROVE  /\ Adopt(w, r).id # Begun(w, j).id
               /\ Adopt(w, r).lease # Begun(w, j).lease
    <3>1. grant[w][j] # r.id /\ grant[w][j] # r.lease
      BY <1>4 DEF GrantsAreUnused
    <3>2. r.job # j
      BY <1>5
    <3>3. grant[w][r.job] # grant[w][j]
      BY <1>2, <1>4, <3>2 DEF OneGrantPerToken
    <3> QED
      BY <1>3, <1>4, <3>1, <3>3
  <2>3. CASE \E j1, j2 \in Started(w) : x = Begun(w, j1) /\ y = Begun(w, j2)
    <3> PICK j1 \in Started(w), j2 \in Started(w) : x = Begun(w, j1) /\ y = Begun(w, j2)
      BY <2>3
    <3>1. grant[w][j1] = grant[w][j2]
      BY <1>4, <1>12
    <3> QED
      BY <1>4, <3>1 DEF OneGrantPerToken
  <2> QED
    BY <1>7, <1>12, <2>1, <2>2, <2>3
<1>13. OneRunPerId' /\ OneRunPerToken'
  <2> SUFFICES ASSUME NEW v1 \in Workers, NEW v2 \in Workers,
                      NEW x \in runs'[v1], NEW y \in runs'[v2],
                      x.id = y.id \/ x.lease = y.lease
               PROVE  v1 = v2 /\ x = y
    BY DEF OneRunPerId, OneRunPerToken
  <2>1. CASE v1 = w \/ v2 = w
    BY <1>11, <1>12, <2>1
  <2>2. CASE v1 # w /\ v2 # w
    BY <1>1, <2>2 DEF OneRunPerId, OneRunPerToken
  <2> QED
    BY <2>1, <2>2
<1>14. HoldsNameTheirRun'
  <2>1. ASSUME NEW x \in runs'[w] PROVE holds'[w][x.job] = x.id
    BY <1>1, <1>2, <1>3, <1>4, <1>5, <1>7 DEF HoldsNameTheirRun
  <2> QED
    BY <1>1, <2>1 DEF HoldsNameTheirRun
<1>15. CallsComeFromSettling'
  <2> SUFFICES ASSUME NEW c \in calls', NEW v \in Workers, NEW x \in runs'[v],
                      x.lease = c.lease
               PROVE  x.phase # "handler"
    BY DEF CallsComeFromSettling
  <2>1. CASE c \in calls
    <3>1. \A j \in Job : grant[w][j] # NoLease => grant[w][j] # c.lease
      BY <2>1 DEF GrantsAreUnused
    <3>2. CASE v = w
      BY <1>2, <1>3, <1>4, <1>7, <2>1, <3>1, <3>2 DEF CallsComeFromSettling
    <3>3. CASE v # w
      BY <1>1, <2>1, <3>3 DEF CallsComeFromSettling
    <3> QED
      BY <3>2, <3>3
  <2>2. CASE \E j \in Undefined(w) : c = CallOf(Begun(w, j), "deadLetter", 0)
    <3> PICK j \in Undefined(w) : c = CallOf(Begun(w, j), "deadLetter", 0)
      BY <2>2
    <3>1. j \in Started(w) /\ Begun(w, j) \in runs'[w]
      BY <1>1 DEF Undefined
    <3>2. c.lease = Begun(w, j).lease
      BY DEF CallOf
    <3>3. x = Begun(w, j)
      BY <1>11, <1>12, <3>1, <3>2
    <3> QED
      BY <1>4, <3>1, <3>3
  <2> QED
    BY <1>1, <2>1, <2>2
<1> QED
  BY <1>8, <1>9, <1>10, <1>13, <1>14, <1>15

(* A run that settles sends its token along and stops handling. *)
LEMMA SettleTokens ==
  ASSUME TypeInv, TokenInv, NEW w \in Workers, NEW r \in runs[w],
         r.phase = "handler", NEW op, NEW d, Settle(w, r, op, d)
  PROVE  TokenInv'
<1> USE DEF TokenInv
<1> DEFINE s == [r EXCEPT !.phase = "settling"]
<1>1. /\ runs'[w] = (runs[w] \ {r}) \cup {s}
      /\ \A v \in Workers \ {w} : runs'[v] = runs[v]
      /\ calls' = calls \cup {CallOf(r, op, d)}
      /\ UNCHANGED <<lease, leaseSeq, grant, holds>>
  BY DEF Settle, storeVars, TypeInv, TypeOK
<1>2. /\ s.id = r.id /\ s.job = r.job /\ s.lease = r.lease /\ s.phase = "settling"
  BY DEF TypeInv, TypeOK, Run
<1>3. CallOf(r, op, d).lease = r.lease
  BY DEF CallOf
<1> HIDE DEF s
<1>4. TokensWereIssued'
  BY <1>1, <1>2, <1>3 DEF TokensWereIssued
<1>5. OneGrantPerToken'
  BY <1>1 DEF OneGrantPerToken
<1>6. GrantsAreUnused'
  BY <1>1, <1>2, <1>3 DEF GrantsAreUnused
<1>7. OneRunPerId'
  BY <1>1, <1>2 DEF OneRunPerId
<1>8. OneRunPerToken'
  BY <1>1, <1>2 DEF OneRunPerToken
<1>9. HoldsNameTheirRun'
  BY <1>1, <1>2 DEF HoldsNameTheirRun
<1>10. CallsComeFromSettling'
  <2>1. \A v \in Workers : \A x \in runs'[v] : x.lease = r.lease => x.phase = "settling"
    BY <1>1, <1>2 DEF OneRunPerToken
  <2> QED
    BY <1>1, <1>2, <1>3, <2>1 DEF CallsComeFromSettling
<1> QED
  BY <1>4, <1>5, <1>6, <1>7, <1>8, <1>9, <1>10

(* An answer changes the phase of one run; the store may give up a lease. *)
LEMMA AnswerTokens ==
  ASSUME TypeInv, TokenInv, NEW c \in calls, Answer(c), leaseSeq' = leaseSeq,
         \A j \in Job : lease'[j] = lease[j] \/ lease'[j] = NoLease
  PROVE  TokenInv'
<1> USE DEF TokenInv
<1> DEFINE g(r) == IF r.id = c.run THEN [r EXCEPT !.phase = "answered"] ELSE r
<1>1. /\ \A w \in Workers : runs'[w] = {g(r) : r \in runs[w]}
      /\ calls' \subseteq calls
      /\ UNCHANGED <<grant, holds>>
  BY DEF Answer
<1>2. ASSUME NEW w \in Workers, NEW r \in runs[w]
      PROVE  /\ g(r).id = r.id /\ g(r).job = r.job /\ g(r).lease = r.lease
             /\ g(r).phase = "handler" => r.phase = "handler"
  <2>1. r \in Run
    BY DEF TypeInv, TypeOK
  <2> QED
    BY <2>1 DEF Run
<1> HIDE DEF g
<1>3. ASSUME NEW w \in Workers, NEW x \in runs'[w]
      PROVE  \E r \in runs[w] : x = g(r)
  BY <1>1
<1>4. TokensWereIssued'
  <2>0. NoLease <= leaseSeq
    BY DEF TypeInv, TypeOK, StoreTypeOK, NoLease
  <2>1. \A j \in Job : lease'[j] <= leaseSeq
    BY <2>0 DEF TokensWereIssued
  <2>2. \A w \in Workers : \A x \in runs'[w] : x.id <= leaseSeq /\ x.lease <= leaseSeq
    BY <1>2, <1>3 DEF TokensWereIssued
  <2> QED
    BY <1>1, <2>1, <2>2 DEF TokensWereIssued
<1>5. OneGrantPerToken'
  BY <1>1 DEF OneGrantPerToken
<1>6. GrantsAreUnused'
  BY <1>1, <1>2, <1>3 DEF GrantsAreUnused
<1>7. OneRunPerId'
  BY <1>2, <1>3 DEF OneRunPerId
<1>8. OneRunPerToken'
  BY <1>2, <1>3 DEF OneRunPerToken
<1>9. HoldsNameTheirRun'
  BY <1>1, <1>2, <1>3 DEF HoldsNameTheirRun
<1>10. CallsComeFromSettling'
  BY <1>1, <1>2, <1>3 DEF CallsComeFromSettling
<1> QED
  BY <1>4, <1>5, <1>6, <1>7, <1>8, <1>9, <1>10

(* The store never gives a job another token outside lease(). *)
LEMMA SettlingOnlyReleases ==
  ASSUME TypeInv, NEW c \in calls, SettleServed(c)
  PROVE  /\ leaseSeq' = leaseSeq
         /\ \A j \in Job : lease'[j] = lease[j] \/ lease'[j] = NoLease
BY DEF SettleServed, StoreRemove, StoreRetry, Ignored, storeVars, TypeInv, TypeOK,
       StoreTypeOK

(* No token has been issued when the queues are created. *)
LEMMA InitTokenInv == Init => TokenInv
BY DEF Init, StoreInit, TokenInv, TokensWereIssued, OneGrantPerToken, GrantsAreUnused,
       OneRunPerId, OneRunPerToken, HoldsNameTheirRun, CallsComeFromSettling,
       NoGrant, NoLease

(* The token invariant is inductive. *)
LEMMA NextTokenInv == TypeInv /\ TokenInv /\ [Next]_vars => TokenInv'
<1> SUFFICES ASSUME TypeInv, TokenInv, [Next]_vars PROVE TokenInv'
  OBVIOUS
<1>0. TypeInv'
  BY NextTypeInv
<1>1. ASSUME UNCHANGED tokenVars PROVE TokenInv'
  BY <1>1
  DEF tokenVars, TokenInv, TokensWereIssued, OneGrantPerToken, GrantsAreUnused,
      OneRunPerId, OneRunPerToken, HoldsNameTheirRun, CallsComeFromSettling
<1>2. ASSUME NEW w \in Workers, NEW n \in Names, NEW d \in 0..MaxDelay,
             Enqueue(w, n, d)
      PROVE  TokenInv'
  BY <1>1, <1>2 DEF Enqueue, StoreEnqueue, workerVars, tokenVars
<1>3. ASSUME NEW w \in Workers, Poll(w) \/ Stop(w) \/ Stopped(w) \/ Start(w)
      PROVE  TokenInv'
  BY <1>1, <1>3 DEF Poll, Stop, Stopped, Start, storeVars, tokenVars
<1>4. ASSUME NEW w \in Workers, LeaseServed(w) PROVE TokenInv'
  BY <1>4, LeaseServedTokens
<1>5. ASSUME NEW w \in Workers, LeaseFails(w) \/ Crash(w)
      PROVE  TokenInv'
  <2>1. /\ leaseSeq' = leaseSeq /\ lease' = lease /\ calls' = calls
        /\ \A v \in Workers : grant'[v] = grant[v] \/ grant'[v] = NoGrant
        /\ \A v \in Workers : runs'[v] \subseteq runs[v]
        /\ \A v \in Workers : \A r \in runs'[v] : holds'[v][r.job] = holds[v][r.job]
    BY <1>5 DEF LeaseFails, Crash, NoReply, storeVars, TypeInv, TypeOK
  <2> QED
    BY <1>0, <2>1, ForgettingKeepsTokens
<1>6. ASSUME NEW w \in Workers, Admit(w) PROVE TokenInv'
  BY <1>6, AdmitTokens
<1>7. ASSUME NEW w \in Workers, NEW j \in Job, HandlerEnds(w, j) PROVE TokenInv'
  BY <1>7, SettleTokens
  DEF HandlerEnds, HandlerReturns, HandlerThrowsAndRetries, HandlerThrowsForGood
<1>8. ASSUME NEW w \in Workers, NEW r \in runs[w], Renew(w, r) PROVE TokenInv'
  BY <1>1, <1>8 DEF Renew, StoreRenew, workerVars, tokenVars
<1>9. ASSUME NEW w \in Workers, NEW r \in runs[w], Release(w, r) PROVE TokenInv'
  <2>1. \A v \in Workers : runs'[v] \subseteq runs[v]
    BY <1>9 DEF Release, TypeInv, TypeOK
  <2>2. \A x \in runs'[w] : x.job # r.job
    BY <1>9 DEF Release, TypeInv, TypeOK, TokenInv, HoldsNameTheirRun, OneRunPerId
  <2>3. \A v \in Workers : \A x \in runs'[v] : holds'[v][x.job] = holds[v][x.job]
    <3>1. holds \in [Workers -> [Job -> Nat]] /\ \A v \in Workers :
            \A x \in runs'[v] : x \in runs[v] /\ x.job \in Job
      BY <2>1 DEF TypeInv, TypeOK, Run
    <3>2. \A j \in Job \ {r.job} : holds'[w][j] = holds[w][j]
      BY <1>9, <3>1 DEF Release
    <3>3. \A v \in Workers \ {w} : holds'[v] = holds[v]
      BY <1>9, <3>1 DEF Release
    <3> QED
      BY <2>2, <3>1, <3>2, <3>3
  <2>4. UNCHANGED <<lease, leaseSeq, grant, calls>>
    BY <1>9 DEF Release, storeVars
  <2> QED
    BY <1>0, <2>1, <2>3, <2>4, ForgettingKeepsTokens
<1>10. ASSUME NEW c \in calls, SettleServed(c) PROVE TokenInv'
  BY <1>10, AnswerTokens, SettlingOnlyReleases DEF SettleServed
<1>11. ASSUME NEW c \in calls, SettleFails(c) PROVE TokenInv'
  BY <1>11, AnswerTokens DEF SettleFails, storeVars
<1>12. ASSUME Tick PROVE TokenInv'
  BY <1>1, <1>12 DEF Tick, StoreTick, workerVars, tokenVars
<1>13. CASE UNCHANGED vars
  BY <1>1, <1>13 DEF vars, storeVars, workerVars, tokenVars
<1> QED
  BY <1>2, <1>3, <1>4, <1>5, <1>6, <1>7, <1>8, <1>9, <1>10, <1>11, <1>12, <1>13
  DEF Next, Producing

(* A token names at most one run of one process: no two runs can ever
   settle a job in each other's name. *)
THEOREM Fencing == Spec => []OneRunPerToken
<1>1. Init => TypeInv /\ TokenInv
  BY InitTypeInv, InitTokenInv
<1>2. TypeInv /\ TokenInv /\ [Next]_vars => TypeInv' /\ TokenInv'
  BY NextTypeInv, NextTokenInv
<1>3. TokenInv => OneRunPerToken
  BY DEF TokenInv
<1> QED
  BY <1>1, <1>2, <1>3, PTL DEF Spec

(* One queue never runs the same job twice at once, however its leases
   lapse. *)
THEOREM NeverTwiceOnOneQueue == Spec => []OneRunPerQueue
<1>1. Init => TypeInv /\ TokenInv
  BY InitTypeInv, InitTokenInv
<1>2. TypeInv /\ TokenInv /\ [Next]_vars => TypeInv' /\ TokenInv'
  BY NextTypeInv, NextTokenInv
<1>3. TokenInv => OneRunPerQueue
  BY DEF TokenInv, OneRunPerQueue, HoldsNameTheirRun, OneRunPerId
<1> QED
  BY <1>1, <1>2, <1>3, PTL DEF Spec

(* No step settles or retries a job while a handler is running under the
   job's current lease: a worker whose lease was taken over cannot settle
   the job under the worker that now holds it. *)
THEOREM NotSettledUnderItsRunner == Spec => NeverSettledUnderRunner
<1> DEFINE NoRunner(j) == ~\E w \in Workers : \E r \in runs[w] :
             r.job = j /\ r.phase = "handler" /\ r.lease = lease[j]
<1>1. Init => TypeInv /\ TokenInv
  BY InitTypeInv, InitTokenInv
<1>2. TypeInv /\ TokenInv /\ [Next]_vars => TypeInv' /\ TokenInv'
  BY NextTypeInv, NextTokenInv
<1>3. TypeInv /\ TokenInv /\ [Next]_vars =>
        [\A j \in Job : SettledOrRetried(j) => NoRunner(j)]_vars
  <2> SUFFICES ASSUME TypeInv, TokenInv, Next,
                      NEW j \in Job, SettledOrRetried(j)
               PROVE  NoRunner(j)
    OBVIOUS
  <2>1. ASSUME status'[j] = status[j], attempt'[j] = attempt[j] PROVE FALSE
    BY <2>1 DEF SettledOrRetried
  <2>2. CASE \E c \in calls : SettleServed(c)
    <3> PICK c \in calls : SettleServed(c)
      BY <2>2
    <3>1. c.job = j /\ c.lease = lease[j]
      BY <2>1 DEF SettleServed, StoreRemove, StoreRetry, Ignored, Held, storeVars,
                  TypeInv, TypeOK, StoreTypeOK
    <3> QED
      BY <3>1 DEF TokenInv, CallsComeFromSettling
  <2>3. CASE Producing
    <3> PICK w \in Workers, n \in Names, d \in 0..MaxDelay : Enqueue(w, n, d)
      BY <2>3 DEF Producing
    <3>1. status'[j] = status[j] \/ status'[j] = "queued"
      BY DEF Enqueue, StoreEnqueue, TypeInv, TypeOK, StoreTypeOK
    <3>2. attempt' = attempt
      BY DEF Enqueue, StoreEnqueue
    <3> QED
      BY <3>1, <3>2 DEF SettledOrRetried
  <2>4. CASE \/ Tick
             \/ \E c \in calls : SettleFails(c)
             \/ \E w \in Workers :
                  \/ Poll(w) \/ LeaseServed(w) \/ LeaseFails(w) \/ Admit(w)
                  \/ \E i \in Job : HandlerEnds(w, i)
                  \/ \E r \in runs[w] : Renew(w, r) \/ Release(w, r)
                  \/ Stop(w) \/ Stopped(w) \/ Start(w) \/ Crash(w)
    <3>1. status' = status /\ attempt' = attempt
      BY <2>4
      DEF Tick, StoreTick, SettleFails, Poll, LeaseServed, StoreLease, LeaseFails,
          Admit, HandlerEnds, HandlerReturns, HandlerThrowsAndRetries,
          HandlerThrowsForGood, Settle, Renew, StoreRenew, Release, Stop, Stopped,
          Start, Crash, storeVars
    <3> QED
      BY <2>1, <3>1
  <2> QED
    BY <2>2, <2>3, <2>4 DEF Next
<1> QED
  BY <1>1, <1>2, <1>3, PTL DEF Spec, NeverSettledUnderRunner

-----------------------------------------------------------------------------
(* Renewal *)

(* No job is guarded before the first lease(). *)
LEMMA InitRenewInv == Init => RenewInv
BY DEF Init, StoreInit, RenewInv, HandlersAreCurrent, GuardedStaysHidden, Guarded,
       NoGrant, NoLease

(* While no lease has lapsed under a live process, nobody else is given a
   job that is being handled. *)
LEMMA NextRenewInv ==
  TypeInv /\ TokenInv /\ RenewInv /\ [Next]_vars => RenewInv'
<1> SUFFICES ASSUME TypeInv, TokenInv, RenewInv, [Next]_vars, lapses' = 0
             PROVE  HandlersAreCurrent' /\ GuardedStaysHidden'
  BY DEF RenewInv, HandlersAreCurrent, GuardedStaysHidden
<1>0. TypeInv' /\ TokenInv'
  BY NextTypeInv, NextTokenInv
<1> USE DEF RenewInv
<1>1. ASSUME UNCHANGED <<lease, grant, runs>>, lapses = 0,
             \A j \in Job : hidden[j] > 0 /\ Guarded(j) => hidden'[j] > 0
      PROVE  HandlersAreCurrent' /\ GuardedStaysHidden'
  BY <1>1 DEF HandlersAreCurrent, GuardedStaysHidden, Guarded
<1>2. ASSUME NEW w \in Workers, NEW n \in Names, NEW d \in 0..MaxDelay,
             Enqueue(w, n, d)
      PROVE  RenewInv'
  BY <1>1, <1>2 DEF Enqueue, StoreEnqueue, workerVars, boundVars
<1>3. ASSUME NEW w \in Workers, Poll(w) \/ Stop(w) \/ Stopped(w) \/ Start(w)
      PROVE  RenewInv'
  BY <1>1, <1>3 DEF Poll, Stop, Stopped, Start, storeVars, boundVars
<1>4. ASSUME NEW w \in Workers, LeaseServed(w) PROVE RenewInv'
  <2> DEFINE L == Leased(free[w])
  <2>1. /\ \A j \in L : j \in Job /\ hidden[j] = 0 /\ ~Guarded(j)
        /\ \A j \in Job : grant'[w][j] = IF j \in L THEN lease'[j] ELSE NoLease
        /\ \A v \in Workers \ {w} : grant'[v] = grant[v]
        /\ \A j \in Job \ L : lease'[j] = lease[j] /\ hidden'[j] = hidden[j]
        /\ \A j \in L : hidden'[j] = LeaseMs
        /\ UNCHANGED <<runs, lapses>>
    BY <1>4
    DEF LeaseServed, StoreLease, Leased, Due, Token, GuardedStaysHidden, boundVars,
        TypeInv, TypeOK
  <2> HIDE DEF L
  <2>2. lapses = 0 /\ LeaseMs > 0
    BY <2>1, LeaseMsAssumption
  <2>3. ASSUME NEW j \in L
        PROVE  /\ \A v \in Workers : grant[v][j] = NoLease
               /\ \A v \in Workers : \A r \in runs[v] :
                    ~(r.job = j /\ r.phase = "handler")
    BY <2>1, <2>2 DEF HandlersAreCurrent, Guarded
  <2>4. ASSUME NEW v \in Workers, NEW j \in Job, grant'[v][j] # NoLease
        PROVE  grant'[v][j] = lease'[j]
    BY <2>1, <2>2, <2>3, <2>4 DEF HandlersAreCurrent
  <2>5. ASSUME NEW v \in Workers, NEW r \in runs'[v], r.phase = "handler"
        PROVE  r.lease = lease'[r.job]
    <3>1. r \in runs[v] /\ r.job \in Job
      BY <2>1 DEF TypeInv, TypeOK, Run
    <3> QED
      BY <2>1, <2>2, <2>3, <2>5, <3>1 DEF HandlersAreCurrent
  <2>6. ASSUME NEW j \in Job, Guarded(j)' PROVE hidden'[j] > 0
    <3>1. CASE j \in L
      BY <2>1, <2>2, <3>1
    <3>2. CASE j \notin L
      <4>1. Guarded(j)
        BY <2>1, <2>6, <3>2 DEF Guarded
      <4> QED
        BY <2>1, <2>2, <3>2, <4>1 DEF GuardedStaysHidden
    <3> QED
      BY <3>1, <3>2
  <2> QED
    BY <2>4, <2>5, <2>6 DEF HandlersAreCurrent, GuardedStaysHidden
(* Steps that only forget replies and runs, or move runs out of "handler". *)
<1>5. ASSUME UNCHANGED lapses, UNCHANGED <<lease, hidden>>,
             \A v \in Workers : grant'[v] = grant[v] \/ grant'[v] = NoGrant,
             \A v \in Workers : \A x \in runs'[v] : \E r \in runs[v] :
               /\ x.job = r.job /\ x.lease = r.lease
               /\ x.phase = "handler" => r.phase = "handler"
      PROVE  RenewInv'
  <2>1. \A j \in Job : Guarded(j)' => Guarded(j)
    BY <1>5 DEF Guarded, NoGrant
  <2>2. HandlersAreCurrent'
    BY <1>5 DEF HandlersAreCurrent, NoGrant
  <2> QED
    BY <1>5, <2>1, <2>2 DEF GuardedStaysHidden
<1>6. ASSUME NEW w \in Workers, LeaseFails(w) \/ Crash(w) PROVE RenewInv'
  <2>1. /\ UNCHANGED lapses /\ UNCHANGED <<lease, hidden>>
        /\ \A v \in Workers : grant'[v] = grant[v] \/ grant'[v] = NoGrant
        /\ \A v \in Workers : runs'[v] \subseteq runs[v]
    BY <1>6 DEF LeaseFails, Crash, NoReply, storeVars, TypeInv, TypeOK
  <2> QED
    BY <1>5, <2>1
<1>7. ASSUME NEW w \in Workers, Admit(w) PROVE RenewInv'
  <2>1. /\ lapses = 0 /\ UNCHANGED <<lease, hidden>>
        /\ grant'[w] = NoGrant
        /\ \A v \in Workers \ {w} : grant'[v] = grant[v]
        /\ \A v \in Workers \ {w} : runs'[v] = runs[v]
        /\ runs'[w] = {Adopt(w, r) : r \in runs[w]}
                        \cup {Begun(w, j) : j \in Started(w)}
    BY <1>7 DEF Admit, NoReply, storeVars, boundVars, TypeInv, TypeOK
  <2>2. ASSUME NEW x \in runs'[w]
        PROVE  \/ \E r \in runs[w] : x.job = r.job /\ x.lease = r.lease
                                       /\ x.phase = r.phase
               \/ /\ x.job \in Job /\ grant[w][x.job] # NoLease
                  /\ x.lease = grant[w][x.job]
    <3>1. CASE \E r \in runs[w] : x = Adopt(w, r)
      <4> PICK r \in runs[w] : x = Adopt(w, r)
        BY <3>1
      <4>1. r \in Run /\ r.job \in Job
        BY DEF TypeInv, TypeOK, Run
      <4> QED
        BY <4>1 DEF Adopt, Adopts, Run
    <3>2. CASE \E j \in Started(w) : x = Begun(w, j)
      BY <3>2 DEF Begun, Started
    <3> QED
      BY <2>1, <3>1, <3>2
  <2>3. \A j \in Job : grant[w][j] # NoLease => grant[w][j] = lease[j]
    BY <2>1 DEF HandlersAreCurrent
  <2>4. HandlersAreCurrent'
    BY <2>1, <2>2, <2>3 DEF HandlersAreCurrent, NoGrant
  <2>5. ASSUME NEW j \in Job, Guarded(j)' PROVE Guarded(j)
    BY <2>1, <2>2, <2>3, <2>5 DEF Guarded, NoGrant
  <2> QED
    BY <2>1, <2>4, <2>5 DEF GuardedStaysHidden
<1>8. ASSUME NEW w \in Workers, NEW j \in Job, HandlerEnds(w, j) PROVE RenewInv'
  <2> PICK r \in runs[w], op \in {"complete", "retry", "deadLetter"}, d \in 0..MaxDelay :
        Settle(w, r, op, d)
    BY <1>8, MaxDelayAssumption
    DEF HandlerEnds, HandlerReturns, HandlerThrowsAndRetries, HandlerThrowsForGood
  <2>1. /\ UNCHANGED lapses /\ UNCHANGED <<lease, hidden>> /\ UNCHANGED grant
        /\ \A v \in Workers \ {w} : runs'[v] = runs[v]
        /\ runs'[w] = (runs[w] \ {r}) \cup {[r EXCEPT !.phase = "settling"]}
    BY DEF Settle, storeVars, boundVars, TypeInv, TypeOK
  <2>2. r \in Run
    BY DEF TypeInv, TypeOK
  <2>3. [r EXCEPT !.phase = "settling"].job = r.job
        /\ [r EXCEPT !.phase = "settling"].lease = r.lease
        /\ [r EXCEPT !.phase = "settling"].phase = "settling"
    BY <2>2 DEF Run
  <2>4. \A v \in Workers : \A x \in runs'[v] : \E y \in runs[v] :
          /\ x.job = y.job /\ x.lease = y.lease
          /\ x.phase = "handler" => y.phase = "handler"
    BY <2>1, <2>3
  <2> QED
    BY <1>5, <2>1, <2>4
<1>9. ASSUME NEW w \in Workers, NEW r \in runs[w], Renew(w, r) PROVE RenewInv'
  <2>1. /\ UNCHANGED <<lease, grant, runs>> /\ lapses = 0
        /\ \A j \in Job : hidden'[j] = hidden[j] \/ hidden'[j] > 0
    BY <1>9, LeaseMsAssumption
    DEF Renew, StoreRenew, workerVars, boundVars, TypeInv, TypeOK, StoreTypeOK
  <2> QED
    BY <1>1, <2>1
<1>10. ASSUME NEW w \in Workers, NEW r \in runs[w], Release(w, r) PROVE RenewInv'
  <2>1. /\ UNCHANGED lapses /\ UNCHANGED <<lease, hidden>> /\ UNCHANGED grant
        /\ \A v \in Workers : runs'[v] \subseteq runs[v]
    BY <1>10 DEF Release, storeVars, boundVars, TypeInv, TypeOK
  <2> QED
    BY <1>5, <2>1
<1>11. ASSUME NEW c \in calls, Answer(c)
       PROVE  /\ UNCHANGED grant
              /\ \A v \in Workers : \A x \in runs'[v] : \E r \in runs[v] :
                   /\ x.job = r.job /\ x.lease = r.lease
                   /\ x.phase = "handler" => r.phase = "handler"
  <2> SUFFICES ASSUME NEW v \in Workers, NEW x \in runs'[v]
               PROVE  \E r \in runs[v] :
                        /\ x.job = r.job /\ x.lease = r.lease
                        /\ x.phase = "handler" => r.phase = "handler"
    BY <1>11 DEF Answer
  <2> PICK r \in runs[v] :
        x = IF r.id = c.run THEN [r EXCEPT !.phase = "answered"] ELSE r
    BY <1>11 DEF Answer
  <2>1. r \in Run
    BY DEF TypeInv, TypeOK
  <2> QED
    BY <2>1 DEF Run
<1>12. ASSUME NEW c \in calls, SettleServed(c) PROVE RenewInv'
  <2>1. Answer(c) /\ UNCHANGED lapses /\ lapses = 0
    BY <1>12 DEF SettleServed, boundVars
  <2>2. CASE UNCHANGED storeVars
    BY <1>5, <1>11, <2>1, <2>2 DEF storeVars
  <2>3. CASE \/ StoreRemove(c.job, c.lease, "completed")
             \/ StoreRemove(c.job, c.lease, "dead")
             \/ StoreRetry(c.job, c.lease, c.delay)
    <3>1. /\ c.lease = lease[c.job] /\ c.job \in Job
          /\ lease'[c.job] = NoLease
          /\ \A j \in Job \ {c.job} : lease'[j] = lease[j] /\ hidden'[j] = hidden[j]
      BY <2>3 DEF StoreRemove, StoreRetry, Held, TypeInv, TypeOK, StoreTypeOK, Call
    <3>2. \A v \in Workers : grant[v][c.job] = NoLease
      BY <2>1, <3>1 DEF HandlersAreCurrent, TokenInv, GrantsAreUnused
    <3>3. \A v \in Workers : \A r \in runs[v] :
            r.phase = "handler" => r.job # c.job /\ r.job \in Job
      BY <2>1, <3>1 DEF HandlersAreCurrent, TokenInv, CallsComeFromSettling,
                        TypeInv, TypeOK, Run
    <3>4. HandlersAreCurrent'
      <4>1. \A v \in Workers : \A j \in Job : grant'[v][j] # NoLease =>
              grant'[v][j] = lease'[j]
        BY <1>11, <2>1, <3>1, <3>2 DEF HandlersAreCurrent
      <4>2. ASSUME NEW v \in Workers, NEW x \in runs'[v], x.phase = "handler"
            PROVE  x.lease = lease'[x.job]
        <5> PICK r \in runs[v] : x.job = r.job /\ x.lease = r.lease /\ r.phase = "handler"
          BY <1>11, <2>1, <4>2
        <5> QED
          BY <2>1, <3>1, <3>3 DEF HandlersAreCurrent
      <4> QED
        BY <4>1, <4>2 DEF HandlersAreCurrent
    <3>5. ~Guarded(c.job)'
      <4>1. \A v \in Workers : \A x \in runs'[v] : x.lease # NoLease
        BY <1>0 DEF TypeInv, TypeOK, Run, NoLease
      <4> QED
        BY <3>1, <4>1 DEF Guarded
    <3>6. ASSUME NEW j \in Job, j # c.job, Guarded(j)' PROVE Guarded(j)
      <4>1. lease'[j] = lease[j]
        BY <3>1, <3>6
      <4> QED
        BY <1>11, <2>1, <3>6, <4>1 DEF Guarded
    <3>7. GuardedStaysHidden'
      BY <2>1, <3>1, <3>5, <3>6 DEF GuardedStaysHidden
    <3> QED
      BY <3>4, <3>7
  <2> QED
    BY <1>12, <2>2, <2>3 DEF SettleServed, Ignored
<1>13. ASSUME NEW c \in calls, SettleFails(c) PROVE RenewInv'
  BY <1>5, <1>11, <1>13 DEF SettleFails, storeVars
<1>14. ASSUME Tick PROVE RenewInv'
  <2>1. IsFiniteSet(Lapsing) /\ Cardinality(Lapsing) \in Nat
    BY JobSetFinite DEF Lapsing
  <2>2. lapses = 0 /\ Cardinality(Lapsing) = 0
    BY <1>14, <2>1, BoundsAssumption DEF Tick, TypeInv, TypeOK
  <2>3. Lapsing = {}
    BY <2>1, <2>2, FS_EmptySet
  <2>4. ASSUME NEW j \in Job, hidden[j] > 0, Guarded(j) PROVE hidden'[j] > 0
    <3>1. hidden[j] # 1 /\ hidden[j] \in Nat
      BY <2>3, <2>4 DEF Lapsing, TypeInv, TypeOK, StoreTypeOK
    <3> QED
      BY <1>14, <2>4, <3>1 DEF Tick, StoreTick
  <2>5. UNCHANGED <<lease, grant, runs>>
    BY <1>14 DEF Tick, StoreTick, workerVars
  <2> QED
    BY <1>1, <2>2, <2>4, <2>5
<1>15. CASE UNCHANGED vars
  BY <1>1, <1>15 DEF vars, storeVars, workerVars, boundVars
<1> QED
  BY <1>2, <1>3, <1>4, <1>6, <1>7, <1>8, <1>9, <1>10, <1>12, <1>13, <1>14, <1>15
  DEF Next, Producing

(* While every lease is renewed in time, no two processes run a handler for
   the same job, through any crashes, lost calls and late replies. *)
THEOREM RenewedLeasesExclude == Spec => []ExclusiveWhileRenewed
<1>1. Init => TypeInv /\ TokenInv /\ RenewInv
  BY InitTypeInv, InitTokenInv, InitRenewInv
<1>2. TypeInv /\ TokenInv /\ RenewInv /\ [Next]_vars
        => TypeInv' /\ TokenInv' /\ RenewInv'
  BY NextTypeInv, NextTokenInv, NextRenewInv
<1>3. TypeInv /\ TokenInv /\ RenewInv => ExclusiveWhileRenewed
  BY DEF TokenInv, RenewInv, HandlersAreCurrent, OneRunPerToken, ExclusiveWhileRenewed
<1> QED
  BY <1>1, <1>2, <1>3, PTL DEF Spec

-----------------------------------------------------------------------------
(* Stopping and slots *)

(* A stop() that has resolved leaves no run and no lease() in flight: stop()
   awaits both, and neither begins while the timer is off. *)
THEOREM StoppedQueuesAreIdle == Spec => []StoppedMeansIdle
<1>1. Init => StoppedMeansIdle
  BY DEF Init, StoppedMeansIdle
<1>2. TypeInv /\ StoppedMeansIdle /\ [Next]_vars => StoppedMeansIdle'
  <2> SUFFICES ASSUME TypeInv, StoppedMeansIdle, [Next]_vars,
                      NEW v \in Workers, timer'[v] = "off"
               PROVE  runs'[v] = {} /\ leasing'[v] = "none"
    BY DEF StoppedMeansIdle
  <2> USE DEF StoppedMeansIdle, TypeInv, TypeOK
  <2>1. CASE UNCHANGED <<timer, leasing, runs>>
    BY <2>1
  <2>2. ASSUME NEW w \in Workers, Poll(w) \/ LeaseServed(w) \/ LeaseFails(w) \/ Admit(w)
        PROVE  runs'[v] = {} /\ leasing'[v] = "none"
    BY <2>2 DEF Poll, LeaseServed, LeaseFails, Admit, NoReply
  <2>3. ASSUME NEW w \in Workers, NEW j \in Job, HandlerEnds(w, j)
        PROVE  runs'[v] = {} /\ leasing'[v] = "none"
    BY <2>3
    DEF HandlerEnds, HandlerReturns, HandlerThrowsAndRetries, HandlerThrowsForGood,
        Settle
  <2>4. ASSUME NEW w \in Workers, NEW r \in runs[w], Release(w, r)
        PROVE  runs'[v] = {} /\ leasing'[v] = "none"
    BY <2>4 DEF Release
  <2>5. ASSUME NEW w \in Workers, Stop(w) \/ Stopped(w) \/ Start(w) \/ Crash(w)
        PROVE  runs'[v] = {} /\ leasing'[v] = "none"
    BY <2>5 DEF Stop, Stopped, Start, Crash, NoReply
  <2>6. ASSUME NEW c \in calls, SettleServed(c) \/ SettleFails(c)
        PROVE  runs'[v] = {} /\ leasing'[v] = "none"
    BY <2>6 DEF SettleServed, SettleFails, Answer
  <2>7. ASSUME \/ Producing \/ Tick
               \/ \E w \in Workers : \E r \in runs[w] : Renew(w, r)
               \/ UNCHANGED vars
        PROVE  UNCHANGED <<timer, leasing, runs>>
    BY <2>7 DEF Producing, Enqueue, Tick, Renew, workerVars, vars
  <2> QED
    BY <2>1, <2>2, <2>3, <2>4, <2>5, <2>6, <2>7 DEF Next
<1> QED
  BY <1>1, <1>2, InitTypeInv, NextTypeInv, PTL DEF Spec

(* The slots a queue has asked to fill, and those it fills, are free: runs
   only leave while its lease() is in flight. *)
SlotsFit ==
  \A w \in Workers :
    /\ Cardinality(runs[w]) <= Concurrency
    /\ leasing[w] # "none" => Cardinality(runs[w]) + free[w] <= Concurrency
    /\ leasing[w] = "replied" =>
         Cardinality({j \in Job : grant[w][j] # NoLease}) <= free[w]

(* The image of a finite set has no more members than the set. *)
LEMMA ImageIsNoLarger ==
  ASSUME NEW S, IsFiniteSet(S), NEW T, NEW f \in [S -> T],
         \A t \in T : \E s \in S : f[s] = t
  PROVE  IsFiniteSet(T) /\ Cardinality(T) <= Cardinality(S)
<1>1. f \in Surjection(S, T)
  BY DEF Surjection
<1> QED
  BY <1>1, FS_Surjection

(* lease() hands out as many jobs as it was asked for, at most. *)
LEMMA LeasedWithinLimit ==
  ASSUME StoreTypeOK, NEW limit \in Nat
  PROVE  Cardinality(Leased(limit)) <= limit
<1>1. Due \in SUBSET Job /\ Leased(limit) \in SUBSET Due
  BY DEF Due, Leased
<1> DEFINE f == [j \in Leased(limit) |-> UpTo(Due, j)]
<1>2. f \in Injection(Leased(limit), 1..limit)
  <2>1. \A j \in Leased(limit) : UpTo(Due, j) \in 1..limit
    BY <1>1, RankOfMember DEF Leased
  <2>2. \A i, j \in Leased(limit) : UpTo(Due, i) = UpTo(Due, j) => i = j
    BY <1>1, RankOfMember
  <2> QED
    BY <2>1, <2>2 DEF Injection, IsInjective
<1>3. IsFiniteSet(1..limit) /\ Cardinality(1..limit) = limit
  BY FS_Interval
<1> HIDE DEF f
<1> QED
  BY <1>2, <1>3, FS_Injection

(* Every step keeps the runs of a queue, and the runs its lease() may bring,
   within its slots. *)
LEMMA NextSlotsFit == TypeInv /\ SlotsFit /\ [Next]_vars => SlotsFit'
<1> SUFFICES ASSUME TypeInv, SlotsFit, [Next]_vars PROVE SlotsFit'
  OBVIOUS
<1>0. TypeInv'
  BY NextTypeInv
<1> DEFINE Given(w) == {j \in Job : grant[w][j] # NoLease}
<1>1. /\ \A w \in Workers : IsFiniteSet(runs[w]) /\ Cardinality(runs[w]) \in Nat
      /\ \A w \in Workers : IsFiniteSet(runs'[w]) /\ Cardinality(runs'[w]) \in Nat
      /\ \A w \in Workers : Cardinality(Given(w)) \in Nat
      /\ free \in [Workers -> Nat] /\ Concurrency \in Nat
  BY <1>0, FS_CardinalityType, JobSetFinite, ConcurrencyAssumption
  DEF TypeInv, FiniteRuns, TypeOK
(* Steps that bring no run and no reply. *)
<1>2. ASSUME \A w \in Workers :
               /\ Cardinality(runs'[w]) <= Cardinality(runs[w])
               /\ \/ leasing'[w] = "none"
                  \/ UNCHANGED <<leasing[w], free[w], grant[w]>>
      PROVE  SlotsFit'
  <2> SUFFICES ASSUME NEW w \in Workers
               PROVE  /\ Cardinality(runs'[w]) <= Concurrency
                      /\ leasing'[w] # "none" =>
                           Cardinality(runs'[w]) + free'[w] <= Concurrency
                      /\ leasing'[w] = "replied" => Cardinality(Given(w)') <= free'[w]
    BY DEF SlotsFit
  <2>1. Cardinality(runs'[w]) <= Cardinality(runs[w])
    BY <1>2
  <2>0. /\ Cardinality(runs[w]) \in Nat /\ Cardinality(runs'[w]) \in Nat
        /\ Concurrency \in Nat /\ Cardinality(runs[w]) <= Concurrency
    BY <1>1 DEF SlotsFit
  <2>4. Cardinality(runs'[w]) <= Concurrency
    BY ONLY <2>0, <2>1
  <2>2. CASE leasing'[w] = "none"
    BY <2>2, <2>4
  <2>3. CASE UNCHANGED <<leasing[w], free[w], grant[w]>>
    <3>1. Given(w)' = Given(w)
      BY <2>3
    <3> QED
      BY <1>1, <2>1, <2>3, <2>4, <3>1 DEF SlotsFit
  <2> QED
    BY <1>2, <2>2, <2>3
<1>3. ASSUME NEW w \in Workers, Poll(w) PROVE SlotsFit'
  <2>1. /\ runs' = runs /\ grant' = grant
        /\ \A v \in Workers \ {w} : leasing'[v] = leasing[v] /\ free'[v] = free[v]
        /\ leasing'[w] = "called" /\ free'[w] = Concurrency - Cardinality(runs[w])
    BY <1>3 DEF Poll, TypeInv, TypeOK
  <2> QED
    BY <1>1, <2>1 DEF SlotsFit
<1>4. ASSUME NEW w \in Workers, LeaseServed(w) PROVE SlotsFit'
  <2>1. /\ runs' = runs /\ free' = free /\ leasing[w] # "none"
        /\ \A v \in Workers \ {w} : leasing'[v] = leasing[v] /\ grant'[v] = grant[v]
        /\ \A j \in Job : grant'[w][j] = Token(free[w], j)
    BY <1>4 DEF LeaseServed, TypeInv, TypeOK
  <2>2. Given(w)' = Leased(free[w])
    <3>1. \A j \in Leased(free[w]) : Token(free[w], j) # NoLease /\ j \in Job
      BY <1>1, TokensAreNew DEF TypeInv, TypeOK, StoreTypeOK, NoLease
    <3>2. \A j \in Job \ Leased(free[w]) : Token(free[w], j) = NoLease
      BY DEF Token
    <3> QED
      BY <2>1, <3>1, <3>2
  <2>3. Cardinality(Given(w)') <= free'[w]
    BY <1>1, <2>1, <2>2, LeasedWithinLimit DEF TypeInv, TypeOK
  <2> QED
    BY <1>1, <2>1, <2>3 DEF SlotsFit
<1>5. ASSUME NEW w \in Workers, LeaseFails(w) \/ Crash(w) PROVE SlotsFit'
  <2>1. \A v \in Workers \ {w} : UNCHANGED <<leasing[v], free[v], grant[v], runs[v]>>
    BY <1>5 DEF LeaseFails, Crash, NoReply, TypeInv, TypeOK
  <2>2. leasing'[w] = "none" /\ (runs'[w] = runs[w] \/ runs'[w] = {})
    BY <1>5 DEF LeaseFails, Crash, NoReply, TypeInv, TypeOK
  <2>3. Cardinality(runs'[w]) <= Cardinality(runs[w])
    BY <1>1, <2>2, FS_EmptySet
  <2> QED
    BY <1>1, <1>2, <2>1, <2>2, <2>3
<1>6. ASSUME NEW w \in Workers, Admit(w) PROVE SlotsFit'
  <2> DEFINE A == {Adopt(w, r) : r \in runs[w]}
             B == {Begun(w, j) : j \in Started(w)}
             a == [r \in runs[w] |-> Adopt(w, r)]
             b == [j \in Started(w) |-> Begun(w, j)]
  <2>1. /\ \A v \in Workers \ {w} : UNCHANGED <<leasing[v], free[v], grant[v], runs[v]>>
        /\ leasing[w] = "replied" /\ leasing'[w] = "none" /\ runs'[w] = A \cup B
    BY <1>6 DEF Admit, NoReply, TypeInv, TypeOK
  <2>2. a \in [runs[w] -> A] /\ \A x \in A : \E r \in runs[w] : a[r] = x
    OBVIOUS
  <2>3. b \in [Started(w) -> B] /\ \A x \in B : \E j \in Started(w) : b[j] = x
    OBVIOUS
  <2>4. Started(w) \subseteq Given(w) /\ IsFiniteSet(Given(w))
    BY JobSetFinite DEF Started
  <2>5. /\ IsFiniteSet(Started(w))
        /\ Cardinality(Started(w)) <= Cardinality(Given(w))
        /\ Cardinality(Started(w)) \in Nat
    BY <2>4, FS_Subset, FS_CardinalityType
  <2> HIDE DEF A, B, a, b
  <2>6. /\ IsFiniteSet(A) /\ Cardinality(A) <= Cardinality(runs[w])
        /\ IsFiniteSet(B) /\ Cardinality(B) <= Cardinality(Started(w))
    BY <1>1, <2>2, <2>3, <2>5, ImageIsNoLarger
  <2>7. Cardinality(A \cup B) <= Cardinality(A) + Cardinality(B)
    <3>1. IsFiniteSet(A \cap B)
      BY <2>6, FS_Subset
    <3>2. /\ Cardinality(A) \in Nat /\ Cardinality(B) \in Nat
          /\ Cardinality(A \cap B) \in Nat
      BY <2>6, <3>1, FS_CardinalityType
    <3>3. Cardinality(A \cup B) =
            Cardinality(A) + Cardinality(B) - Cardinality(A \cap B)
      BY <2>6, FS_Union
    <3> QED
      BY <3>2, <3>3
  <2>8. Cardinality(runs'[w]) <= Concurrency
    <3>1. Cardinality(runs[w]) + free[w] <= Concurrency
          /\ Cardinality(Given(w)) <= free[w]
          /\ free[w] \in Nat
      BY <1>1, <2>1 DEF SlotsFit
    <3>2. Cardinality(A) \in Nat /\ Cardinality(B) \in Nat
      BY <2>6, FS_CardinalityType
    <3>3. Cardinality(A \cup B) <= Cardinality(runs[w]) + Cardinality(Given(w))
      <4> DEFINE ca == Cardinality(A) cb == Cardinality(B) cr == Cardinality(runs[w])
                 cs == Cardinality(Started(w)) cg == Cardinality(Given(w))
                 cu == Cardinality(A \cup B)
      <4>1. /\ ca \in Nat /\ cb \in Nat /\ cr \in Nat /\ cs \in Nat /\ cg \in Nat
            /\ ca <= cr /\ cb <= cs /\ cs <= cg /\ cu <= ca + cb /\ cu \in Nat
        BY <1>0, <1>1, <2>1, <2>5, <2>6, <2>7, <3>2
      <4> HIDE DEF ca, cb, cr, cs, cg, cu
      <4>2. cu <= cr + cg
        BY <4>1
      <4> QED
        BY <4>2 DEF cu, cr, cg
    <3>4. Cardinality(A \cup B) \in Nat
      BY <1>1, <2>1
    <3> QED
      BY <1>1, <2>1, <3>1, <3>3, <3>4
  <2> QED
    BY <1>1, <2>1, <2>8 DEF SlotsFit
<1>7. ASSUME NEW w \in Workers, NEW j \in Job, HandlerEnds(w, j) PROVE SlotsFit'
  <2> PICK r \in runs[w] : \E op, d : Settle(w, r, op, d)
    BY <1>7
    DEF HandlerEnds, HandlerReturns, HandlerThrowsAndRetries, HandlerThrowsForGood
  <2> PICK op, d : Settle(w, r, op, d)
    OBVIOUS
  <2>1. /\ \A v \in Workers \ {w} : runs'[v] = runs[v]
        /\ runs'[w] = (runs[w] \ {r}) \cup {[r EXCEPT !.phase = "settling"]}
        /\ UNCHANGED <<leasing, free, grant>>
    BY DEF Settle, TypeInv, TypeOK
  <2>2. Cardinality(runs[w] \ {r}) = Cardinality(runs[w]) - 1
        /\ IsFiniteSet(runs[w] \ {r})
    BY <1>1, FS_RemoveElement
  <2>3. Cardinality(runs'[w]) <= Cardinality(runs[w]) - 1 + 1
    <3> DEFINE S == runs[w] \ {r}
               s == [r EXCEPT !.phase = "settling"]
    <3>1. Cardinality(S \cup {s}) = IF s \in S THEN Cardinality(S) ELSE Cardinality(S) + 1
      <4> HIDE DEF S, s
      <4> QED
        BY <2>2, FS_AddElement DEF S
    <3> QED
      BY <1>1, <2>1, <2>2, <3>1
  <2>4. \A v \in Workers : Cardinality(runs'[v]) <= Cardinality(runs[v])
    <3>1. Cardinality(runs[w]) \in Nat /\ Cardinality(runs'[w]) \in Nat
      BY <1>1
    <3>2. Cardinality(runs'[w]) <= Cardinality(runs[w])
      BY ONLY <2>3, <3>1
    <3>3. \A n \in Nat : n <= n
      OBVIOUS
    <3> QED
      BY ONLY <1>1, <2>1, <3>2, <3>3
  <2> QED
    BY <1>2, <2>1, <2>4
<1>8. ASSUME NEW w \in Workers, NEW r \in runs[w], Release(w, r) PROVE SlotsFit'
  <2>1. /\ \A v \in Workers : runs'[v] \subseteq runs[v]
        /\ UNCHANGED <<leasing, free, grant>>
    BY <1>8 DEF Release, TypeInv, TypeOK
  <2>2. \A v \in Workers : Cardinality(runs'[v]) <= Cardinality(runs[v])
    BY <1>1, <2>1, FS_Subset
  <2> QED
    BY <1>2, <2>1, <2>2
<1>9. ASSUME NEW c \in calls, SettleServed(c) \/ SettleFails(c) PROVE SlotsFit'
  <2>1. UNCHANGED <<leasing, free, grant>> /\ Answer(c)
    BY <1>9 DEF SettleServed, SettleFails, Answer
  <2>2. ASSUME NEW v \in Workers
        PROVE  Cardinality(runs'[v]) <= Cardinality(runs[v])
    <3> DEFINE g == [r \in runs[v] |->
                       IF r.id = c.run THEN [r EXCEPT !.phase = "answered"] ELSE r]
    <3>1. g \in [runs[v] -> runs'[v]] /\ \A x \in runs'[v] : \E r \in runs[v] : g[r] = x
      BY <2>1 DEF Answer
    <3> HIDE DEF g
    <3> QED
      BY <1>1, <3>1, ImageIsNoLarger
  <2> QED
    BY <1>2, <2>1, <2>2
<1>10. ASSUME \/ Producing \/ Tick \/ UNCHANGED vars
              \/ \E w \in Workers :
                   \/ Stop(w) \/ Stopped(w) \/ Start(w)
                   \/ \E r \in runs[w] : Renew(w, r)
       PROVE  SlotsFit'
  <2>1. UNCHANGED <<runs, leasing, free, grant>>
    BY <1>10
    DEF Producing, Enqueue, Tick, Stop, Stopped, Start, Renew, workerVars, vars
  <2> QED
    BY <2>1 DEF SlotsFit
<1> QED
  BY <1>3, <1>4, <1>5, <1>6, <1>7, <1>8, <1>9, <1>10 DEF Next

(* No process ever has more runs than `concurrency`, however many lease()
   replies, lapses and adoptions cross. *)
THEOREM NeverMoreThanItsSlots == Spec => []WithinConcurrency
<1>1. Init => SlotsFit
  BY FS_EmptySet, ConcurrencyAssumption DEF Init, SlotsFit
<1>2. SlotsFit => WithinConcurrency
  BY DEF SlotsFit, WithinConcurrency
<1> QED
  BY <1>1, <1>2, InitTypeInv, NextTypeInv, NextSlotsFit, PTL DEF Spec
-----------------------------------------------------------------------------
(* Attempts *)

(* While no lease has lapsed under a live process, every copy of a job's
   attempt count - in a reply, in a run, behind a retry() on its way - is the
   one the store has. *)
UnusedIdsAreBlank ==
  \A j \in Job : j > seq =>
    attempt[j] = 0 /\ lease[j] = NoLease /\ status[j] # "queued"

CopiesAreCurrent ==
  /\ \A w \in Workers : \A j \in Job :
       grant[w][j] # NoLease => prior[w][j] = attempt[j]
  /\ \A w \in Workers : \A r \in runs[w] :
       r.phase = "handler" => r.attempt = attempt[r.job]

RetriesHaveAttempts ==
  \A c \in calls : c.op = "retry" /\ c.lease = lease[c.job] =>
    attempt[c.job] + 1 < MaxAttempts[jobName[c.job]]

AttemptInv ==
  /\ UnusedIdsAreBlank
  /\ lapses = 0 => CopiesAreCurrent /\ RetriesHaveAttempts
  /\ AttemptLeftWhileRenewed

(* No attempt is counted before the first job is enqueued. *)
LEMMA InitAttemptInv == Init => AttemptInv
BY DEF Init, StoreInit, AttemptInv, UnusedIdsAreBlank, CopiesAreCurrent,
       RetriesHaveAttempts, AttemptLeftWhileRenewed, NoGrant, NoLease

(* A step that changes neither a job's record nor what was copied from it,
   except to forget replies, runs and calls. *)
LEMMA ForgettingKeepsAttempts ==
  ASSUME TypeInv, AttemptInv,
         UNCHANGED <<seq, status, jobName, attempt, lease>>,
         lapses' = 0 => lapses = 0,
         \A w \in Workers : \A j \in Job :
           grant'[w][j] # NoLease =>
             grant[w][j] # NoLease /\ prior'[w][j] = prior[w][j],
         \A w \in Workers : \A x \in runs'[w] : x.phase = "handler" =>
           \E r \in runs[w] : r.phase = "handler" /\ r.job = x.job
                                /\ r.attempt = x.attempt,
         calls' \subseteq calls
  PROVE  AttemptInv'
<1>1. UnusedIdsAreBlank' /\ AttemptLeftWhileRenewed'
  BY DEF AttemptInv, UnusedIdsAreBlank, AttemptLeftWhileRenewed
<1>2. ASSUME lapses' = 0 PROVE CopiesAreCurrent' /\ RetriesHaveAttempts'
  BY <1>2 DEF AttemptInv, CopiesAreCurrent, RetriesHaveAttempts
<1> QED
  BY <1>1, <1>2 DEF AttemptInv

(* Every step keeps the copies of the attempt count current. *)
LEMMA NextAttemptInv ==
  TypeInv /\ TokenInv /\ RenewInv /\ AttemptInv /\ [Next]_vars => AttemptInv'
<1> SUFFICES ASSUME TypeInv, TokenInv, RenewInv, AttemptInv, [Next]_vars
             PROVE  AttemptInv'
  OBVIOUS
<1>0. TypeInv'
  BY NextTypeInv
<1>1. ASSUME UNCHANGED <<seq, status, jobName, attempt, lease, grant, prior, runs,
                         calls>>,
             lapses' = 0 => lapses = 0
      PROVE  AttemptInv'
  BY <1>1, ForgettingKeepsAttempts
<1>2. ASSUME NEW w \in Workers, NEW n \in Names, NEW d \in 0..MaxDelay,
             Enqueue(w, n, d)
      PROVE  AttemptInv'
  <2> DEFINE k == seq + 1
  <2>1. /\ k \in Job /\ k > seq /\ seq' = k /\ seq \in Nat
        /\ UNCHANGED <<attempt, lease, grant, prior, runs, calls, lapses>>
        /\ \A j \in Job \ {k} : status'[j] = status[j] /\ jobName'[j] = jobName[j]
        /\ \A j \in Job : jobName'[j] \in Names
    <3>1. k \in Job /\ k > seq /\ seq' = k /\ seq \in Nat
      BY <1>2, MaxJobsAssumption DEF Enqueue, StoreEnqueue, TypeInv, TypeOK, StoreTypeOK, Job
    <3>2. UNCHANGED <<attempt, lease, grant, prior, runs, calls, lapses>>
      BY <1>2 DEF Enqueue, StoreEnqueue, workerVars, boundVars
    <3>3. \A j \in Job \ {k} : status'[j] = status[j] /\ jobName'[j] = jobName[j]
      BY <1>2 DEF Enqueue, StoreEnqueue, TypeInv, TypeOK, StoreTypeOK
    <3>4. \A j \in Job : jobName'[j] \in Names
      BY <1>0 DEF TypeInv, TypeOK, StoreTypeOK
    <3> QED
      BY <3>1, <3>2, <3>3, <3>4
  <2>2. attempt[k] = 0 /\ lease[k] = NoLease
    BY <2>1 DEF AttemptInv, UnusedIdsAreBlank
  <2>3. UnusedIdsAreBlank'
    <3> SUFFICES ASSUME NEW j \in Job, j > k
                 PROVE  attempt[j] = 0 /\ lease[j] = NoLease /\ status'[j] # "queued"
      BY <2>1 DEF UnusedIdsAreBlank
    <3>1. j \in Nat /\ j > seq /\ j # k
      BY <2>1 DEF Job
    <3> QED
      BY <2>1, <3>1 DEF AttemptInv, UnusedIdsAreBlank
  <2>4. AttemptLeftWhileRenewed'
    <3> SUFFICES ASSUME lapses = 0, NEW j \in Job, status'[j] = "queued"
                 PROVE  attempt[j] < MaxAttempts[jobName'[j]]
      BY <2>1 DEF AttemptLeftWhileRenewed
    <3>1. CASE j = k
      BY <2>1, <2>2, <3>1, MaxAttemptsAssumption
    <3>2. CASE j # k
      BY <2>1, <3>2 DEF AttemptInv, AttemptLeftWhileRenewed
    <3> QED
      BY <3>1, <3>2
  <2>5. ASSUME lapses = 0 PROVE RetriesHaveAttempts'
    <3> SUFFICES ASSUME NEW c \in calls, c.op = "retry", c.lease = lease[c.job]
                 PROVE  attempt[c.job] + 1 < MaxAttempts[jobName'[c.job]]
      BY <2>1 DEF RetriesHaveAttempts
    <3>1. c.job \in Job /\ c.job # k
      BY <2>2 DEF TypeInv, TypeOK, Call, NoLease
    <3> QED
      BY <2>1, <2>5, <3>1 DEF AttemptInv, RetriesHaveAttempts
  <2>6. ASSUME lapses = 0 PROVE CopiesAreCurrent'
    BY <2>1, <2>6 DEF AttemptInv, CopiesAreCurrent
  <2> QED
    BY <2>1, <2>3, <2>4, <2>5, <2>6 DEF AttemptInv
<1>3. ASSUME NEW w \in Workers, Poll(w) \/ Stop(w) \/ Stopped(w) \/ Start(w)
      PROVE  AttemptInv'
  BY <1>1, <1>3 DEF Poll, Stop, Stopped, Start, storeVars, boundVars
<1>4. ASSUME NEW w \in Workers, LeaseServed(w) PROVE AttemptInv'
  <2> DEFINE L == Leased(free[w])
  <2>1. /\ UNCHANGED <<seq, status, jobName, attempt, runs, calls, lapses>>
        /\ \A v \in Workers \ {w} : grant'[v] = grant[v] /\ prior'[v] = prior[v]
        /\ \A j \in Job : /\ j \in L => lease'[j] > leaseSeq /\ prior'[w][j] = attempt[j]
                          /\ j \notin L => lease'[j] = lease[j] /\ grant'[w][j] = NoLease
        /\ \A j \in L : j \in Job /\ status[j] = "queued"
    <3>1. \A j \in L : Token(free[w], j) > leaseSeq
      BY TokensAreNew DEF TypeInv, TypeOK
    <3> QED
      BY <1>4, <3>1 DEF LeaseServed, StoreLease, Leased, Due, Token, boundVars, TypeInv, TypeOK
  <2>2. UnusedIdsAreBlank'
    BY <2>1 DEF AttemptInv, UnusedIdsAreBlank
  <2>3. AttemptLeftWhileRenewed'
    BY <2>1 DEF AttemptInv, AttemptLeftWhileRenewed
  <2>4. ASSUME lapses = 0 PROVE CopiesAreCurrent'
    BY <2>1, <2>4 DEF AttemptInv, CopiesAreCurrent
  <2>5. ASSUME lapses = 0 PROVE RetriesHaveAttempts'
    <3> SUFFICES ASSUME NEW c \in calls, c.op = "retry", c.lease = lease'[c.job]
                 PROVE  attempt[c.job] + 1 < MaxAttempts[jobName[c.job]]
      BY <2>1 DEF RetriesHaveAttempts
    <3>1. c.job \in Job /\ c.lease \in Nat /\ leaseSeq \in Nat /\ c.lease <= leaseSeq
      BY DEF TypeInv, TypeOK, StoreTypeOK, Call, TokenInv, TokensWereIssued
    <3>2. c.job \notin L
      BY <2>1, <3>1
    <3> QED
      BY <2>1, <2>5, <3>1, <3>2 DEF AttemptInv, RetriesHaveAttempts
  <2> QED
    BY <2>1, <2>2, <2>3, <2>4, <2>5 DEF AttemptInv
<1>5. ASSUME NEW w \in Workers, LeaseFails(w) \/ Crash(w) PROVE AttemptInv'
  <2>1. /\ UNCHANGED <<storeVars, calls, lapses>>
        /\ NoReply(w)
        /\ \A v \in Workers : runs'[v] \subseteq runs[v]
    BY <1>5 DEF LeaseFails, Crash, TypeInv, TypeOK
  <2>2. /\ \A v \in Workers \ {w} : grant'[v] = grant[v] /\ prior'[v] = prior[v]
        /\ \A j \in Job : grant'[w][j] = NoLease
    BY <2>1 DEF NoReply, NoGrant, TypeInv, TypeOK
  <2> QED
    BY <2>1, <2>2, ForgettingKeepsAttempts DEF storeVars
<1>6. ASSUME NEW w \in Workers, Admit(w) PROVE AttemptInv'
  <2>1. /\ UNCHANGED <<storeVars, lapses>>
        /\ \A v \in Workers \ {w} :
             grant'[v] = grant[v] /\ prior'[v] = prior[v] /\ runs'[v] = runs[v]
        /\ \A j \in Job : grant'[w][j] = NoLease
        /\ runs'[w] = {Adopt(w, r) : r \in runs[w]} \cup {Begun(w, j) : j \in Started(w)}
        /\ calls' = calls \cup {CallOf(Begun(w, j), "deadLetter", 0) : j \in Undefined(w)}
    BY <1>6 DEF Admit, NoReply, NoGrant, boundVars, TypeInv, TypeOK
  <2>2. UnusedIdsAreBlank' /\ AttemptLeftWhileRenewed'
    BY <2>1 DEF storeVars, AttemptInv, UnusedIdsAreBlank, AttemptLeftWhileRenewed
  <2>3. ASSUME lapses = 0 PROVE CopiesAreCurrent'
    <3>1. ASSUME NEW v \in Workers, NEW j \in Job, grant'[v][j] # NoLease
          PROVE  prior'[v][j] = attempt'[j]
      BY <2>1, <2>3, <3>1 DEF storeVars, AttemptInv, CopiesAreCurrent
    <3>2. ASSUME NEW x \in runs'[w], x.phase = "handler"
          PROVE  x.attempt = attempt'[x.job]
      <4>1. CASE \E r \in runs[w] : x = Adopt(w, r)
        <5> PICK r \in runs[w] : x = Adopt(w, r)
          BY <4>1
        <5>1. r \in Run
          BY DEF TypeInv, TypeOK
        <5>2. x.job = r.job /\ x.attempt = r.attempt /\ x.phase = r.phase
          BY <5>1 DEF Adopt, Run
        <5> QED
          BY <2>1, <2>3, <3>2, <5>2 DEF storeVars, AttemptInv, CopiesAreCurrent
      <4>2. CASE \E j \in Started(w) : x = Begun(w, j)
        <5> PICK j \in Started(w) : x = Begun(w, j)
          BY <4>2
        <5> QED
          BY <2>1, <2>3 DEF storeVars, AttemptInv, CopiesAreCurrent, Started, Begun
      <4> QED
        BY <2>1, <4>1, <4>2
    <3>3. ASSUME NEW v \in Workers \ {w}, NEW x \in runs'[v], x.phase = "handler"
          PROVE  x.attempt = attempt'[x.job]
      BY <2>1, <2>3, <3>3 DEF storeVars, AttemptInv, CopiesAreCurrent
    <3> QED
      BY <3>1, <3>2, <3>3 DEF CopiesAreCurrent
  <2>4. ASSUME lapses = 0 PROVE RetriesHaveAttempts'
    <3>1. \A c \in calls' : c.op = "retry" => c \in calls
      BY <2>1 DEF CallOf
    <3> QED
      BY <2>1, <2>4, <3>1 DEF storeVars, AttemptInv, RetriesHaveAttempts
  <2> QED
    BY <2>1, <2>2, <2>3, <2>4 DEF AttemptInv
<1>7. ASSUME NEW w \in Workers, NEW j \in Job, HandlerEnds(w, j) PROVE AttemptInv'
  <2> PICK r \in runs[w] : \/ HandlerReturns(w, r)
                           \/ \E d \in 0..MaxDelay : HandlerThrowsAndRetries(w, r, d)
                           \/ HandlerThrowsForGood(w, r)
    BY <1>7 DEF HandlerEnds
  <2> PICK op, d : /\ Settle(w, r, op, d) /\ r.phase = "handler"
                   /\ op = "retry" => ~LastAttempt(r)
    BY DEF HandlerReturns, HandlerThrowsAndRetries, HandlerThrowsForGood
  <2>1. /\ UNCHANGED <<storeVars, lapses, grant, prior>>
        /\ calls' = calls \cup {CallOf(r, op, d)}
        /\ \A v \in Workers : \A x \in runs'[v] :
             x.phase = "handler" => x \in runs[v]
    <3>1. r \in Run
      BY DEF TypeInv, TypeOK
    <3>2. [r EXCEPT !.phase = "settling"].phase = "settling"
      BY <3>1 DEF Run
    <3> QED
      BY <3>2 DEF Settle, boundVars, TypeInv, TypeOK
  <2>2. UnusedIdsAreBlank' /\ AttemptLeftWhileRenewed'
    BY <2>1 DEF storeVars, AttemptInv, UnusedIdsAreBlank, AttemptLeftWhileRenewed
  <2>3. ASSUME lapses = 0 PROVE CopiesAreCurrent'
    BY <2>1, <2>3 DEF storeVars, AttemptInv, CopiesAreCurrent
  <2>4. ASSUME lapses = 0 PROVE RetriesHaveAttempts'
    <3> SUFFICES ASSUME NEW c \in calls', c.op = "retry", c.lease = lease[c.job]
                 PROVE  attempt[c.job] + 1 < MaxAttempts[jobName[c.job]]
      BY <2>1 DEF storeVars, RetriesHaveAttempts
    <3>1. CASE c \in calls
      BY <2>4, <3>1 DEF AttemptInv, RetriesHaveAttempts
    <3>2. CASE c = CallOf(r, op, d)
      <4>1. r.job \in Job /\ r.attempt = attempt[r.job] /\ attempt[r.job] \in Nat
        BY <2>4 DEF AttemptInv, CopiesAreCurrent, TypeInv, TypeOK, StoreTypeOK, Run
      <4>2. MaxAttempts[jobName[r.job]] \in Nat
        BY <4>1, MaxAttemptsAssumption DEF TypeInv, TypeOK, StoreTypeOK
      <4> QED
        BY <3>2, <4>1, <4>2 DEF CallOf, LastAttempt
    <3> QED
      BY <2>1, <3>1, <3>2
  <2> QED
    BY <2>1, <2>2, <2>3, <2>4 DEF AttemptInv
<1>8. ASSUME NEW w \in Workers, NEW r \in runs[w], Renew(w, r) PROVE AttemptInv'
  BY <1>1, <1>8 DEF Renew, StoreRenew, workerVars, boundVars
<1>9. ASSUME NEW w \in Workers, NEW r \in runs[w], Release(w, r) PROVE AttemptInv'
  <2>1. /\ \A v \in Workers : runs'[v] \subseteq runs[v]
        /\ UNCHANGED <<storeVars, lapses, grant, prior, calls>>
    BY <1>9 DEF Release, boundVars, TypeInv, TypeOK
  <2> QED
    BY <2>1, ForgettingKeepsAttempts DEF storeVars
<1>10. ASSUME NEW c \in calls, Answer(c)
       PROVE  /\ calls' \subseteq calls /\ UNCHANGED <<grant, prior>>
              /\ \A v \in Workers : \A x \in runs'[v] : x.phase = "handler" =>
                   \E r \in runs[v] : r = x
  <2>1. \A v \in Workers : \A r \in runs[v] : r \in Run
    BY DEF TypeInv, TypeOK
  <2>2. \A v \in Workers : \A r \in runs[v] :
          [r EXCEPT !.phase = "answered"].phase = "answered"
    BY <2>1 DEF Run
  <2> QED
    BY <1>10, <2>2 DEF Answer
<1>11. ASSUME NEW c \in calls, SettleFails(c) PROVE AttemptInv'
  <2>1. Answer(c) /\ UNCHANGED <<storeVars, lapses>>
    BY <1>11 DEF SettleFails
  <2> QED
    BY <1>10, <2>1, ForgettingKeepsAttempts DEF storeVars
<1>12. ASSUME NEW c \in calls, SettleServed(c) PROVE AttemptInv'
  <2>1. Answer(c) /\ UNCHANGED lapses /\ c \in Call
    BY <1>12 DEF SettleServed, boundVars, TypeInv, TypeOK
  <2>2. CASE UNCHANGED storeVars
    BY <1>10, <2>1, <2>2, ForgettingKeepsAttempts DEF storeVars
  <2>3. CASE StoreRemove(c.job, c.lease, "completed") \/ StoreRemove(c.job, c.lease, "dead")
    <3>1. /\ UNCHANGED <<seq, jobName, attempt>> /\ c.job \in Job
          /\ \A j \in Job : \/ status'[j] = status[j] /\ lease'[j] = lease[j]
                            \/ status'[j] # "queued" /\ lease'[j] = NoLease
      BY <2>1, <2>3 DEF StoreRemove, Call, TypeInv, TypeOK, StoreTypeOK
    <3>2. UnusedIdsAreBlank' /\ AttemptLeftWhileRenewed'
      BY <2>1, <3>1 DEF AttemptInv, UnusedIdsAreBlank, AttemptLeftWhileRenewed
    <3>3. ASSUME lapses = 0 PROVE CopiesAreCurrent'
      BY <1>10, <2>1, <3>1, <3>3 DEF AttemptInv, CopiesAreCurrent
    <3>4. ASSUME lapses = 0 PROVE RetriesHaveAttempts'
      <4> SUFFICES ASSUME NEW k \in calls, k.op = "retry", k.lease = lease'[k.job]
                   PROVE  attempt[k.job] + 1 < MaxAttempts[jobName[k.job]]
        BY <1>10, <2>1, <3>1 DEF RetriesHaveAttempts
      <4>1. k.job \in Job /\ k.lease # NoLease
        BY DEF TypeInv, TypeOK, Call, NoLease
      <4> QED
        BY <3>1, <3>4, <4>1 DEF AttemptInv, RetriesHaveAttempts
    <3> QED
      BY <2>1, <3>2, <3>3, <3>4 DEF AttemptInv
  <2>4. CASE c.op = "retry" /\ StoreRetry(c.job, c.lease, c.delay)
    <3>1. /\ UNCHANGED <<seq, status, jobName>> /\ c.job \in Job
          /\ status[c.job] = "queued" /\ lease[c.job] = c.lease /\ c.lease # NoLease
          /\ \A j \in Job \ {c.job} : attempt'[j] = attempt[j] /\ lease'[j] = lease[j]
          /\ attempt'[c.job] = attempt[c.job] + 1 /\ lease'[c.job] = NoLease
      BY <2>1, <2>4 DEF StoreRetry, Held, Call, TypeInv, TypeOK, StoreTypeOK, NoLease
    <3>2. UnusedIdsAreBlank'
      BY <3>1 DEF AttemptInv, UnusedIdsAreBlank
    <3>3. AttemptLeftWhileRenewed'
      BY <2>1, <2>4, <3>1 DEF AttemptInv, RetriesHaveAttempts, AttemptLeftWhileRenewed
    <3>4. ASSUME lapses = 0 PROVE CopiesAreCurrent'
      <4>1. ASSUME NEW w \in Workers, NEW j \in Job, grant[w][j] # NoLease
            PROVE  j # c.job
        BY <3>1, <3>4, <4>1
        DEF RenewInv, HandlersAreCurrent, TokenInv, GrantsAreUnused
      <4>2. ASSUME NEW w \in Workers, NEW r \in runs[w], r.phase = "handler"
            PROVE  r.job \in Job \ {c.job}
        BY <3>1, <3>4, <4>2
        DEF RenewInv, HandlersAreCurrent, TokenInv, CallsComeFromSettling,
            TypeInv, TypeOK, Run
      <4> QED
        BY <1>10, <2>1, <3>1, <3>4, <4>1, <4>2 DEF AttemptInv, CopiesAreCurrent
    <3>5. ASSUME lapses = 0 PROVE RetriesHaveAttempts'
      <4> SUFFICES ASSUME NEW k \in calls, k.op = "retry", k.lease = lease'[k.job]
                   PROVE  attempt'[k.job] + 1 < MaxAttempts[jobName[k.job]]
        BY <1>10, <2>1, <3>1 DEF RetriesHaveAttempts
      <4>1. k.job \in Job \ {c.job}
        BY <3>1 DEF TypeInv, TypeOK, Call, NoLease
      <4> QED
        BY <3>1, <3>5, <4>1 DEF AttemptInv, RetriesHaveAttempts
    <3> QED
      BY <2>1, <3>2, <3>3, <3>4, <3>5 DEF AttemptInv
  <2> QED
    BY <1>12, <2>2, <2>3, <2>4 DEF SettleServed, Ignored
<1>13. ASSUME Tick PROVE AttemptInv'
  <2>1. lapses' = 0 => lapses = 0
    <3>1. Lapsing \in SUBSET Job
      BY DEF Lapsing
    <3>2. Cardinality(Lapsing) \in Nat
      BY <3>1, JobSetFinite
    <3> QED
      BY <1>13, <3>2 DEF Tick, TypeInv, TypeOK
  <2> QED
    BY <1>1, <1>13, <2>1 DEF Tick, StoreTick, workerVars
<1>14. CASE UNCHANGED vars
  BY <1>1, <1>14 DEF vars, storeVars, workerVars, boundVars
<1> QED
  BY <1>2, <1>3, <1>4, <1>5, <1>6, <1>7, <1>8, <1>9, <1>11, <1>12, <1>13, <1>14
  DEF Next, Producing

(* While every lease is renewed in time, a job that is still queued has an
   attempt left: no crash, lost answer or late retry() ever counts the same
   failure twice. *)
THEOREM QueuedJobsHaveAttempts == Spec => []AttemptLeftWhileRenewed
<1>1. Init => TypeInv /\ TokenInv /\ RenewInv /\ AttemptInv
  BY InitTypeInv, InitTokenInv, InitRenewInv, InitAttemptInv
<1>2. TypeInv /\ TokenInv /\ RenewInv /\ AttemptInv /\ [Next]_vars
        => TypeInv' /\ TokenInv' /\ RenewInv' /\ AttemptInv'
  BY NextTypeInv, NextTokenInv, NextRenewInv, NextAttemptInv
<1>3. AttemptInv => AttemptLeftWhileRenewed
  BY DEF AttemptInv
<1> QED
  BY <1>1, <1>2, <1>3, PTL DEF Spec

-----------------------------------------------------------------------------
(* The promise to the enqueuer *)

(* Every settle call on its way has its reason in what the handlers of the
   job did, and every copy of an attempt count is one of failures that have
   been seen.  Leases may lapse: a stale retry() is fenced by its token, and
   the current one has not been counted yet. *)
Justified(c) ==
  /\ c.op = "complete" => c.job \in returned
  /\ c.op = "deadLetter" =>
       c.job \in unusable \/ thrown[c.job] >= MaxAttempts[jobName[c.job]]
  /\ c.op = "retry" /\ c.lease = lease[c.job] => attempt[c.job] < thrown[c.job]

UnusedIdsAreUnknown == \A j \in Job : j > seq => status[j] = "unknown"

OnlyKnownJobsRun ==
  /\ \A w \in Workers : \A j \in Job :
       grant[w][j] # NoLease => status[j] # "unknown"
  /\ \A w \in Workers : \A r \in runs[w] : status[r.job] # "unknown"
  /\ \A c \in calls : status[c.job] # "unknown"

AttemptsWereThrown ==
  /\ \A j \in Job : attempt[j] <= thrown[j]
  /\ \A w \in Workers : \A j \in Job : prior[w][j] <= thrown[j]
  /\ \A w \in Workers : \A r \in runs[w] : r.attempt <= thrown[r.job]

PromiseInv ==
  /\ UnusedIdsAreUnknown
  /\ OnlyKnownJobsRun
  /\ AttemptsWereThrown
  /\ \A c \in calls : Justified(c)

(* Nothing is promised of jobs before there are any. *)
LEMMA InitPromiseInv == Init => PromiseInv
BY DEF Init, StoreInit, PromiseInv, UnusedIdsAreUnknown, OnlyKnownJobsRun,
       AttemptsWereThrown, NoGrant, NoLease

(* A step after which every reply, run and call is an old one or has a reason
   of its own.  What handlers did is never taken back. *)
LEMMA ReasonsRemain ==
  ASSUME TypeInv, TypeInv', PromiseInv,
         UNCHANGED <<seq, jobName>>,
         \A j \in Job : status'[j] = "unknown" <=> status[j] = "unknown",
         returned \subseteq returned', unusable \subseteq unusable',
         \A j \in Job : thrown[j] <= thrown'[j],
         \A j \in Job : attempt'[j] <= thrown'[j],
         \A w \in Workers : \A j \in Job :
           /\ grant'[w][j] # NoLease => status[j] # "unknown"
           /\ prior'[w][j] <= thrown[j],
         \A w \in Workers : \A x \in runs'[w] :
           status[x.job] # "unknown" /\ x.attempt <= thrown[x.job],
         \A c \in calls' : status[c.job] # "unknown",
         \A c \in calls' : c \in calls \/ Justified(c)',
         \A c \in calls : c.op = "retry" /\ c.lease = lease'[c.job] =>
           c.lease = lease[c.job] /\ attempt'[c.job] = attempt[c.job]
  PROVE  PromiseInv'
<1>1. \A j \in Job : /\ thrown[j] \in Nat /\ thrown'[j] \in Nat
                     /\ attempt[j] \in Nat /\ attempt'[j] \in Nat
                     /\ MaxAttempts[jobName[j]] \in Nat
  BY MaxAttemptsAssumption DEF TypeInv, TypeOK, StoreTypeOK
<1>2. UnusedIdsAreUnknown'
  BY DEF PromiseInv, UnusedIdsAreUnknown
<1>3. \A w \in Workers : \A x \in runs'[w] : x.job \in Job /\ x.attempt \in Nat
  BY DEF TypeInv, TypeOK, Run
<1>4. \A c \in calls' : c.job \in Job
  BY DEF TypeInv, TypeOK, Call
<1>5. OnlyKnownJobsRun'
  BY <1>3, <1>4 DEF OnlyKnownJobsRun
<1>6. AttemptsWereThrown'
  <2>1. \A w \in Workers : \A j \in Job : prior'[w][j] \in Nat
    BY DEF TypeInv, TypeOK
  <2> QED
    BY <1>1, <1>3, <2>1 DEF AttemptsWereThrown
<1>7. ASSUME NEW c \in calls', c \in calls PROVE Justified(c)'
  <2>1. Justified(c) /\ c.job \in Job
    BY <1>4, <1>7 DEF PromiseInv
  <2> QED
    BY <1>1, <1>7, <2>1 DEF Justified
<1> QED
  BY <1>2, <1>5, <1>6, <1>7 DEF PromiseInv

(* A step that leaves jobs and handlers alone, and keeps or forgets replies,
   runs and calls. *)
LEMMA ForgettingKeepsReasons ==
  ASSUME TypeInv, TypeInv', PromiseInv,
         UNCHANGED <<seq, status, jobName, attempt, lease, historyVars>>,
         \A w \in Workers : \A j \in Job :
           /\ grant'[w][j] # NoLease => grant[w][j] # NoLease
           /\ prior'[w][j] = prior[w][j] \/ prior'[w][j] = 0,
         \A w \in Workers : \A x \in runs'[w] :
           \E r \in runs[w] : r.job = x.job /\ r.attempt = x.attempt,
         calls' \subseteq calls
  PROVE  PromiseInv'
<1>1. \A j \in Job : thrown[j] \in Nat
  BY DEF TypeInv, TypeOK
<1>2. UNCHANGED <<returned, thrown, unusable>>
  BY DEF historyVars
<1>3. \A w \in Workers : \A j \in Job : prior'[w][j] <= thrown[j]
  BY <1>1 DEF PromiseInv, AttemptsWereThrown
<1>4. \A w \in Workers : \A x \in runs'[w] :
        status[x.job] # "unknown" /\ x.attempt <= thrown[x.job]
  BY DEF PromiseInv, OnlyKnownJobsRun, AttemptsWereThrown
<1>5. \A j \in Job : thrown[j] <= thrown'[j] /\ attempt'[j] <= thrown'[j]
  BY <1>1, <1>2 DEF PromiseInv, AttemptsWereThrown
<1>6. \A c \in calls' : c \in calls /\ status[c.job] # "unknown"
  BY DEF PromiseInv, OnlyKnownJobsRun
<1>7. \A w \in Workers : \A j \in Job :
        grant'[w][j] # NoLease => status[j] # "unknown"
  BY DEF PromiseInv, OnlyKnownJobsRun
<1> QED
  BY <1>2, <1>3, <1>4, <1>5, <1>6, <1>7, ReasonsRemain

(* A handler that ends leaves a call with its reason. *)
LEMMA HandlersGiveReasons ==
  ASSUME TypeInv, TypeInv', PromiseInv,
         NEW w \in Workers, NEW r \in runs[w], NEW op, NEW d,
         Settle(w, r, op, d),
         returned \subseteq returned', unusable \subseteq unusable',
         op = "complete" => r.job \in returned',
         op = "complete" => thrown' = thrown,
         op # "complete" => thrown' = [thrown EXCEPT ![r.job] = @ + 1],
         op = "deadLetter" => r.job \in unusable' \/ LastAttempt(r)
  PROVE  PromiseInv'
<1>1. /\ r \in Run /\ r.job \in Job
      /\ \A j \in Job : thrown[j] \in Nat /\ attempt[j] \in Nat
      /\ MaxAttempts[jobName[r.job]] \in Nat
  BY MaxAttemptsAssumption DEF TypeInv, TypeOK, StoreTypeOK, Run
<1>2. UNCHANGED <<seq, jobName, status, attempt, lease, grant, prior>>
  BY DEF Settle, storeVars
<1>3. \A j \in Job : thrown[j] <= thrown'[j] /\ attempt'[j] <= thrown'[j]
  <2>1. \A j \in Job : thrown'[j] \in {thrown[j], thrown[j] + 1}
    BY <1>1 DEF TypeInv, TypeOK
  <2>2. \A j \in Job : attempt'[j] <= thrown[j]
    BY <1>2 DEF PromiseInv, AttemptsWereThrown
  <2> QED
    BY <1>1, <1>2, <2>1, <2>2
<1>4. ASSUME NEW v \in Workers, NEW x \in runs'[v]
      PROVE  status[x.job] # "unknown" /\ x.attempt <= thrown[x.job]
  <2>1. CASE x \in runs[v]
    BY <2>1 DEF PromiseInv, OnlyKnownJobsRun, AttemptsWereThrown
  <2>2. CASE x = [r EXCEPT !.phase = "settling"]
    <3>1. x.job = r.job /\ x.attempt = r.attempt
      BY <1>1, <2>2 DEF Run
    <3> QED
      BY <3>1 DEF PromiseInv, OnlyKnownJobsRun, AttemptsWereThrown
  <2> QED
    BY <2>1, <2>2 DEF Settle, TypeInv, TypeOK
<1>5. Justified(CallOf(r, op, d))'
  <2>1. r.attempt \in Nat /\ r.attempt <= thrown[r.job] /\ attempt[r.job] <= thrown[r.job]
    BY <1>1 DEF PromiseInv, AttemptsWereThrown, Run
  <2>2. op # "complete" => thrown'[r.job] = thrown[r.job] + 1
    BY <1>1 DEF TypeInv, TypeOK
  <2>3. op = "complete" => Justified(CallOf(r, op, d))'
    BY <1>1 DEF Justified, CallOf
  <2>4. op = "deadLetter" =>
          r.job \in unusable' \/ thrown'[r.job] >= MaxAttempts[jobName'[r.job]]
    BY <1>1, <1>2, <2>1, <2>2 DEF LastAttempt
  <2>5. op = "retry" => attempt'[r.job] < thrown'[r.job]
    BY <1>1, <1>2, <2>1, <2>2
  <2> QED
    BY <2>3, <2>4, <2>5 DEF Justified, CallOf
<1>6. \A c \in calls' : c \in calls \/ c = CallOf(r, op, d)
  BY DEF Settle
<1>7. \A c \in calls' : status[c.job] # "unknown"
  BY <1>6 DEF CallOf, PromiseInv, OnlyKnownJobsRun
<1>8. \A v \in Workers : \A j \in Job :
        /\ grant'[v][j] # NoLease => status[j] # "unknown"
        /\ prior'[v][j] <= thrown[j]
  BY <1>2 DEF PromiseInv, OnlyKnownJobsRun, AttemptsWereThrown
<1>9. \A c \in calls' : c \in calls \/ Justified(c)'
  BY <1>5, <1>6
<1> QED
  BY <1>2, <1>3, <1>4, <1>7, <1>8, <1>9, ReasonsRemain

(* Every step keeps every call's reason. *)
LEMMA NextPromiseInv ==
  TypeInv /\ TokenInv /\ PromiseInv /\ [Next]_vars => PromiseInv'
<1> SUFFICES ASSUME TypeInv, TokenInv, PromiseInv, [Next]_vars PROVE PromiseInv'
  OBVIOUS
<1>0. TypeInv'
  BY NextTypeInv
<1>1. ASSUME UNCHANGED <<seq, status, jobName, attempt, lease, historyVars, grant,
                         prior, runs, calls>>
      PROVE  PromiseInv'
  BY <1>0, <1>1, ForgettingKeepsReasons
<1>2. ASSUME NEW w \in Workers, NEW n \in Names, NEW d \in 0..MaxDelay,
             Enqueue(w, n, d)
      PROVE  PromiseInv'
  <2> DEFINE k == seq + 1
  <2>1. k \in Job /\ k > seq /\ seq' = k /\ seq \in Nat
    BY <1>2, MaxJobsAssumption DEF Enqueue, StoreEnqueue, TypeInv, TypeOK, StoreTypeOK, Job
  <2>2. UNCHANGED <<attempt, lease, grant, prior, runs, calls, returned, thrown, unusable>>
    BY <1>2 DEF Enqueue, StoreEnqueue, workerVars, historyVars
  <2>3. \A j \in Job \ {k} : status'[j] = status[j] /\ jobName'[j] = jobName[j]
    BY <1>2 DEF Enqueue, StoreEnqueue, TypeInv, TypeOK, StoreTypeOK
  <2>4. status[k] = "unknown"
    BY <2>1 DEF PromiseInv, UnusedIdsAreUnknown
  <2>5. UnusedIdsAreUnknown'
    <3>1. \A j \in Job : j > k => j > seq /\ j # k
      BY <2>1 DEF Job
    <3> QED
      BY <2>1, <2>3, <3>1 DEF PromiseInv, UnusedIdsAreUnknown
  <2>6. /\ \A w2 \in Workers : \A r \in runs[w2] : r.job \in Job
        /\ \A c \in calls : c.job \in Job
    BY DEF TypeInv, TypeOK, Run, Call
  <2>7. OnlyKnownJobsRun'
    BY <2>2, <2>3, <2>4, <2>6 DEF PromiseInv, OnlyKnownJobsRun
  <2>8. AttemptsWereThrown'
    BY <2>2 DEF PromiseInv, AttemptsWereThrown
  <2>9. ASSUME NEW c \in calls PROVE Justified(c)'
    <3>1. c.job \in Job \ {k}
      BY <2>4, <2>6 DEF PromiseInv, OnlyKnownJobsRun
    <3> QED
      BY <2>2, <2>3, <3>1 DEF PromiseInv, Justified
  <2> QED
    BY <2>2, <2>5, <2>7, <2>8, <2>9 DEF PromiseInv
<1>3. ASSUME NEW w \in Workers, Poll(w) \/ Stop(w) \/ Stopped(w) \/ Start(w)
      PROVE  PromiseInv'
  BY <1>1, <1>3 DEF Poll, Stop, Stopped, Start, storeVars
<1>4. ASSUME NEW w \in Workers, LeaseServed(w) PROVE PromiseInv'
  <2> DEFINE L == Leased(free[w])
  <2>1. /\ UNCHANGED <<seq, status, jobName, attempt, runs, calls>>
        /\ UNCHANGED <<returned, thrown, unusable>>
        /\ \A v \in Workers \ {w} : grant'[v] = grant[v] /\ prior'[v] = prior[v]
        /\ \A j \in Job : /\ j \in L => lease'[j] > leaseSeq /\ prior'[w][j] = attempt[j]
                          /\ j \notin L => /\ lease'[j] = lease[j]
                                           /\ grant'[w][j] = NoLease
                                           /\ prior'[w][j] = 0
        /\ \A j \in L : j \in Job /\ status[j] = "queued"
    <3>1. \A j \in L : Token(free[w], j) > leaseSeq
      BY TokensAreNew DEF TypeInv, TypeOK
    <3> QED
      BY <1>4, <3>1
      DEF LeaseServed, StoreLease, Leased, Due, Token, historyVars, TypeInv, TypeOK
  <2>2. \A j \in Job : thrown[j] \in Nat /\ attempt[j] <= thrown[j]
    BY DEF TypeInv, TypeOK, PromiseInv, AttemptsWereThrown
  <2>3. ASSUME NEW v \in Workers, NEW j \in Job
        PROVE  /\ grant'[v][j] # NoLease => status[j] # "unknown"
               /\ prior'[v][j] <= thrown[j]
    <3>1. CASE v = w
      BY <2>1, <2>2, <3>1
    <3>2. CASE v # w
      BY <2>1, <3>2 DEF PromiseInv, OnlyKnownJobsRun, AttemptsWereThrown
    <3> QED
      BY <3>1, <3>2
  <2>4. ASSUME NEW c \in calls, c.lease = lease'[c.job]
        PROVE  c.lease = lease[c.job]
    <3>1. c.job \in Job /\ c.lease \in Nat /\ leaseSeq \in Nat /\ c.lease <= leaseSeq
      BY DEF TypeInv, TypeOK, StoreTypeOK, Call, TokenInv, TokensWereIssued
    <3>2. c.job \notin L
      BY <2>1, <2>4, <3>1
    <3> QED
      BY <2>1, <2>4, <3>1, <3>2
  <2>5. /\ \A v \in Workers : \A x \in runs'[v] :
             status[x.job] # "unknown" /\ x.attempt <= thrown[x.job]
        /\ \A c \in calls' : status[c.job] # "unknown"
    BY <2>1 DEF PromiseInv, OnlyKnownJobsRun, AttemptsWereThrown
  <2>6. \A j \in Job : thrown[j] <= thrown'[j] /\ attempt'[j] <= thrown'[j]
    BY <2>1, <2>2
  <2> QED
    BY <1>0, <2>1, <2>3, <2>4, <2>5, <2>6, ReasonsRemain
<1>5. ASSUME NEW w \in Workers, LeaseFails(w) \/ Crash(w) PROVE PromiseInv'
  <2>1. /\ UNCHANGED <<storeVars, calls, historyVars>>
        /\ NoReply(w)
        /\ \A v \in Workers : runs'[v] \subseteq runs[v]
    BY <1>5 DEF LeaseFails, Crash, TypeInv, TypeOK
  <2>2. \A v \in Workers : \A j \in Job :
          /\ grant'[v][j] # NoLease => grant[v][j] # NoLease
          /\ prior'[v][j] = prior[v][j] \/ prior'[v][j] = 0
    BY <2>1 DEF NoReply, NoGrant, TypeInv, TypeOK
  <2> QED
    BY <1>0, <2>1, <2>2, ForgettingKeepsReasons DEF storeVars
<1>6. ASSUME NEW w \in Workers, Admit(w) PROVE PromiseInv'
  <2>1. /\ UNCHANGED <<seq, status, jobName, attempt, lease, returned, thrown>>
        /\ unusable' = unusable \cup Undefined(w)
        /\ \A v \in Workers \ {w} : runs'[v] = runs[v]
        /\ runs'[w] = {Adopt(w, r) : r \in runs[w]} \cup {Begun(w, j) : j \in Started(w)}
        /\ calls' = calls \cup {CallOf(Begun(w, j), "deadLetter", 0) : j \in Undefined(w)}
    BY <1>6 DEF Admit, storeVars, TypeInv, TypeOK
  <2>2. \A v \in Workers : \A j \in Job :
          /\ grant'[v][j] # NoLease => grant[v][j] # NoLease
          /\ prior'[v][j] = prior[v][j] \/ prior'[v][j] = 0
    BY <1>6 DEF Admit, NoReply, NoGrant, TypeInv, TypeOK
  <2>3. \A j \in Job : thrown[j] \in Nat
    BY DEF TypeInv, TypeOK
  <2>4. \A v \in Workers : \A j \in Job :
          /\ grant'[v][j] # NoLease => status[j] # "unknown"
          /\ prior'[v][j] <= thrown[j]
    BY <2>2, <2>3 DEF PromiseInv, OnlyKnownJobsRun, AttemptsWereThrown
  <2>5. ASSUME NEW x \in runs'[w]
        PROVE  status[x.job] # "unknown" /\ x.attempt <= thrown[x.job]
    <3>1. CASE \E r \in runs[w] : x = Adopt(w, r)
      <4> PICK r \in runs[w] : x = Adopt(w, r)
        BY <3>1
      <4>1. r \in Run
        BY DEF TypeInv, TypeOK
      <4>2. x.job = r.job /\ x.attempt = r.attempt
        BY <4>1 DEF Adopt, Run
      <4> QED
        BY <4>2 DEF PromiseInv, OnlyKnownJobsRun, AttemptsWereThrown
    <3>2. CASE \E j \in Started(w) : x = Begun(w, j)
      <4> PICK j \in Started(w) : x = Begun(w, j)
        BY <3>2
      <4> QED
        BY DEF Started, Begun, PromiseInv, OnlyKnownJobsRun, AttemptsWereThrown
    <3> QED
      BY <2>1, <3>1, <3>2
  <2>6. \A v \in Workers : \A x \in runs'[v] :
          status[x.job] # "unknown" /\ x.attempt <= thrown[x.job]
    BY <2>1, <2>5 DEF PromiseInv, OnlyKnownJobsRun, AttemptsWereThrown
  <2>7. ASSUME NEW c \in calls', c \notin calls
        PROVE  status[c.job] # "unknown" /\ Justified(c)'
    <3> PICK j \in Undefined(w) : c = CallOf(Begun(w, j), "deadLetter", 0)
      BY <2>1, <2>7
    <3>1. c.job = j /\ c.op = "deadLetter" /\ j \in unusable'
      BY <2>1 DEF CallOf, Begun
    <3>2. j \in Job /\ grant[w][j] # NoLease
      BY DEF Undefined, Started
    <3> QED
      BY <3>1, <3>2 DEF Justified, PromiseInv, OnlyKnownJobsRun
  <2>8. \A c \in calls' : status[c.job] # "unknown"
    BY <2>7 DEF PromiseInv, OnlyKnownJobsRun
  <2>9. \A j \in Job : thrown[j] <= thrown'[j] /\ attempt'[j] <= thrown'[j]
    BY <2>1, <2>3 DEF PromiseInv, AttemptsWereThrown
  <2> QED
    BY <1>0, <2>1, <2>4, <2>6, <2>7, <2>8, <2>9, ReasonsRemain
<1>7. ASSUME NEW w \in Workers, NEW j \in Job, HandlerEnds(w, j) PROVE PromiseInv'
  <2> PICK r \in runs[w] : \/ HandlerReturns(w, r)
                           \/ \E d \in 0..MaxDelay : HandlerThrowsAndRetries(w, r, d)
                           \/ HandlerThrowsForGood(w, r)
    BY <1>7 DEF HandlerEnds
  <2>1. CASE HandlerReturns(w, r)
    BY <1>0, <2>1, HandlersGiveReasons DEF HandlerReturns
  <2>2. CASE \E d \in 0..MaxDelay : HandlerThrowsAndRetries(w, r, d)
    BY <1>0, <2>2, HandlersGiveReasons DEF HandlerThrowsAndRetries
  <2>3. CASE HandlerThrowsForGood(w, r)
    BY <1>0, <2>3, HandlersGiveReasons DEF HandlerThrowsForGood
  <2> QED
    BY <2>1, <2>2, <2>3
<1>8. ASSUME NEW w \in Workers, NEW r \in runs[w], Renew(w, r) PROVE PromiseInv'
  BY <1>1, <1>8 DEF Renew, StoreRenew, workerVars
<1>9. ASSUME NEW w \in Workers, NEW r \in runs[w], Release(w, r) PROVE PromiseInv'
  <2>1. /\ \A v \in Workers : runs'[v] \subseteq runs[v]
        /\ UNCHANGED <<storeVars, historyVars, grant, prior, calls>>
    BY <1>9 DEF Release, TypeInv, TypeOK
  <2> QED
    BY <1>0, <2>1, ForgettingKeepsReasons DEF storeVars
<1>10. ASSUME NEW c \in calls, Answer(c)
       PROVE  /\ calls' \subseteq calls /\ UNCHANGED <<grant, prior, historyVars>>
              /\ \A v \in Workers : \A x \in runs'[v] :
                   \E r \in runs[v] : r.job = x.job /\ r.attempt = x.attempt
  <2>1. \A v \in Workers : \A r \in runs[v] :
          /\ [r EXCEPT !.phase = "answered"].job = r.job
          /\ [r EXCEPT !.phase = "answered"].attempt = r.attempt
    BY DEF TypeInv, TypeOK, Run
  <2>2. ASSUME NEW v \in Workers, NEW x \in runs'[v]
        PROVE  \E r \in runs[v] : r.job = x.job /\ r.attempt = x.attempt
    <3> PICK r \in runs[v] :
          x = IF r.id = c.run THEN [r EXCEPT !.phase = "answered"] ELSE r
      BY <1>10 DEF Answer
    <3> QED
      BY <2>1
  <2> QED
    BY <1>10, <2>2 DEF Answer
<1>11. ASSUME NEW c \in calls, SettleFails(c) PROVE PromiseInv'
  <2>1. Answer(c) /\ UNCHANGED storeVars
    BY <1>11 DEF SettleFails
  <2> QED
    BY <1>0, <1>10, <2>1, ForgettingKeepsReasons DEF storeVars
<1>12. ASSUME NEW c \in calls, SettleServed(c) PROVE PromiseInv'
  <2>1. Answer(c) /\ c \in Call /\ c.job \in Job /\ c.lease # NoLease
    BY <1>12 DEF SettleServed, TypeInv, TypeOK, Call, NoLease
  <2>2. /\ \A v \in Workers : \A x \in runs'[v] :
             status[x.job] # "unknown" /\ x.attempt <= thrown[x.job]
        /\ calls' \subseteq calls
        /\ \A k \in calls' : status[k.job] # "unknown"
        /\ UNCHANGED <<grant, prior, returned, thrown, unusable>>
    BY <1>10, <2>1 DEF PromiseInv, OnlyKnownJobsRun, AttemptsWereThrown, historyVars
  <2>3. /\ \A v \in Workers : \A j \in Job :
             /\ grant'[v][j] # NoLease => status[j] # "unknown"
             /\ prior'[v][j] <= thrown[j]
        /\ \A j \in Job : thrown[j] \in Nat /\ attempt[j] <= thrown[j]
    BY <2>2 DEF PromiseInv, OnlyKnownJobsRun, AttemptsWereThrown, TypeInv, TypeOK
  <2>4. CASE UNCHANGED storeVars
    BY <1>0, <1>10, <2>1, <2>4, ForgettingKeepsReasons DEF storeVars
  <2>5. CASE StoreRemove(c.job, c.lease, "completed") \/ StoreRemove(c.job, c.lease, "dead")
    <3>1. /\ UNCHANGED <<seq, jobName, attempt>>
          /\ \A j \in Job : status'[j] = "unknown" <=> status[j] = "unknown"
          /\ \A j \in Job : lease'[j] = lease[j] \/ lease'[j] = NoLease
      BY <2>1, <2>5 DEF StoreRemove, Held, TypeInv, TypeOK, StoreTypeOK
    <3>2. \A k \in calls : k.job \in Job /\ k.lease # NoLease
      BY DEF TypeInv, TypeOK, Call, NoLease
    <3>3. \A j \in Job : thrown[j] <= thrown'[j] /\ attempt'[j] <= thrown'[j]
      BY <2>2, <2>3, <3>1
    <3>4. \A k \in calls : k.lease = lease'[k.job] =>
            k.lease = lease[k.job] /\ attempt'[k.job] = attempt[k.job]
      BY <3>1, <3>2
    <3> QED
      BY <1>0, <2>2, <2>3, <3>1, <3>3, <3>4, ReasonsRemain
  <2>6. CASE c.op = "retry" /\ StoreRetry(c.job, c.lease, c.delay)
    <3>1. /\ UNCHANGED <<seq, status, jobName>>
          /\ lease[c.job] = c.lease
          /\ \A j \in Job \ {c.job} : attempt'[j] = attempt[j] /\ lease'[j] = lease[j]
          /\ attempt'[c.job] = attempt[c.job] + 1 /\ lease'[c.job] = NoLease
      BY <2>1, <2>6 DEF StoreRetry, Held, TypeInv, TypeOK, StoreTypeOK
    <3>2. attempt[c.job] < thrown[c.job] /\ attempt[c.job] \in Nat
      BY <2>1, <2>6, <3>1 DEF PromiseInv, Justified, TypeInv, TypeOK, StoreTypeOK
    <3>3. \A j \in Job : thrown[j] <= thrown'[j] /\ attempt'[j] <= thrown'[j]
      BY <2>1, <2>2, <2>3, <3>1, <3>2
    <3>4. \A k \in calls : k.job \in Job /\ k.lease # NoLease
      BY DEF TypeInv, TypeOK, Call, NoLease
    <3>5. \A k \in calls : k.lease = lease'[k.job] =>
            k.lease = lease[k.job] /\ attempt'[k.job] = attempt[k.job]
      BY <3>1, <3>4
    <3> QED
      BY <1>0, <2>2, <2>3, <3>1, <3>3, <3>5, ReasonsRemain
  <2> QED
    BY <1>12, <2>4, <2>5, <2>6 DEF SettleServed, Ignored
<1>13. ASSUME Tick PROVE PromiseInv'
  BY <1>1, <1>13 DEF Tick, StoreTick, workerVars
<1>14. CASE UNCHANGED vars
  BY <1>1, <1>14 DEF vars, storeVars, workerVars
<1> QED
  BY <1>2, <1>3, <1>4, <1>5, <1>6, <1>7, <1>8, <1>9, <1>11, <1>12, <1>13, <1>14
  DEF Next, Producing

(* A queue that has just been created has promised nothing. *)
LEMMA InitPromise == Init => Promise!Init
<1> SUFFICES ASSUME Init PROVE Promise!Init
  OBVIOUS
<1>1. TypeInv
  BY InitTypeInv
<1>2. jobName \in [Promise!Job -> Names]
  BY <1>1 DEF TypeInv, TypeOK, StoreTypeOK, Job, Promise!Job
<1> QED
  BY <1>2 DEF Init, StoreInit, Promise!Init, Job, Promise!Job

(* Every step of the queue is one the enqueuer was promised, or one he does
   not see. *)
LEMMA NextPromise ==
  TypeInv /\ PromiseInv /\ [Next]_vars => [Promise!Next]_(Promise!vars)
<1> SUFFICES ASSUME TypeInv, PromiseInv, [Next]_vars
             PROVE  Promise!Next \/ UNCHANGED Promise!vars
  OBVIOUS
<1>0. Promise!Job = Job
  BY DEF Job, Promise!Job
<1>1. ASSUME UNCHANGED <<status, jobName, historyVars>>
      PROVE  UNCHANGED Promise!vars
  BY <1>1 DEF Promise!vars, historyVars
<1>2. ASSUME NEW w \in Workers, NEW n \in Names, NEW d \in 0..MaxDelay,
             Enqueue(w, n, d)
      PROVE  Promise!Next
  <2>1. seq + 1 \in Job /\ seq + 1 > seq
    BY <1>2, MaxJobsAssumption DEF Enqueue, StoreEnqueue, TypeInv, TypeOK, StoreTypeOK, Job
  <2>2. status[seq + 1] = "unknown"
    BY <2>1 DEF PromiseInv, UnusedIdsAreUnknown
  <2>3. Promise!Submit(seq + 1, n)
    BY <1>2, <2>2 DEF Enqueue, StoreEnqueue, historyVars, Promise!Submit
  <2> QED
    BY <1>0, <2>1, <2>3 DEF Promise!Next
<1>3. ASSUME NEW w \in Workers,
             \/ Poll(w) \/ LeaseServed(w) \/ LeaseFails(w)
             \/ Stop(w) \/ Stopped(w) \/ Start(w) \/ Crash(w)
      PROVE  UNCHANGED Promise!vars
  BY <1>1, <1>3
  DEF Poll, LeaseServed, StoreLease, LeaseFails, Stop, Stopped, Start, Crash, storeVars
<1>4. ASSUME NEW w \in Workers, Admit(w) PROVE Promise!Next
  <2>1. Undefined(w) \in SUBSET Job /\ \A j \in Undefined(w) : status[j] # "unknown"
    BY DEF Undefined, Started, PromiseInv, OnlyKnownJobsRun
  <2>2. Promise!GiveUp(Undefined(w))
    BY <1>4, <2>1 DEF Admit, storeVars, Promise!GiveUp
  <2> QED
    BY <1>0, <2>1, <2>2 DEF Promise!Next
<1>5. ASSUME NEW w \in Workers, NEW j \in Job, HandlerEnds(w, j) PROVE Promise!Next
  <2> PICK r \in runs[w] : \/ HandlerReturns(w, r)
                           \/ \E d \in 0..MaxDelay : HandlerThrowsAndRetries(w, r, d)
                           \/ HandlerThrowsForGood(w, r)
    BY <1>5 DEF HandlerEnds
  <2>1. r.job \in Job /\ status[r.job] # "unknown"
    BY DEF TypeInv, TypeOK, Run, PromiseInv, OnlyKnownJobsRun
  <2>2. CASE HandlerReturns(w, r)
    <3>1. Promise!Return(r.job)
      BY <2>1, <2>2 DEF HandlerReturns, Settle, storeVars, Promise!Return
    <3> QED
      BY <1>0, <2>1, <3>1 DEF Promise!Next
  <2>3. CASE (\E d \in 0..MaxDelay : HandlerThrowsAndRetries(w, r, d))
               \/ HandlerThrowsForGood(w, r)
    <3>1. Promise!Throw(r.job)
      BY <2>1, <2>3
      DEF HandlerThrowsAndRetries, HandlerThrowsForGood, Settle, storeVars, Promise!Throw
    <3> QED
      BY <1>0, <2>1, <3>1 DEF Promise!Next
  <2> QED
    BY <2>2, <2>3
<1>6. ASSUME NEW w \in Workers, NEW r \in runs[w], Renew(w, r) \/ Release(w, r)
      PROVE  UNCHANGED Promise!vars
  BY <1>1, <1>6 DEF Renew, StoreRenew, Release, storeVars
<1>7. ASSUME NEW c \in calls, SettleFails(c) PROVE UNCHANGED Promise!vars
  BY <1>1, <1>7 DEF SettleFails, Answer, storeVars
<1>8. ASSUME NEW c \in calls, SettleServed(c)
      PROVE  Promise!Next \/ UNCHANGED Promise!vars
  <2>1. c.job \in Job /\ Justified(c) /\ UNCHANGED <<returned, thrown, unusable>>
    BY <1>8 DEF SettleServed, Answer, historyVars, TypeInv, TypeOK, Call, PromiseInv
  <2>2. CASE c.op = "complete" /\ StoreRemove(c.job, c.lease, "completed")
    <3>1. Promise!Complete(c.job)
      BY <2>1, <2>2 DEF StoreRemove, Held, Justified, Promise!Complete
    <3> QED
      BY <1>0, <2>1, <3>1 DEF Promise!Next
  <2>3. CASE c.op = "deadLetter" /\ StoreRemove(c.job, c.lease, "dead")
    <3>1. Promise!DeadLetter(c.job)
      BY <2>1, <2>3 DEF StoreRemove, Held, Justified, Promise!DeadLetter
    <3> QED
      BY <1>0, <2>1, <3>1 DEF Promise!Next
  <2>4. CASE StoreRetry(c.job, c.lease, c.delay) \/ Ignored(c.job, c.lease)
    BY <2>1, <2>4 DEF StoreRetry, Ignored, storeVars, Promise!vars
  <2> QED
    BY <1>8, <2>2, <2>3, <2>4 DEF SettleServed
<1>9. ASSUME Tick PROVE UNCHANGED Promise!vars
  BY <1>1, <1>9 DEF Tick, StoreTick
<1>10. CASE UNCHANGED vars
  BY <1>1, <1>10 DEF vars, storeVars
<1> QED
  BY <1>2, <1>3, <1>4, <1>5, <1>6, <1>7, <1>8, <1>9, <1>10 DEF Next, Producing

(* The queue keeps what it promises whoever enqueues a job, for any number of
   processes and any lapses, crashes and failing calls: a job counts as
   completed only once its handler has returned, it is dead-lettered only
   after maxAttempts failures or when it cannot be run, and it is settled
   once (packages/jobs/src/queue.ts, attemptJob and runOne). *)
THEOREM PromisesAreKept == Spec => Delivers
<1>1. Init => TypeInv /\ TokenInv /\ PromiseInv
  BY InitTypeInv, InitTokenInv, InitPromiseInv
<1>2. TypeInv /\ TokenInv /\ PromiseInv /\ [Next]_vars
        => TypeInv' /\ TokenInv' /\ PromiseInv'
  BY NextTypeInv, NextTokenInv, NextPromiseInv
<1> QED
  BY <1>1, <1>2, InitPromise, NextPromise, PTL DEF Spec, Delivers, Promise!Spec
=============================================================================
