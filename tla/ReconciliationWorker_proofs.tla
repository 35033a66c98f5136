--------------------- MODULE ReconciliationWorker_proofs ---------------------
(***************************************************************************)
(* Proofs about ReconciliationWorker for any processes, records, filter,   *)
(* page size, concurrency, page limits and any amount of trouble.          *)
(***************************************************************************)
EXTENDS ReconciliationWorker, FiniteSetTheorems, WellFoundedInduction, TLAPS

-----------------------------------------------------------------------------
(* Pages *)

LEMMA FindingsFinite == ASSUME NEW S, S \subseteq Findings PROVE IsFiniteSet(S)
<1>1. 1 \in Int /\ Records \in Int
  BY RecordsAssumption
<1>2. IsFiniteSet(1 .. Records)
  BY ONLY <1>1, FS_Interval
<1>3. S \in SUBSET (1 .. Records)
  BY DEF Findings
<1> QED
  BY ONLY <1>2, <1>3, FS_Subset

(* Among the sets Side(m), one of each id, there is a smallest. *)
LEMMA SmallestSide ==
  ASSUME NEW S, S \subseteq Findings, S # {},
         NEW side \in [S -> SUBSET Findings]
  PROVE  \E m \in S : \A n \in S : ~(side[n] \subseteq side[m] /\ side[n] # side[m])
<1> DEFINE Sides == {side[m] : m \in S}
<1> DEFINE Order == StrictSubsetOrdering(Findings)
<1>1. IsWellFoundedOn(Order, FiniteSubsetsOf(Findings))
  BY FS_StrictSubsetOrderingWellFounded
<1>2. Sides \subseteq FiniteSubsetsOf(Findings)
  BY FindingsFinite DEF FiniteSubsetsOf
<1>3. Sides # {}
  OBVIOUS
<1>4. \A a, b \in Sides : a \subseteq b /\ a # b => <<a, b>> \in Order
  BY DEF StrictSubsetOrdering
<1> HIDE DEF Order, Sides
<1>5. PICK least \in Sides : \A a \in Sides : ~ (<<a, least>> \in Order)
  BY <1>1, <1>2, <1>3, WFMin
<1>6. PICK m \in S : side[m] = least
  BY <1>5 DEF Sides
<1>7. \A n \in S : side[n] \in Sides
  BY DEF Sides
<1> QED
  BY <1>4, <1>5, <1>6, <1>7

LEMMA LeastId ==
  ASSUME NEW S, S \subseteq Findings, S # {}
  PROVE  \E m \in S : \A x \in S : m <= x
<1> DEFINE side == [m \in S |-> {x \in S : x < m}]
<1>0. side \in [S -> SUBSET Findings]
  OBVIOUS
<1>1. PICK m \in S : \A n \in S : ~(side[n] \subseteq side[m] /\ side[n] # side[m])
  <2> HIDE DEF side
  <2> QED
    BY <1>0, SmallestSide
<1>2. ASSUME NEW n \in S, n < m PROVE FALSE
  <2>0. m \in Nat /\ S \subseteq Nat
    BY DEF Findings
  <2>1. side[n] = {x \in S : x < n} /\ side[m] = {x \in S : x < m}
    OBVIOUS
  <2> HIDE DEF side
  <2>2. n \in side[m] /\ n \notin side[n]
    BY <1>2, <2>0, <2>1
  <2>3. ASSUME NEW x \in S, x < n PROVE x < m
    BY <1>2, <2>0, <2>3
  <2>4. side[n] \subseteq side[m]
    BY <2>1, <2>3
  <2> QED
    BY <1>1, <2>2, <2>4
<1> QED
  BY <1>2 DEF Findings

LEMMA GreatestId ==
  ASSUME NEW S, S \subseteq Findings, S # {}
  PROVE  Max(S) \in S /\ \A x \in S : x <= Max(S)
<1> DEFINE side == [m \in S |-> {x \in S : x > m}]
<1>0. side \in [S -> SUBSET Findings]
  OBVIOUS
<1>1. PICK m \in S : \A n \in S : ~(side[n] \subseteq side[m] /\ side[n] # side[m])
  <2> HIDE DEF side
  <2> QED
    BY <1>0, SmallestSide
<1>2. ASSUME NEW n \in S, n > m PROVE FALSE
  <2>0. m \in Nat /\ S \subseteq Nat
    BY DEF Findings
  <2>1. side[n] = {x \in S : x > n} /\ side[m] = {x \in S : x > m}
    OBVIOUS
  <2> HIDE DEF side
  <2>2. n \in side[m] /\ n \notin side[n]
    BY <1>2, <2>0, <2>1
  <2>3. ASSUME NEW x \in S, x > n PROVE x > m
    BY <1>2, <2>0, <2>3
  <2>4. side[n] \subseteq side[m]
    BY <2>1, <2>3
  <2> QED
    BY <1>1, <2>2, <2>4
<1>3. \A x \in S : m >= x /\ x \in Nat
  BY <1>2 DEF Findings
<1> QED
  BY <1>3 DEF Max

(* When a page is full, its last id separates it from what is left to scan. *)
LEMMA PageIsCut ==
  ASSUME NEW cursor \in Cursor, open \subseteq Findings,
         Cardinality(Beyond(cursor)) > BatchSize
  PROVE  /\ Max(Page(cursor)) \in Findings
         /\ \A f \in Beyond(cursor) : f \in Page(cursor) \/ f > Max(Page(cursor))
<1> DEFINE Below(f) == {g \in Beyond(cursor) : g < f}
<1>0. \A f : f \in Page(cursor) <=> f \in Beyond(cursor) /\ Cardinality(Below(f)) < BatchSize
  BY DEF Page
<1>1. Beyond(cursor) \subseteq Findings
  BY DEF Beyond
<1>2. IsFiniteSet(Beyond(cursor)) /\ Cardinality(Beyond(cursor)) \in Nat
  BY <1>1, FindingsFinite, FS_CardinalityType
<1>3. \A f : IsFiniteSet(Below(f)) /\ Cardinality(Below(f)) \in Nat
  BY <1>1, FindingsFinite, FS_CardinalityType
<1> HIDE DEF Below
<1>4. Page(cursor) # {} /\ Page(cursor) \subseteq Findings
  <2>1. Beyond(cursor) # {}
    BY <1>2, FS_EmptySet, BatchSizeAssumption
  <2>2. PICK m \in Beyond(cursor) : \A x \in Beyond(cursor) : m <= x
    BY <1>1, <2>1, LeastId
  <2>3. Below(m) = {}
    BY <1>1, <2>2 DEF Findings, Below
  <2>4. Cardinality(Below(m)) = 0
    BY <2>3, FS_EmptySet
  <2> QED
    BY <1>0, <1>1, <2>2, <2>4, BatchSizeAssumption
<1>5. Max(Page(cursor)) \in Page(cursor)
  BY <1>4, GreatestId
<1>6. ASSUME NEW f \in Beyond(cursor), f \notin Page(cursor), NEW p \in Page(cursor)
      PROVE  f > p
  <2>1. Cardinality(Below(f)) >= BatchSize /\ Cardinality(Below(p)) < BatchSize
    BY <1>0, <1>3, <1>6, BatchSizeAssumption
  <2>2. f \in Nat /\ p \in Nat /\ f # p
    BY <1>1, <1>4, <1>6 DEF Findings
  <2>3. SUFFICES ASSUME f < p PROVE FALSE
    BY <2>2
  <2>4. Below(f) \subseteq Below(p)
    BY <1>1, <2>2, <2>3 DEF Findings, Below
  <2>5. Cardinality(Below(f)) <= Cardinality(Below(p))
    BY <1>3, <2>4, FS_Subset
  <2> QED
    BY <1>3, <2>1, <2>5, BatchSizeAssumption
<1> QED
  BY <1>4, <1>5, <1>6
(* A page that is not cut off holds every id above the cursor. *)
LEMMA WholePage ==
  ASSUME NEW cursor \in Cursor, open \subseteq Findings,
         ~(Cardinality(Beyond(cursor)) > BatchSize)
  PROVE  Page(cursor) = Beyond(cursor)
<1> DEFINE Below(f) == {g \in Beyond(cursor) : g < f}
<1>1. Beyond(cursor) \subseteq Findings
  BY DEF Beyond
<1>2. IsFiniteSet(Beyond(cursor)) /\ Cardinality(Beyond(cursor)) \in Nat
  BY <1>1, FindingsFinite, FS_CardinalityType
<1>3. ASSUME NEW f \in Beyond(cursor) PROVE Cardinality(Below(f)) < BatchSize
  <2>1. Below(f) \subseteq Beyond(cursor) \ {f} /\ f \in Nat
    BY <1>1 DEF Findings
  <2>2. /\ IsFiniteSet(Beyond(cursor) \ {f})
        /\ Cardinality(Beyond(cursor) \ {f}) = Cardinality(Beyond(cursor)) - 1
    BY <1>2, <1>3, FS_RemoveElement
  <2> HIDE DEF Below
  <2>3. Cardinality(Below(f)) <= Cardinality(Beyond(cursor) \ {f}) /\ IsFiniteSet(Below(f))
    BY <2>1, <2>2, FS_Subset
  <2>4. Cardinality(Below(f)) \in Nat
    BY <2>3, FS_CardinalityType
  <2> QED
    BY <1>2, <2>2, <2>3, <2>4, BatchSizeAssumption
<1> QED
  BY <1>3 DEF Page

-----------------------------------------------------------------------------
(* Types *)

LEMMA TypeInit == Init => TypeOK
<1> SUFFICES ASSUME Init PROVE TypeOK
  OBVIOUS
<1>1. Idle \in Run
  BY RecordsAssumption DEF Idle, Cursor, Run
<1>2. run \in [Workers -> Run]
  BY <1>1 DEF Init
<1>3. 0 \in Cursor /\ 0 \in 0 .. MaxTrouble
  BY RecordsAssumption, MaxTroubleAssumption DEF Cursor
<1> QED
  BY <1>2, <1>3 DEF Init, TypeOK

(* The store's calls keep the lease and the sweep well-typed. *)
LEMMA StoreTypes ==
  ASSUME TypeOK, NEW w \in Workers,
         \/ StoreAcquire(w) /\ UNCHANGED <<left, due, open>>
         \/ StoreCheckpoint(w) /\ UNCHANGED open
         \/ StoreRelease(w) /\ UNCHANGED <<left, due, open>>
  PROVE  /\ lease' \in [holder : Workers \cup {NoOne}, live : BOOLEAN, cursor : Cursor]
         /\ open' \subseteq Findings /\ due' \subseteq open' /\ left' \subseteq Wanted
<1>1. CASE StoreAcquire(w) /\ UNCHANGED <<left, due, open>>
  BY <1>1 DEF StoreAcquire, TypeOK
<1>2. CASE StoreCheckpoint(w) /\ UNCHANGED open
  <2>1. run[w].next \in Cursor
    BY DEF TypeOK, Run
  <2>2. CASE MayCheckpoint(w)
    BY <1>2, <2>1, <2>2 DEF StoreCheckpoint, TypeOK
  <2>3. CASE ~MayCheckpoint(w)
    BY <1>2, <2>3 DEF StoreCheckpoint, TypeOK
  <2> QED
    BY <2>2, <2>3
<1>3. CASE StoreRelease(w) /\ UNCHANGED <<left, due, open>>
  BY <1>3 DEF StoreRelease, TypeOK
<1> QED
  BY <1>1, <1>2, <1>3

LEMMA TypeNext == TypeOK /\ [Next]_vars => TypeOK'
<1> SUFFICES ASSUME TypeOK, [Next]_vars PROVE TypeOK'
  OBVIOUS
<1> USE DEF Goes
<1>0. Idle \in Run
  BY RecordsAssumption DEF Idle, Cursor, Run
<1>a. /\ \A w \in Workers : run[w] \in Run
      /\ \A w \in Workers, r \in Run : [run EXCEPT ![w] = r] \in [Workers -> Run]
  BY DEF TypeOK
<1>1. ASSUME GoesWrong PROVE trouble' \in 0 .. MaxTrouble
  BY <1>1, MaxTroubleAssumption DEF GoesWrong, TypeOK
<1>2. ASSUME NEW w \in Workers, Acquire(w) PROVE TypeOK'
  <2>1. lease' \in [holder : Workers \cup {NoOne}, live : BOOLEAN, cursor : Cursor]
    BY <1>2, StoreTypes DEF Acquire
  <2>2. run'[w] = [Idle EXCEPT !.cursor = lease'.cursor, !.running = run[w].running]
    BY <1>2 DEF Acquire, TypeOK
  <2>3. [Idle EXCEPT !.cursor = lease'.cursor, !.running = run[w].running]
        \in Run
    BY <1>a, <1>0, <2>1 DEF Run
  <2> QED
    BY <1>2, <2>1, <2>3 DEF Acquire, TypeOK
<1>3. ASSUME NEW w \in Workers, Renew(w) \/ HandlersSettle(w) \/ RenewAgain(w) PROVE TypeOK'
  BY <1>3 DEF Renew, HandlersSettle, RenewAgain, TypeOK
<1>4. ASSUME NEW w \in Workers, Scan(w) PROVE TypeOK'
  <2> DEFINE cursor == run[w].cursor
             next == IF Cardinality(Beyond(cursor)) > BatchSize THEN Max(Page(cursor)) ELSE 0
  <2>1. cursor \in Cursor /\ open \subseteq Findings
    <3>1. run[w].cursor \in Cursor
      BY <1>a DEF Run
    <3>2. open \subseteq Findings
      BY DEF TypeOK
    <3> QED
      BY <3>1, <3>2
  <2>2. next \in Cursor
    BY <2>1, PageIsCut, RecordsAssumption DEF Cursor, Findings
  <2>3. Selected(cursor) \subseteq Wanted
    BY DEF Selected
  <2> DEFINE new == [run[w] EXCEPT !.pages = run[w].pages + 1, !.todo = Selected(cursor), !.next = next]
  <2>4. run' = [run EXCEPT ![w] = new]
    BY <1>4 DEF Scan
  <2> HIDE DEF next, cursor
  <2>5. new \in Run
    <3>1. run[w] \in Run /\ run[w].pages + 1 \in Nat
      BY <1>a DEF Run
    <3> QED
      BY <2>2, <2>3, <3>1 DEF Run
  <2> HIDE DEF new
  <2>6. run' \in [Workers -> Run]
    BY <1>a, <2>4, <2>5
  <2> QED
    BY <1>4, <2>6 DEF Scan, TypeOK
<1>5. ASSUME NEW w \in Workers, StartHandler(w) PROVE TypeOK'
  <2>1. run[w].todo \subseteq Findings /\ run[w].todo # {} /\ run[w].todo \subseteq Wanted
    BY <1>5, WantedAssumption DEF StartHandler, TypeOK, Run, Findings
  <2>2. Min(run[w].todo) \in run[w].todo
    BY <2>1, LeastId DEF Min
  <2> DEFINE f == Min(run[w].todo)
  <2> DEFINE new == [run[w] EXCEPT !.todo = run[w].todo \ {f}, !.running = run[w].running \cup {f}]
  <2>3. run' = [run EXCEPT ![w] = new]
    BY <1>5 DEF StartHandler
  <2>4. f \in Wanted
    BY <2>1, <2>2
  <2> HIDE DEF f
  <2>5. new \in Run
    BY <1>a, <2>4 DEF Run
  <2> HIDE DEF new
  <2>6. run' \in [Workers -> Run]
    BY <1>a, <2>3, <2>5
  <2> QED
    BY <1>5, <2>6 DEF StartHandler, TypeOK
<1>6. ASSUME NEW w \in Workers, NEW f \in Wanted, Handled(w, f) PROVE TypeOK'
  <2>1. [run[w] EXCEPT !.running = @ \ {f}] \in Run
    BY <1>a DEF Run
  <2> QED
    BY <1>6, <2>1 DEF Handled, TypeOK
<1>7. ASSUME NEW w \in Workers, NEW f \in Wanted, HandlerFails(w, f) PROVE TypeOK'
  <2> DEFINE new == [run[w] EXCEPT !.running = run[w].running \ {f}, !.failed = TRUE]
  <2>1. new \in Run
    BY <1>a DEF Run
  <2>2. run' = [run EXCEPT ![w] = new] /\ GoesWrong
    BY <1>7 DEF HandlerFails
  <2> HIDE DEF new
  <2>3. run' \in [Workers -> Run] /\ trouble' \in 0 .. MaxTrouble
    BY <1>a, <1>1, <2>1, <2>2
  <2> QED
    BY <1>7, <2>3 DEF HandlerFails, TypeOK
<1>8. ASSUME NEW w \in Workers, HandlerAborted(w) PROVE TypeOK'
  <2>1. [run[w] EXCEPT !.failed = TRUE] \in Run
    BY <1>a DEF Run
  <2> QED
    BY <1>1, <1>8, <2>1 DEF HandlerAborted, TypeOK
<1>9. ASSUME NEW w \in Workers, Checkpoint(w) PROVE TypeOK'
  <2>1. /\ lease' \in [holder : Workers \cup {NoOne}, live : BOOLEAN, cursor : Cursor]
        /\ open' \subseteq Findings /\ due' \subseteq open' /\ left' \subseteq Wanted
    BY <1>9, StoreTypes DEF Checkpoint
  <2>2. [run[w] EXCEPT !.cursor = run[w].next] \in Run
    BY <1>a DEF Run
  <2> QED
    BY <1>9, <2>1, <2>2 DEF Checkpoint, TypeOK
<1>10. ASSUME NEW w \in Workers, Release(w) PROVE TypeOK'
  <2>1. lease' \in [holder : Workers \cup {NoOne}, live : BOOLEAN, cursor : Cursor]
    BY <1>10, StoreTypes DEF Release
  <2>2. [Idle EXCEPT !.running = run[w].running]
        \in Run
    BY <1>a, <1>0 DEF Run
  <2> QED
    BY <1>10, <2>1, <2>2 DEF Release, TypeOK
<1>11. ASSUME NEW w \in Workers, Throw(w) PROVE TypeOK'
  BY <1>1, <1>11 DEF Throw, TypeOK
<1>12. ASSUME NEW w \in Workers, AcquireUnanswered(w) PROVE TypeOK'
  <2>1. lease' \in [holder : Workers \cup {NoOne}, live : BOOLEAN, cursor : Cursor]
    BY <1>12, StoreTypes DEF AcquireUnanswered
  <2> QED
    BY <1>1, <1>12, <2>1 DEF AcquireUnanswered, TypeOK
<1>13. ASSUME NEW w \in Workers, CheckpointUnanswered(w) PROVE TypeOK'
  <2>1. /\ lease' \in [holder : Workers \cup {NoOne}, live : BOOLEAN, cursor : Cursor]
        /\ open' \subseteq Findings /\ due' \subseteq open' /\ left' \subseteq Wanted
    BY <1>13, StoreTypes DEF CheckpointUnanswered
  <2> QED
    BY <1>1, <1>13, <2>1 DEF CheckpointUnanswered, TypeOK
<1>14. ASSUME NEW w \in Workers, Stop(w) PROVE TypeOK'
  BY <1>0, <1>1, <1>14 DEF Stop, TypeOK
<1>15. ASSUME NEW w \in Workers, Lapse(w) PROVE TypeOK'
  BY <1>1, <1>15 DEF Lapse, TypeOK
<1>16. ASSUME NEW w \in Workers, Expire(w) PROVE TypeOK'
  BY <1>16 DEF Expire, TypeOK
<1>17. ASSUME NEW f \in Findings, Appear(f) \/ Vanish(f) PROVE TypeOK'
  BY <1>17 DEF Appear, Vanish, TypeOK
<1>18. ASSUME UNCHANGED vars PROVE TypeOK'
  BY <1>18 DEF vars, TypeOK
<1> QED
  BY <1>2, <1>3, <1>4, <1>5, <1>6, <1>7, <1>8, <1>9, <1>10, <1>11, <1>12, <1>13, <1>14,
     <1>15, <1>16, <1>17, <1>18 DEF Next, Step

(* Every variable keeps its type; above all a page's cursor is an id, and *)
(* handlers are called for selected findings only.                        *)
THEOREM TypeCorrect == Spec => []TypeOK
<1> QED
  BY TypeInit, TypeNext, PTL DEF Spec
-----------------------------------------------------------------------------
(* Handlers and the lease *)

(* What makes HandlersHoldTheLease inductive: a run whose lease was taken  *)
(* over, or can be, has seen it lapse.                                     *)
Held(w) ==
  /\ run[w].running # {} => pc[w] = "handle"
  /\ pc[w] # "idle" => Holds(w) \/ w \in lapsed
  /\ pc[w] # "idle" /\ Holds(w) /\ ~lease.live => w \in lapsed

AllHeld == \A w \in Workers : Held(w)

LEMMA HeldInit == Init => AllHeld
  BY DEF Init, Idle, AllHeld, Held

LEMMA HeldNext == TypeOK /\ AllHeld /\ [Next]_vars => AllHeld'
<1> SUFFICES ASSUME TypeOK, AllHeld, [Next]_vars, NEW v \in Workers PROVE Held(v)'
  BY DEF AllHeld
<1> USE DEF Held, Holds, Goes
<1>a. Held(v) /\ v # NoOne
  BY WorkersAssumption DEF AllHeld
<1>b. pc \in [Workers -> {"idle", "renew", "scan", "handle", "renewAgain", "checkpoint", "release"}]
      /\ run \in [Workers -> Run]
      /\ lease \in [holder : Workers \cup {NoOne}, live : BOOLEAN, cursor : Cursor]
  BY DEF TypeOK
<1>1. ASSUME NEW w \in Workers, Acquire(w) PROVE Held(v)'
  BY <1>a, <1>b, <1>1 DEF Acquire, StoreAcquire, Free, Idle
<1>2. ASSUME NEW w \in Workers, Renew(w) PROVE Held(v)'
  BY <1>a, <1>b, <1>2 DEF Renew
<1>3. ASSUME NEW w \in Workers, Scan(w) PROVE Held(v)'
  BY <1>a, <1>b, <1>3 DEF Scan
<1>4. ASSUME NEW w \in Workers, StartHandler(w) PROVE Held(v)'
  BY <1>a, <1>b, <1>4 DEF StartHandler
<1>5. ASSUME NEW w \in Workers, HandlerAborted(w) PROVE Held(v)'
  BY <1>a, <1>b, <1>5 DEF HandlerAborted
<1>6. ASSUME NEW w \in Workers, HandlersSettle(w) PROVE Held(v)'
  BY <1>a, <1>b, <1>6 DEF HandlersSettle, Settled
<1>7. ASSUME NEW w \in Workers, RenewAgain(w) PROVE Held(v)'
  BY <1>a, <1>b, <1>7 DEF RenewAgain
<1>8. ASSUME NEW w \in Workers, Checkpoint(w) PROVE Held(v)'
  BY <1>a, <1>b, <1>8 DEF Checkpoint, StoreCheckpoint
<1>9. ASSUME NEW w \in Workers, Release(w) PROVE Held(v)'
  BY <1>a, <1>b, <1>9 DEF Release, StoreRelease, Idle
<1>10. ASSUME NEW w \in Workers, Throw(w) PROVE Held(v)'
  BY <1>a, <1>b, <1>10 DEF Throw
<1>11. ASSUME NEW w \in Workers, AcquireUnanswered(w) PROVE Held(v)'
  BY <1>a, <1>b, <1>11 DEF AcquireUnanswered, StoreAcquire, Free
<1>12. ASSUME NEW w \in Workers, CheckpointUnanswered(w) PROVE Held(v)'
  BY <1>a, <1>b, <1>12 DEF CheckpointUnanswered, StoreCheckpoint
<1>13. ASSUME NEW w \in Workers, Stop(w) PROVE Held(v)'
  BY <1>a, <1>b, <1>13 DEF Stop, Idle
<1>14. ASSUME NEW w \in Workers, Lapse(w) PROVE Held(v)'
  BY <1>a, <1>b, <1>14 DEF Lapse
<1>15. ASSUME NEW w \in Workers, Expire(w) PROVE Held(v)'
  BY <1>a, <1>b, <1>15 DEF Expire
<1>16. ASSUME NEW w \in Workers, NEW f \in Wanted, Handled(w, f) PROVE Held(v)'
  BY <1>a, <1>b, <1>16 DEF Handled
<1>17. ASSUME NEW w \in Workers, NEW f \in Wanted, HandlerFails(w, f) PROVE Held(v)'
  BY <1>a, <1>b, <1>17 DEF HandlerFails
<1>18. ASSUME NEW f \in Findings, Appear(f) \/ Vanish(f) PROVE Held(v)'
  BY <1>a, <1>18 DEF Appear, Vanish
<1>19. ASSUME UNCHANGED vars PROVE Held(v)'
  BY <1>a, <1>19 DEF vars
<1> QED
  BY <1>1, <1>2, <1>3, <1>4, <1>5, <1>6, <1>7, <1>8, <1>9, <1>10, <1>11, <1>12, <1>13, <1>14,
     <1>15, <1>16, <1>17, <1>18, <1>19 DEF Next, Step

(* No run gives its lease away while a handler it started is running. *)
THEOREM HandlersAlwaysHoldTheLease == Spec => []HandlersHoldTheLease
<1>1. AllHeld => HandlersHoldTheLease
  BY DEF AllHeld, Held, HandlersHoldTheLease
<1> QED
  BY <1>1, TypeInit, TypeNext, HeldInit, HeldNext, PTL DEF Spec
-----------------------------------------------------------------------------
(* The sweep *)

(* What the sweep still owes lies above the cursor. *)
OwedAhead == \A f \in due \cap Wanted : f > lease.cursor

(* The holder of the lease goes on from the stored cursor, and what is owed *)
(* is in its page or above it.                                              *)
Follows(w) ==
  Holds(w) /\ pc[w] \in {"renew", "scan", "handle", "renewAgain", "checkpoint"}
    => run[w].cursor = lease.cursor

Covers(w) ==
  Holds(w) /\ pc[w] \in {"handle", "renewAgain", "checkpoint"} /\ ~run[w].failed
    => \A f \in due \cap Wanted :
         \/ f \in run[w].todo \/ f \in run[w].running
         \/ run[w].next # 0 /\ f > run[w].next

(* After its handlers have settled, nothing of the page is left. *)
Done(w) ==
  pc[w] \in {"renewAgain", "checkpoint"}
    => ~run[w].failed /\ run[w].todo = {} /\ run[w].running = {}

SweepInv ==
  /\ OwedAhead /\ NothingIsLeft
  /\ \A w \in Workers : Follows(w) /\ Covers(w) /\ Done(w)

LEMMA SweepInit == Init => SweepInv
  BY DEF Init, SweepInv, OwedAhead, NothingIsLeft, Follows, Covers, Done, Findings

(* A checkpoint passes nothing that is owed. *)
LEMMA CheckpointPassesNothing ==
  ASSUME TypeOK, SweepInv, NEW w \in Workers, pc[w] = "checkpoint", StoreCheckpoint(w),
         UNCHANGED open
  PROVE  OwedAhead' /\ NothingIsLeft'
<1> DEFINE passed == {f \in due \cap Wanted : run[w].next = 0 \/ f <= run[w].next}
<1>1. CASE MayCheckpoint(w)
  <2>1. \A f \in due \cap Wanted : run[w].next # 0 /\ f > run[w].next
    BY <1>1 DEF SweepInv, Covers, Done, MayCheckpoint, Holds
  <2>2. due \subseteq Nat /\ run[w].next \in Nat /\ \A f \in open : f > 0
    BY RecordsAssumption DEF TypeOK, Run, Cursor, Findings
  <2>3. passed = {}
    <3> SUFFICES ASSUME NEW f \in due \cap Wanted, run[w].next = 0 \/ f <= run[w].next
                 PROVE  FALSE
      OBVIOUS
    <3>1. f \in Nat /\ run[w].next \in Nat /\ run[w].next # 0 /\ f > run[w].next
      BY <2>1, <2>2
    <3> QED
      BY <3>1
  <2>4. left' = {}
    BY <1>1, <2>3 DEF StoreCheckpoint, SweepInv, NothingIsLeft
  <2>5. lease'.cursor = run[w].next
    BY <1>1 DEF StoreCheckpoint, TypeOK
  <2>6. due' = IF run[w].next = 0 THEN open ELSE due
    BY <1>1 DEF StoreCheckpoint
  <2> QED
    BY <2>1, <2>2, <2>4, <2>5, <2>6 DEF OwedAhead, NothingIsLeft
<1>2. CASE ~MayCheckpoint(w)
  BY <1>2 DEF StoreCheckpoint, SweepInv, OwedAhead, NothingIsLeft
<1> QED
  BY <1>1, <1>2

LEMMA SweepNext == TypeOK /\ AllHeld /\ SweepInv /\ [Next]_vars => SweepInv'
<1> SUFFICES ASSUME TypeOK, AllHeld, SweepInv, [Next]_vars PROVE SweepInv'
  OBVIOUS
<1> DEFINE Each == \A v \in Workers : Follows(v)' /\ Covers(v)' /\ Done(v)'
           Whole == OwedAhead' /\ NothingIsLeft'
<1> USE DEF Goes, Holds, Follows, Covers, Done
<1>a. /\ pc \in [Workers -> {"idle", "renew", "scan", "handle", "renewAgain", "checkpoint", "release"}]
      /\ run \in [Workers -> Run]
      /\ lease \in [holder : Workers \cup {NoOne}, live : BOOLEAN, cursor : Cursor]
      /\ NoOne \notin Workers
  BY WorkersAssumption DEF TypeOK
<1>b. \A v \in Workers : Follows(v) /\ Covers(v) /\ Done(v)
  BY DEF SweepInv
<1>c. ASSUME UNCHANGED left, lease'.cursor = lease.cursor, due' \subseteq due PROVE Whole
  BY <1>c DEF SweepInv, OwedAhead, NothingIsLeft
<1>1. ASSUME NEW w \in Workers, Acquire(w) PROVE Each /\ Whole
  <2>1. Each
    BY <1>a, <1>b, <1>1 DEF Acquire, StoreAcquire, Free, Idle
  <2> QED
    BY <1>a, <1>c, <1>1, <2>1 DEF Acquire, StoreAcquire, Free, Idle
<1>2. ASSUME NEW w \in Workers, Renew(w) PROVE Each /\ Whole
  <2>1. Each
    BY <1>a, <1>b, <1>2 DEF Renew
  <2> QED
    BY <1>a, <1>c, <1>2, <2>1 DEF Renew
<1>3. ASSUME NEW w \in Workers, Scan(w) PROVE Each /\ Whole
  <2> DEFINE cursor == run[w].cursor
             next == IF Cardinality(Beyond(cursor)) > BatchSize THEN Max(Page(cursor)) ELSE 0
             new == [run[w] EXCEPT !.pages = run[w].pages + 1, !.todo = Selected(cursor), !.next = next]
  <2>1. run' = [run EXCEPT ![w] = new]
    BY <1>3 DEF Scan
  <2>2. run'[w].todo = Selected(cursor) /\ run'[w].next = next /\ run'[w].cursor = cursor
    BY <1>a, <2>1 DEF Run
  <2>3. ASSUME Holds(w), NEW f \in due \cap Wanted
        PROVE  f \in Selected(cursor) \/ (next # 0 /\ f > next)
    <3>1. cursor = lease.cursor /\ cursor \in Cursor /\ open \subseteq Findings
      BY <1>a, <1>b, <1>3, <2>3 DEF Scan, TypeOK
    <3>2. f \in Beyond(cursor)
      BY <3>1, <2>3 DEF SweepInv, OwedAhead, Beyond, TypeOK
    <3>3. CASE Cardinality(Beyond(cursor)) > BatchSize
      BY <3>1, <3>2, <3>3, PageIsCut DEF Selected, Findings
    <3>4. CASE ~(Cardinality(Beyond(cursor)) > BatchSize)
      BY <3>1, <3>2, <3>4, WholePage DEF Selected
    <3> QED
      BY <3>3, <3>4
  <2> HIDE DEF new, next, cursor
  <2>4. Each
    BY <1>a, <1>b, <1>3, <2>1, <2>2, <2>3 DEF Scan, cursor
  <2> QED
    BY <1>c, <1>3, <2>4 DEF Scan
<1>4. ASSUME NEW w \in Workers, StartHandler(w) PROVE Each /\ Whole
  <2> DEFINE f == Min(run[w].todo)
             new == [run[w] EXCEPT !.todo = run[w].todo \ {f}, !.running = run[w].running \cup {f}]
  <2>1. run' = [run EXCEPT ![w] = new]
    BY <1>4 DEF StartHandler
  <2> HIDE DEF f
  <2>2. /\ run'[w].todo = run[w].todo \ {f} /\ run'[w].running = run[w].running \cup {f}
        /\ run'[w].next = run[w].next /\ run'[w].cursor = run[w].cursor
        /\ run'[w].failed = run[w].failed
    BY <1>a, <2>1 DEF Run
  <2> HIDE DEF new
  <2>3. Each
    BY <1>a, <1>b, <1>4, <2>1, <2>2 DEF StartHandler
  <2> QED
    BY <1>c, <1>4, <2>3 DEF StartHandler
<1>5. ASSUME NEW w \in Workers, HandlerAborted(w) PROVE Each /\ Whole
  <2>1. Each
    BY <1>a, <1>b, <1>5 DEF HandlerAborted
  <2> QED
    BY <1>a, <1>c, <1>5, <2>1 DEF HandlerAborted
<1>6. ASSUME NEW w \in Workers, HandlersSettle(w) PROVE Each /\ Whole
  <2>1. Each
    BY <1>a, <1>b, <1>6 DEF HandlersSettle, Settled
  <2> QED
    BY <1>a, <1>c, <1>6, <2>1 DEF HandlersSettle, Settled
<1>7. ASSUME NEW w \in Workers, RenewAgain(w) PROVE Each /\ Whole
  <2>1. Each
    BY <1>a, <1>b, <1>7 DEF RenewAgain
  <2> QED
    BY <1>a, <1>c, <1>7, <2>1 DEF RenewAgain
<1>8. ASSUME NEW w \in Workers, Checkpoint(w) PROVE Each /\ Whole
  <2>1. Whole
    BY <1>8, CheckpointPassesNothing DEF Checkpoint
  <2>2. ASSUME NEW v \in Workers PROVE Follows(v)' /\ Covers(v)' /\ Done(v)'
    BY <1>a, <1>b, <1>8, <2>2 DEF Checkpoint, StoreCheckpoint, MayCheckpoint
  <2> QED
    BY <2>1, <2>2
<1>9. ASSUME NEW w \in Workers, Release(w) PROVE Each /\ Whole
  <2>1. Each
    BY <1>a, <1>b, <1>9 DEF Release, StoreRelease, Idle
  <2> QED
    BY <1>a, <1>c, <1>9, <2>1 DEF Release, StoreRelease, Idle
<1>10. ASSUME NEW w \in Workers, Throw(w) PROVE Each /\ Whole
  <2>1. Each
    BY <1>a, <1>b, <1>10 DEF Throw
  <2> QED
    BY <1>a, <1>c, <1>10, <2>1 DEF Throw
<1>11. ASSUME NEW w \in Workers, AcquireUnanswered(w) PROVE Each /\ Whole
  <2>1. Each
    BY <1>a, <1>b, <1>11 DEF AcquireUnanswered, StoreAcquire, Free
  <2> QED
    BY <1>a, <1>c, <1>11, <2>1 DEF AcquireUnanswered, StoreAcquire, Free
<1>12. ASSUME NEW w \in Workers, CheckpointUnanswered(w) PROVE Each /\ Whole
  <2>1. Whole
    BY <1>12, CheckpointPassesNothing DEF CheckpointUnanswered
  <2>2. ASSUME NEW v \in Workers PROVE Follows(v)' /\ Covers(v)' /\ Done(v)'
    BY <1>a, <1>b, <1>12, <2>2 DEF CheckpointUnanswered, StoreCheckpoint, MayCheckpoint
  <2> QED
    BY <2>1, <2>2
<1>13. ASSUME NEW w \in Workers, Stop(w) PROVE Each /\ Whole
  <2>1. Each
    BY <1>a, <1>b, <1>13 DEF Stop, Idle
  <2> QED
    BY <1>a, <1>c, <1>13, <2>1 DEF Stop, Idle
<1>14. ASSUME NEW w \in Workers, Lapse(w) PROVE Each /\ Whole
  <2>1. Each
    BY <1>a, <1>b, <1>14 DEF Lapse
  <2> QED
    BY <1>a, <1>c, <1>14, <2>1 DEF Lapse
<1>15. ASSUME NEW w \in Workers, Expire(w) PROVE Each /\ Whole
  <2>1. Each
    BY <1>a, <1>b, <1>15 DEF Expire
  <2> QED
    BY <1>a, <1>c, <1>15, <2>1 DEF Expire
<1>16. ASSUME NEW w \in Workers, NEW f \in Wanted, Handled(w, f) PROVE Each /\ Whole
  <2>1. Each
    BY <1>a, <1>b, <1>16 DEF Handled, Run
  <2> QED
    BY <1>c, <1>16, <2>1 DEF Handled
<1>17. ASSUME NEW w \in Workers, NEW f \in Wanted, HandlerFails(w, f) PROVE Each /\ Whole
  <2>1. Each
    <3>1. pc[w] = "handle"
      BY <1>17 DEF HandlerFails, AllHeld, Held
    <3>2. run'[w].failed /\ run'[w].cursor = run[w].cursor
      BY <1>a, <1>17 DEF HandlerFails, Run
    <3>3. \A v \in Workers : v # w => run'[v] = run[v]
      BY <1>a, <1>17 DEF HandlerFails
    <3> QED
      BY <1>a, <1>b, <1>17, <3>1, <3>2, <3>3 DEF HandlerFails
  <2> QED
    BY <1>c, <1>17, <2>1 DEF HandlerFails
<1>18. ASSUME NEW f \in Findings, Appear(f) \/ Vanish(f) PROVE Each /\ Whole
  <2>1. Each
    BY <1>b, <1>18 DEF Appear, Vanish
  <2> QED
    BY <1>c, <1>18, <2>1 DEF Appear, Vanish
<1>19. ASSUME UNCHANGED vars PROVE Each /\ Whole
  <2>1. Each
    BY <1>b, <1>19 DEF vars
  <2> QED
    BY <1>c, <1>19, <2>1 DEF vars
<1> HIDE DEF Each, Whole
<1>20. Each /\ Whole
  BY <1>1, <1>2, <1>3, <1>4, <1>5, <1>6, <1>7, <1>8, <1>9, <1>10, <1>11, <1>12, <1>13, <1>14,
     <1>15, <1>16, <1>17, <1>18, <1>19 DEF Next, Step
<1> QED
  BY <1>20 DEF Each, Whole, SweepInv

(* Whichever runs share a sweep, the stored cursor never passes a finding  *)
(* that was open all along and that none of their handlers has handled.    *)
THEOREM NothingIsEverLeft == Spec => []NothingIsLeft
<1>1. SweepInv => NothingIsLeft
  BY DEF SweepInv
<1> QED
  BY <1>1, TypeInit, TypeNext, HeldInit, HeldNext, SweepInit, SweepNext, PTL DEF Spec
=============================================================================
