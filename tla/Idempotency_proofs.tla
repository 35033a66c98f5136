------------------------- MODULE Idempotency_proofs -------------------------
(***************************************************************************)
(* Proofs about Idempotency for every set of requests and tenants, every   *)
(* finite set of keys, and every capacity and lease.                       *)
(*                                                                         *)
(* Two arguments.  Counting: the store's per-namespace counts are exact,   *)
(* which its types need (a count never goes below zero) and its capacity   *)
(* decisions rest on.  Guarding: a key under which an effect has begun     *)
(* holds a live entry, answered or still owned by the request that began   *)
(* it - and that request is past releasing the key.                        *)
(***************************************************************************)
EXTENDS Idempotency, FiniteSetTheorems, TLAPS

(* The part of the types that is about the store. *)
StoreTypes ==
  /\ holder \in [Keys -> Requests \cup {NoRequest}]
  /\ print \in [Keys -> Prints]
  /\ done \in [Keys -> BOOLEAN]
  /\ left \in [Keys -> 0..LongestTtl]
  /\ count \in [Namespaces -> Nat]

Exact == StoreTypes /\ NamespacesAreExact

(* Requests that have not begun an effect, by where they stand. *)
Uncommitted ==
  {"arriving", "begin", "granted", "withdraw", "release", "abandon"}

Guarded ==
  /\ \A r \in Requests : pc[r] \in Uncommitted => r \notin began
  /\ \A k \in spent : /\ holder[k] \in Requests /\ left[k] > 0
                      /\ done[k] \/ holder[k] \in began

-----------------------------------------------------------------------------
(* Counting entries *)

(* Any set of keys is finite, and so is a tenant's part of it. *)
LEMMA KeySetFinite ==
  ASSUME NEW K, K \subseteq Keys
  PROVE  /\ IsFiniteSet(K) /\ Cardinality(K) \in Nat
         /\ \A n : Of(n, K) \subseteq K /\ IsFiniteSet(Of(n, K)) /\ Cardinality(Of(n, K)) \in Nat
<1>1. IsFiniteSet(K) /\ Cardinality(K) \in Nat
  BY KeysAssumption, FS_Subset, FS_CardinalityType
<1>2. ASSUME NEW n
      PROVE  Of(n, K) \subseteq K /\ IsFiniteSet(Of(n, K)) /\ Cardinality(Of(n, K)) \in Nat
  <2>1. Of(n, K) \subseteq K
    BY DEF Of
  <2> QED
    BY <1>1, <2>1, FS_Subset, FS_CardinalityType
<1> QED
  BY <1>1, <1>2

(* Dropping entries leaves the counts of the others. *)
LEMMA CountsWithout ==
  ASSUME NamespacesAreExact, NEW K, K \subseteq Occupied
  PROVE  /\ \A n \in Namespaces : CountWithout(K)[n] = Cardinality(Of(n, Occupied \ K))
         /\ CountWithout(K) \in [Namespaces -> Nat]
<1>1. ASSUME NEW n \in Namespaces
      PROVE  /\ CountWithout(K)[n] = Cardinality(Of(n, Occupied \ K))
             /\ Cardinality(Of(n, Occupied \ K)) \in Nat
  <2> DEFINE all == Of(n, Occupied)
             some == Of(n, K)
             rest == Of(n, Occupied \ K)
  <2>1. Occupied \subseteq Keys
    BY DEF Occupied
  <2>2. /\ IsFiniteSet(all) /\ Cardinality(all) \in Nat
        /\ Cardinality(some) \in Nat /\ Cardinality(rest) \in Nat
    BY <2>1, KeySetFinite
  <2>3. rest = all \ some /\ all \cap some = some
    BY <2>1 DEF Of
  <2>4. CountWithout(K)[n] = Cardinality(all) - Cardinality(some)
    BY DEF CountWithout, NamespacesAreExact
  <2> HIDE DEF all, some, rest
  <2>5. Cardinality(rest) = Cardinality(all) - Cardinality(some)
    BY <2>2, <2>3, FS_Difference
  <2>6. CountWithout(K)[n] = Cardinality(rest) /\ Cardinality(rest) \in Nat
    BY <2>2, <2>4, <2>5
  <2> QED
    BY <2>6 DEF rest
<1> QED
  BY <1>1 DEF CountWithout

(* drop() keeps types and counts. *)
LEMMA DropKeeps ==
  ASSUME Exact, NEW K, K \subseteq Occupied, Drop(K)
  PROVE  Exact'
<1>1. holder' = [k \in Keys |-> IF k \in K THEN NoRequest ELSE holder[k]]
  BY DEF Drop
<1>2. Occupied' = Occupied \ K
  BY <1>1 DEF Occupied
<1>3. count' = CountWithout(K)
  BY DEF Drop
<1>4. count' \in [Namespaces -> Nat] /\ NamespacesAreExact'
  BY <1>2, <1>3, CountsWithout DEF Exact, NamespacesAreExact
<1>5. left' \in [Keys -> 0..LongestTtl]
  BY TtlAssumption DEF Drop, Exact, StoreTypes, LongestTtl
<1>6. done' \in [Keys -> BOOLEAN]
  BY DEF Drop
<1> QED
  BY <1>1, <1>4, <1>5, <1>6 DEF Drop, Exact, StoreTypes

(* What begin() drops is expired, and the key it drops it for is free
   afterwards unless it is live. *)
LEMMA OutdatedExpired ==
  ASSUME StoreTypes, NEW k \in Keys
  PROVE  /\ Outdated(k) \subseteq Expired /\ Expired \subseteq Occupied
         /\ ~Live(k) => k \notin Occupied \ Outdated(k)
<1>1. left[k] \in Nat
  BY TtlAssumption DEF StoreTypes, LongestTtl
<1>2. Outdated(k) \subseteq Expired /\ Expired \subseteq Occupied
  BY DEF Outdated, Expired
<1>3. ASSUME k \in Occupied, ~Live(k) PROVE k \in Outdated(k)
  BY <1>1, <1>3 DEF Outdated, Expired, Live
<1> QED
  BY <1>2, <1>3

(* begin() keeps types and counts. *)
LEMMA BeginKeeps ==
  ASSUME Exact, NEW r \in Requests, key[r] \in Keys, body[r] \in Prints, BeginStore(r)
  PROVE  Exact'
<1> DEFINE k == key[r]
           K == Outdated(k)
<1>1. K \subseteq Occupied /\ (~Live(k) => k \notin Occupied \ K)
  BY OutdatedExpired DEF Exact
<1>2. CASE BeginOutcome(r) \in {"replayed", "conflict"}
  BY <1>2 DEF BeginStore, Exact, StoreTypes, NamespacesAreExact, Occupied, Of, entries
<1>3. CASE BeginOutcome(r) = "full"
  BY <1>1, <1>3, DropKeeps DEF BeginStore
<1>4. CASE BeginOutcome(r) = "granted"
  <2>1. /\ ~Live(k)
        /\ holder' = [x \in Keys |-> IF x = k THEN r
                                     ELSE IF x \in K THEN NoRequest ELSE holder[x]]
        /\ print' = [print EXCEPT ![k] = body[r]]
        /\ done' = [x \in Keys |-> x # k /\ x \notin K /\ done[x]]
        /\ left' = [x \in Keys |-> IF x = k THEN PendingTtlMs
                                   ELSE IF x \in K THEN 0 ELSE left[x]]
        /\ count' = [CountWithout(K) EXCEPT ![NamespaceOf[k]] = @ + 1]
    BY <1>4 DEF BeginStore, BeginOutcome
  <2>2. NamespaceOf[k] \in Namespaces
    BY NamespaceOfAssumption
  <2>3. /\ \A n \in Namespaces : CountWithout(K)[n] = Cardinality(Of(n, Occupied \ K))
        /\ CountWithout(K) \in [Namespaces -> Nat]
    BY <1>1, CountsWithout DEF Exact
  <2> HIDE DEF K
  <2>4. Occupied' = (Occupied \ K) \cup {k}
    BY <2>1, RequestsAssumption DEF Occupied
  <2>5. NamespacesAreExact'
    <3> SUFFICES ASSUME NEW n \in Namespaces
                 PROVE  count'[n] = Cardinality(Of(n, Occupied'))
      BY DEF NamespacesAreExact, Of
    <3> DEFINE old == Of(n, Occupied \ K)
    <3>1. Occupied \ K \subseteq Keys
      BY DEF Occupied
    <3>2. IsFiniteSet(old)
      BY <3>1, KeySetFinite
    <3>3. CASE n = NamespaceOf[k]
      <4>1. Of(n, Occupied') = old \cup {k} /\ k \notin old
        BY <1>1, <2>1, <2>4, <3>3 DEF Of
      <4>2. count'[n] = CountWithout(K)[n] + 1
        BY <2>1, <2>3, <3>3
      <4> HIDE DEF old
      <4>3. Cardinality(old \cup {k}) = Cardinality(old) + 1
        BY <3>2, <4>1, FS_AddElement
      <4>4. CountWithout(K)[n] = Cardinality(old)
        BY <2>3 DEF old
      <4> QED
        BY <4>1, <4>2, <4>3, <4>4
    <3>4. CASE n # NamespaceOf[k]
      <4>1. Of(n, Occupied') = old
        BY <2>4, <3>4 DEF Of
      <4>2. count'[n] = CountWithout(K)[n]
        BY <2>1, <2>3, <3>4
      <4> QED
        BY <2>3, <4>1, <4>2
    <3> QED
      BY <3>3, <3>4
  <2>6. StoreTypes'
    BY <2>1, <2>2, <2>3, TtlAssumption DEF Exact, StoreTypes, LongestTtl
  <2> QED
    BY <2>5, <2>6 DEF Exact
<1> QED
  BY <1>2, <1>3, <1>4 DEF BeginStore, BeginOutcome

(* So do complete() and abandon(). *)
LEMMA SettleKeeps ==
  ASSUME Exact, NEW r \in Requests, key[r] \in Keys, CompleteStore(r) \/ AbandonStore(r)
  PROVE  Exact'
<1> DEFINE k == key[r]
<1>1. CASE UNCHANGED entries
  BY <1>1 DEF Exact, StoreTypes, NamespacesAreExact, Occupied, Of, entries
<1>2. CASE Drop({k}) /\ k \in Occupied
  <2>1. {k} \subseteq Occupied
    BY <1>2
  <2> QED
    BY <1>2, <2>1, DropKeeps
<1>3. CASE CompleteStore(r) /\ CanComplete(r)
  <2>1. /\ UNCHANGED <<holder, print, count>>
        /\ done' = [done EXCEPT ![k] = TRUE] /\ left' = [left EXCEPT ![k] = TtlMs]
    BY <1>3 DEF CompleteStore, CanComplete, Retained, Exact, StoreTypes
  <2> QED
    BY <2>1, TtlAssumption
       DEF Exact, StoreTypes, NamespacesAreExact, Occupied, Of, LongestTtl
<1>4. CASE CompleteStore(r) /\ ~CanComplete(r)
  BY <1>1, <1>2, <1>4, RequestsAssumption DEF CompleteStore, Occupied
<1>5. CASE AbandonStore(r)
  BY <1>1, <1>2, <1>5 DEF AbandonStore, CanAbandon, Live, Expired
<1> QED
  BY <1>3, <1>4, <1>5

-----------------------------------------------------------------------------
(* Types *)

RequestTypes ==
  /\ pc \in [Requests -> Label]
  /\ key \in [Requests -> Keys]
  /\ body \in [Requests -> Prints]
  /\ aborted \subseteq Requests /\ entered \subseteq Requests /\ began \subseteq Requests
  /\ spent \subseteq Keys
  /\ failures \in 0..MaxFailures
  /\ crashes \in 0..MaxCrashes

(* The type invariant is the conjunction of these parts. *)
LEMMA TypeParts == TypeOK <=> StoreTypes /\ RequestTypes
BY DEF TypeOK, StoreTypes, RequestTypes

(* What a request does, apart from storing. *)
LEMMA RequestTyped ==
  ASSUME RequestTypes, NEW r \in Requests,
         \/ Proceeds(r) \/ EnterHandler(r) \/ BeginEffect(r)
         \/ Renew(r) \/ Abort(r) \/ Crash(r)
  PROVE  RequestTypes'
<1> USE IdempotencyBoundsAssumption DEF RequestTypes, Goto, Label
<1>1. CASE Arrive(r) \/ Resume(r) \/ Settle(r)
  BY <1>1 DEF Arrive, Resume, Settle
<1>2. CASE Begin(r)
  BY <1>2 DEF Begin, Awaits, BeginOutcome
<1>3. CASE Abandon(r)
  BY <1>3 DEF Abandon, Awaits, AbandonOutcome
<1>4. CASE Complete(r)
  BY <1>4 DEF Complete, Awaits
<1>5. CASE EnterHandler(r) \/ BeginEffect(r)
  BY <1>5 DEF EnterHandler, BeginEffect
<1>6. CASE Renew(r) \/ Abort(r) \/ Crash(r)
  BY <1>6 DEF Renew, Abort, Crash
<1> QED
  BY <1>1, <1>2, <1>3, <1>4, <1>5, <1>6 DEF Proceeds

(* Every step keeps types and counts. *)
LEMMA ExactInductive ==
  ASSUME Exact, RequestTypes, [Next]_vars
  PROVE  Exact' /\ RequestTypes'
<1> USE DEF Exact
<1>1. ASSUME UNCHANGED entries PROVE Exact'
  BY <1>1 DEF StoreTypes, NamespacesAreExact, Occupied, Of, entries
<1>2. ASSUME NEW r \in Requests, Proceeds(r) PROVE Exact'
  <2>1. key[r] \in Keys /\ body[r] \in Prints
    BY DEF RequestTypes
  <2>2. CASE Arrive(r) \/ Resume(r) \/ Settle(r)
    BY <1>1, <2>2 DEF Arrive, Resume, Settle
  <2>3. CASE Begin(r)
    BY <1>1, <2>1, <2>3, BeginKeeps DEF Begin, Awaits
  <2>4. CASE Abandon(r) \/ Complete(r)
    BY <1>1, <2>1, <2>4, SettleKeeps DEF Abandon, Complete, Awaits
  <2> QED
    BY <1>2, <2>2, <2>3, <2>4 DEF Proceeds
<1>3. ASSUME NEW r \in Requests,
             EnterHandler(r) \/ BeginEffect(r) \/ Abort(r) \/ Crash(r)
      PROVE  Exact'
  BY <1>1, <1>3 DEF EnterHandler, BeginEffect, Abort, Crash
<1>4. ASSUME NEW r \in Requests, Renew(r) PROVE Exact'
  <2>1. UNCHANGED <<holder, print, done, count>>
    BY <1>4 DEF Renew
  <2>2. left' = [left EXCEPT ![key[r]] = PendingTtlMs]
    BY <1>4 DEF Renew
  <2>3. PendingTtlMs \in 0..LongestTtl
    BY TtlAssumption DEF LongestTtl
  <2>4. StoreTypes'
    BY <2>1, <2>2, <2>3 DEF StoreTypes
  <2>5. NamespacesAreExact'
    BY <2>1 DEF NamespacesAreExact, Occupied, Of
  <2> QED
    BY <2>4, <2>5
<1>5. ASSUME Sweep PROVE Exact' /\ RequestTypes'
  <2>1. Expired \subseteq Occupied /\ Drop(Expired)
    BY <1>5 DEF Sweep, Expired
  <2> QED
    BY <1>5, <2>1, DropKeeps DEF Sweep, RequestTypes
<1>6. ASSUME Tick PROVE Exact' /\ RequestTypes'
  BY <1>6, TtlAssumption
     DEF Tick, StoreTypes, RequestTypes, NamespacesAreExact, Occupied, Of, LongestTtl
<1>7. ASSUME UNCHANGED vars PROVE Exact' /\ RequestTypes'
  BY <1>1, <1>7 DEF vars, RequestTypes
<1> QED
  BY <1>2, <1>3, <1>4, <1>5, <1>6, <1>7, RequestTyped DEF Next

(* The empty store is exact. *)
LEMMA ExactInit == Init => Exact /\ RequestTypes
<1> SUFFICES ASSUME Init PROVE Exact /\ RequestTypes
  OBVIOUS
<1>1. StoreTypes
  BY TtlAssumption DEF Init, StoreTypes, LongestTtl
<1>2. RequestTypes
  BY IdempotencyBoundsAssumption DEF Init, RequestTypes, Label
<1>3. \A n \in Namespaces : Of(n, Occupied) = {}
  BY DEF Init, Of, Occupied
<1>4. NamespacesAreExact
  BY <1>3, FS_EmptySet DEF Init, NamespacesAreExact
<1> QED
  BY <1>1, <1>2, <1>4 DEF Exact

-----------------------------------------------------------------------------
(* Effects *)

(* A dropped entry guards no effect, unless it is still live. *)
LEMMA DropKeepsGuard ==
  ASSUME StoreTypes, Guarded, NEW K, Drop(K), \A k \in K \cap spent : ~Live(k),
         spent \subseteq Keys
  PROVE  \A k \in spent : holder'[k] = holder[k] /\ left'[k] = left[k] /\ done'[k] = done[k]
<1> SUFFICES ASSUME NEW k \in spent
             PROVE  holder'[k] = holder[k] /\ left'[k] = left[k] /\ done'[k] = done[k]
  OBVIOUS
<1>1. Live(k) /\ k \in Keys
  BY RequestsAssumption DEF Guarded, Live, Occupied
<1>2. k \notin K
  BY <1>1
<1> QED
  BY <1>1, <1>2 DEF Drop, StoreTypes

(* A step of a request leaves every guard in place: what it drops is not
   live, or its own and free of effects. *)
LEMMA StoreKeepsGuard ==
  ASSUME StoreTypes, RequestTypes, Guarded, NEW r \in Requests,
         \/ pc[r] = "begin" /\ BeginStore(r)
         \/ pc[r] = "complete" /\ CompleteStore(r)
         \/ pc[r] \in {"withdraw", "release", "abandon"} /\ AbandonStore(r)
  PROVE  \A k \in spent : /\ holder'[k] \in Requests /\ left'[k] > 0
                          /\ done'[k] \/ holder'[k] \in began
<1> DEFINE x == key[r]
<1>1. x \in Keys /\ spent \subseteq Keys
  BY DEF RequestTypes
<1>2. \A k \in spent : Live(k)
  BY <1>1, RequestsAssumption DEF Guarded, Live, Occupied
<1>3. CASE UNCHANGED entries
  BY <1>3 DEF Guarded, entries
<1>4. ASSUME NEW K, Drop(K), \A k \in K \cap spent : ~Live(k)
      PROVE  \A k \in spent : /\ holder'[k] \in Requests /\ left'[k] > 0
                              /\ done'[k] \/ holder'[k] \in began
  BY <1>1, <1>4, DropKeepsGuard DEF Guarded
<1>5. \A k \in Expired : ~Live(k)
  BY DEF Expired, Live
<1>6. CASE pc[r] = "begin" /\ BeginStore(r)
  <2>1. Outdated(x) \subseteq Expired
    BY <1>1, OutdatedExpired
  <2>2. CASE BeginOutcome(r) \in {"replayed", "conflict"}
    BY <1>3, <1>6, <2>2 DEF BeginStore
  <2>3. CASE BeginOutcome(r) = "full"
    BY <1>4, <1>5, <1>6, <2>1, <2>3 DEF BeginStore
  <2>4. CASE BeginOutcome(r) = "granted"
    <3>1. ~Live(x)
      BY <2>4 DEF BeginOutcome
    <3>2. \A k \in spent : k # x /\ k \notin Outdated(x) /\ k \in Keys
      BY <1>1, <1>2, <1>5, <2>1, <3>1
    <3>3. \A k \in spent : holder'[k] = holder[k] /\ left'[k] = left[k] /\ done'[k] = done[k]
      <4> SUFFICES ASSUME NEW k \in spent
                   PROVE  holder'[k] = holder[k] /\ left'[k] = left[k] /\ done'[k] = done[k]
        OBVIOUS
      <4>1. k # x /\ k \notin Outdated(x) /\ k \in Keys
        BY <3>2
      <4> QED
        BY <1>6, <2>4, <4>1 DEF BeginStore, StoreTypes
    <3> QED
      BY <3>3 DEF Guarded
  <2> QED
    BY <2>2, <2>3, <2>4 DEF BeginOutcome
<1>7. CASE pc[r] = "complete" /\ CompleteStore(r)
  <2>1. CASE CanComplete(r)
    <3>1. \A k \in Keys : /\ holder'[k] = holder[k]
                          /\ k # x => left'[k] = left[k] /\ done'[k] = done[k]
                          /\ k = x => left'[k] = TtlMs /\ done'[k] = TRUE
      BY <1>1, <1>7, <2>1 DEF CompleteStore, CanComplete, Retained, StoreTypes
    <3> QED
      BY <1>1, <3>1, TtlAssumption DEF Guarded
  <2>2. CASE ~CanComplete(r) /\ holder[x] = r
    <3>1. ~Live(x)
      BY <2>2 DEF CanComplete, Live
    <3> QED
      BY <1>4, <1>7, <2>2, <3>1 DEF CompleteStore
  <2> QED
    BY <1>3, <1>7, <2>1, <2>2 DEF CompleteStore
<1>8. CASE pc[r] \in {"withdraw", "release", "abandon"} /\ AbandonStore(r)
  <2>1. r \notin began
    BY <1>8 DEF Guarded, Uncommitted
  <2>2. CanAbandon(r) => x \notin spent
    BY <2>1 DEF CanAbandon, Guarded
  <2>3. x \in Expired => x \notin spent
    BY <1>2, <1>5
  <2> QED
    BY <1>3, <1>4, <1>8, <2>2, <2>3 DEF AbandonStore
<1> QED
  BY <1>6, <1>7, <1>8

(* The requests' side: an effect begins only while the route runs, and a
   request that has begun one only completes. *)
LEMMA RequestKeepsGuard ==
  ASSUME RequestTypes, Guarded, NEW r \in Requests,
         \/ Proceeds(r) \/ EnterHandler(r) \/ BeginEffect(r)
         \/ Renew(r) \/ Abort(r) \/ Crash(r)
  PROVE  \A q \in Requests : pc'[q] \in Uncommitted => q \notin began'
<1> USE DEF RequestTypes, Goto, Uncommitted
<1>0. \A q \in Requests : pc[q] \in Uncommitted => q \notin began
  BY DEF Guarded
<1>1. CASE Arrive(r) \/ Resume(r)
  BY <1>0, <1>1 DEF Arrive, Resume
<1>2. CASE Settle(r)
  BY <1>0, <1>2 DEF Settle
<1>3. CASE Begin(r)
  BY <1>0, <1>3 DEF Begin, Awaits, BeginOutcome
<1>4. CASE Abandon(r)
  BY <1>0, <1>4 DEF Abandon, Awaits, AbandonOutcome
<1>5. CASE Complete(r)
  BY <1>0, <1>5 DEF Complete, Awaits
<1>6. CASE EnterHandler(r) \/ BeginEffect(r)
  BY <1>0, <1>6 DEF EnterHandler, BeginEffect
<1>7. CASE Renew(r) \/ Abort(r) \/ Crash(r)
  BY <1>0, <1>7 DEF Renew, Abort, Crash
<1> QED
  BY <1>1, <1>2, <1>3, <1>4, <1>5, <1>6, <1>7 DEF Proceeds

(* Every step keeps the guards. *)
LEMMA GuardInductive ==
  ASSUME StoreTypes, RequestTypes, Guarded, [Next]_vars
  PROVE  Guarded'
<1> DEFINE Kept == \A k \in spent' : /\ holder'[k] \in Requests /\ left'[k] > 0
                                     /\ done'[k] \/ holder'[k] \in began'
<1>1. spent \subseteq Keys /\ \A k \in Keys : left[k] \in Nat
  BY TtlAssumption DEF RequestTypes, StoreTypes, LongestTtl
<1>2. ASSUME NEW r \in Requests, Proceeds(r) PROVE Kept
  <2>1. CASE Arrive(r) \/ Resume(r) \/ Settle(r)
    BY <2>1 DEF Arrive, Resume, Settle, entries, Guarded
  <2>2. CASE Begin(r) \/ Complete(r) \/ Abandon(r)
    <3>1. UNCHANGED <<spent, began>>
      BY <2>2 DEF Begin, Complete, Abandon, Awaits
    <3>2. CASE UNCHANGED entries
      BY <3>1, <3>2 DEF Guarded, entries
    <3>3. CASE \/ pc[r] = "begin" /\ BeginStore(r)
               \/ pc[r] = "complete" /\ CompleteStore(r)
               \/ pc[r] \in {"withdraw", "release", "abandon"} /\ AbandonStore(r)
      BY <3>1, <3>3, StoreKeepsGuard
    <3> QED
      BY <2>2, <3>2, <3>3 DEF Begin, Complete, Abandon, Awaits
  <2> QED
    BY <1>2, <2>1, <2>2 DEF Proceeds
<1>3. ASSUME NEW r \in Requests, EnterHandler(r) \/ Abort(r) \/ Crash(r) PROVE Kept
  BY <1>3 DEF EnterHandler, Abort, Crash, entries, Guarded
<1>4. ASSUME NEW r \in Requests, BeginEffect(r) PROVE Kept
  BY <1>4 DEF BeginEffect, entries, Guarded
<1>5. ASSUME NEW r \in Requests, Renew(r) PROVE Kept
  BY <1>1, <1>5, TtlAssumption DEF Renew, Guarded, StoreTypes, RequestTypes
<1>6. ASSUME Sweep PROVE Guarded'
  <2>1. \A k \in Expired : ~Live(k)
    BY DEF Expired, Live
  <2>2. \A k \in spent : holder'[k] = holder[k] /\ left'[k] = left[k] /\ done'[k] = done[k]
    BY <1>1, <1>6, <2>1, DropKeepsGuard DEF Sweep
  <2> QED
    BY <1>6, <2>2 DEF Sweep, Guarded
<1>7. ASSUME Tick PROVE Guarded'
  <2>1. UNCHANGED <<pc, holder, done, began>> /\ spent' = spent \ {k \in Keys : left[k] = 1}
    BY <1>7 DEF Tick
  <2>2. \A k \in spent' : left'[k] > 0
    <3> SUFFICES ASSUME NEW k \in spent' PROVE left'[k] > 0
      OBVIOUS
    <3>1. k \in Keys /\ left[k] \in Nat /\ left[k] > 0 /\ left[k] # 1
      BY <1>1, <2>1 DEF Guarded
    <3>2. left'[k] = left[k] - 1
      BY <1>7, <3>1 DEF Tick
    <3> QED
      BY <3>1, <3>2
  <2> QED
    BY <2>1, <2>2 DEF Guarded
<1>8. ASSUME UNCHANGED vars PROVE Guarded'
  BY <1>8 DEF vars, entries, Guarded
<1> QED
  BY <1>2, <1>3, <1>4, <1>5, <1>6, <1>7, <1>8, RequestKeepsGuard DEF Next, Guarded

-----------------------------------------------------------------------------
(* What follows *)

Inv == Exact /\ RequestTypes /\ Guarded

(* The invariant holds at the start and is kept. *)
LEMMA Inductive == (Init => Inv) /\ (Inv /\ [Next]_vars => Inv')
<1>1. Init => Guarded
  BY DEF Init, Guarded
<1> QED
  BY <1>1, ExactInit, ExactInductive, GuardInductive DEF Inv, Exact

(* A step by which a request gets from begin() to its outcome is begin()'s,
   and the outcome is what begin() finds. *)
LEMMA BeginDecides ==
  ASSUME RequestTypes, [Next]_vars, NEW r \in Requests,
         pc[r] = "begin", pc'[r] \in {"granted", "full"}
  PROVE  BeginOutcome(r) = pc'[r]
<1> USE DEF RequestTypes, Goto
<1>1. ASSUME NEW q \in Requests, Arrive(q) \/ Resume(q) \/ Settle(q) PROVE FALSE
  BY <1>1 DEF Arrive, Resume, Settle
<1>2. ASSUME NEW q \in Requests, Abandon(q) PROVE FALSE
  BY <1>2 DEF Abandon, Awaits
<1>3. ASSUME NEW q \in Requests, Complete(q) PROVE FALSE
  BY <1>3 DEF Complete, Awaits
<1>4. ASSUME NEW q \in Requests, \/ EnterHandler(q) \/ BeginEffect(q) \/ Renew(q)
                                 \/ Abort(q) \/ Crash(q)
      PROVE  FALSE
  BY <1>4 DEF EnterHandler, BeginEffect, Renew, Abort, Crash
<1>5. ASSUME Sweep \/ Tick \/ UNCHANGED vars PROVE FALSE
  BY <1>5 DEF Sweep, Tick, vars
<1>6. ASSUME NEW q \in Requests, Begin(q) PROVE BeginOutcome(r) = pc'[r]
  BY <1>6 DEF Begin, Awaits
<1> QED
  BY <1>1, <1>2, <1>3, <1>4, <1>5, <1>6 DEF Next, Proceeds

(* The store and the gate keep their types; in particular no tenant's count
   ever goes below zero. *)
THEOREM TypeCorrect == Spec => []TypeOK
<1>1. Inv => TypeOK
  BY TypeParts DEF Inv, Exact
<1> QED
  BY <1>1, Inductive, PTL DEF Spec

(* Whatever drops an entry, the per-namespace counts follow. *)
THEOREM NamespacesAlwaysExact == Spec => []NamespacesAreExact
<1>1. Inv => NamespacesAreExact
  BY DEF Inv, Exact
<1> QED
  BY <1>1, Inductive, PTL DEF Spec

(* A key under which an effect has begun is not granted to a retry while
   the lease or the response that guards it lasts. *)
THEOREM GrantsAreAlwaysSafe == Spec => GrantsAreSafe
<1> DEFINE Kept == \A r \in Requests :
                     pc[r] = "begin" /\ pc'[r] = "granted" => key[r] \notin spent
<1>1. ASSUME Inv, [Next]_vars PROVE Kept
  <2> SUFFICES ASSUME NEW r \in Requests, pc[r] = "begin", pc'[r] = "granted"
               PROVE  key[r] \notin spent
    OBVIOUS
  <2>1. ~Live(key[r])
    BY <1>1, BeginDecides DEF Inv, BeginOutcome
  <2>2. key[r] \in Keys
    BY <1>1 DEF Inv, RequestTypes
  <2> QED
    BY <1>1, <2>1, <2>2, RequestsAssumption DEF Inv, Guarded, Live, Occupied
<1>2. Spec => []Inv
  BY Inductive, PTL DEF Spec
<1>3. Spec => [][Kept]_vars
  BY <1>1, <1>2, PTL DEF Spec
<1> QED
  BY <1>3 DEF GrantsAreSafe

(* Only live entries ever turn a new key away. *)
THEOREM CapacityIsAlwaysReal == Spec => CapacityIsReal
<1> DEFINE Kept == \A r \in Requests :
                     pc[r] = "begin" /\ pc'[r] = "full" =>
                       LET K == {k \in Keys : Live(k)} IN
                       \/ Cardinality(K) >= MaxEntries
                       \/ Cardinality(Of(NamespaceOf[key[r]], K)) >= MaxPerNamespace
<1>1. ASSUME Inv, [Next]_vars PROVE Kept
  <2> SUFFICES ASSUME NEW r \in Requests, pc[r] = "begin", pc'[r] = "full"
               PROVE  LET K == {k \in Keys : Live(k)} IN
                      \/ Cardinality(K) >= MaxEntries
                      \/ Cardinality(Of(NamespaceOf[key[r]], K)) >= MaxPerNamespace
    OBVIOUS
  <2> DEFINE n == NamespaceOf[key[r]]
  <2>1. Full(n, Outdated(key[r]))
    BY <1>1, BeginDecides DEF Inv, BeginOutcome
  <2>2. Full(n, Expired)
    BY <2>1 DEF Outdated
  <2>3. n \in Namespaces
    BY <1>1, NamespaceOfAssumption DEF Inv, RequestTypes
  <2>4. Occupied \ Expired = {k \in Keys : Live(k)}
    BY <1>1, TtlAssumption DEF Inv, Exact, StoreTypes, LongestTtl, Occupied, Expired, Live
  <2>5. CountWithout(Expired)[n] = Cardinality(Of(n, Occupied \ Expired))
    <3>1. Expired \subseteq Occupied
      BY DEF Expired
    <3> QED
      BY <1>1, <2>3, <3>1, CountsWithout DEF Inv, Exact
  <2> QED
    BY <2>2, <2>4, <2>5 DEF Full
<1>2. Spec => []Inv
  BY Inductive, PTL DEF Spec
<1>3. Spec => [][Kept]_vars
  BY <1>1, <1>2, PTL DEF Spec
<1> QED
  BY <1>3 DEF CapacityIsReal

(* Nothing drops or overwrites an answer that is retained. *)
LEMMA StepKeepsAnswer ==
  ASSUME StoreTypes, RequestTypes, [Next]_vars,
         NEW k \in Keys, done[k], left[k] > 0, holder[k] # NoRequest
  PROVE  done'[k] /\ holder'[k] = holder[k]
<1> USE DEF StoreTypes
<1>1. Live(k) /\ k \notin Expired
  BY TtlAssumption DEF Live, Occupied, Expired, LongestTtl
<1>2. ASSUME NEW K, Drop(K), k \notin K PROVE done'[k] /\ holder'[k] = holder[k]
  BY <1>2 DEF Drop
<1>3. ASSUME UNCHANGED entries PROVE done'[k] /\ holder'[k] = holder[k]
  BY <1>3 DEF entries
<1>4. ASSUME NEW r \in Requests, BeginStore(r) PROVE done'[k] /\ holder'[k] = holder[k]
  <2>1. key[r] \in Keys
    BY DEF RequestTypes
  <2>2. k \notin Outdated(key[r])
    BY <1>1, <2>1, OutdatedExpired
  <2>3. CASE BeginOutcome(r) = "granted"
    <3>1. k # key[r]
      BY <1>1, <2>3 DEF BeginOutcome
    <3> QED
      BY <1>4, <2>2, <2>3, <3>1 DEF BeginStore
  <2> QED
    BY <1>2, <1>3, <1>4, <2>2, <2>3 DEF BeginStore, BeginOutcome
<1>5. ASSUME NEW r \in Requests, CompleteStore(r) PROVE done'[k] /\ holder'[k] = holder[k]
  <2>1. CASE CanComplete(r)
    BY <1>5, <2>1 DEF CompleteStore, CanComplete
  <2>2. CASE ~CanComplete(r)
    BY <1>2, <1>3, <1>5, <2>2 DEF CompleteStore, CanComplete
  <2> QED
    BY <2>1, <2>2
<1>6. ASSUME NEW r \in Requests, AbandonStore(r) PROVE done'[k] /\ holder'[k] = holder[k]
  BY <1>1, <1>2, <1>3, <1>6 DEF AbandonStore, CanAbandon
<1>7. ASSUME NEW r \in Requests, Proceeds(r) PROVE done'[k] /\ holder'[k] = holder[k]
  BY <1>3, <1>4, <1>5, <1>6, <1>7
     DEF Proceeds, Arrive, Begin, Resume, Settle, Abandon, Complete, Awaits
<1>8. ASSUME NEW r \in Requests,
             EnterHandler(r) \/ BeginEffect(r) \/ Renew(r) \/ Abort(r) \/ Crash(r)
      PROVE  done'[k] /\ holder'[k] = holder[k]
  BY <1>3, <1>8 DEF EnterHandler, BeginEffect, Renew, Abort, Crash
<1>9. CASE Sweep \/ Tick \/ UNCHANGED vars
  BY <1>1, <1>2, <1>3, <1>9 DEF Sweep, Tick, vars
<1> QED
  BY <1>7, <1>8, <1>9 DEF Next

(* An entry with a response has a reservation. *)
AnsweredHeld == \A k \in Keys : done[k] => holder[k] # NoRequest

(* A stored response stays as it is, and whose it is, while it is retained. *)
THEOREM AnswersAreAlwaysKept == Spec => AnswersAreKept
<1> DEFINE Kept == \A k \in Keys :
                     done[k] /\ left[k] > 0 => done'[k] /\ holder'[k] = holder[k]
<1>1. Init => AnsweredHeld
  BY DEF Init, AnsweredHeld
<1>2. ASSUME Inv, AnsweredHeld, [Next]_vars PROVE Kept
  BY <1>2, StepKeepsAnswer DEF Inv, Exact, AnsweredHeld
<1>3. ASSUME Inv, AnsweredHeld, [Next]_vars PROVE AnsweredHeld'
  <2> USE DEF AnsweredHeld, Inv, Exact, StoreTypes, RequestTypes
  <2>1. ASSUME NEW K, Drop(K) PROVE AnsweredHeld'
    BY <1>3, <2>1 DEF Drop
  <2>2. ASSUME UNCHANGED entries PROVE AnsweredHeld'
    BY <1>3, <2>2 DEF entries
  <2>3. ASSUME NEW r \in Requests, BeginStore(r) PROVE AnsweredHeld'
    <3>1. CASE BeginOutcome(r) = "granted"
      <4> DEFINE x == key[r]
                 K == Outdated(x)
      <4>1. /\ done' = [k \in Keys |-> k # x /\ k \notin K /\ done[k]]
            /\ holder' = [k \in Keys |-> IF k = x THEN r
                                         ELSE IF k \in K THEN NoRequest ELSE holder[k]]
        BY <2>3, <3>1 DEF BeginStore
      <4> HIDE DEF x, K
      <4> QED
        BY <1>3, <4>1
    <3> QED
      BY <2>1, <2>2, <2>3, <3>1 DEF BeginStore, BeginOutcome
  <2>4. ASSUME NEW r \in Requests, CompleteStore(r) PROVE AnsweredHeld'
    <3>1. CASE CanComplete(r)
      BY <1>3, <2>4, <3>1, RequestsAssumption DEF CompleteStore, CanComplete
    <3> QED
      BY <2>1, <2>2, <2>4, <3>1 DEF CompleteStore
  <2>5. ASSUME NEW r \in Requests, AbandonStore(r) PROVE AnsweredHeld'
    BY <2>1, <2>2, <2>5 DEF AbandonStore
  <2>6. ASSUME NEW r \in Requests, Proceeds(r) PROVE AnsweredHeld'
    BY <2>2, <2>3, <2>4, <2>5, <2>6
       DEF Proceeds, Arrive, Begin, Resume, Settle, Abandon, Complete, Awaits
  <2>7. ASSUME NEW r \in Requests,
               EnterHandler(r) \/ BeginEffect(r) \/ Renew(r) \/ Abort(r) \/ Crash(r)
        PROVE  AnsweredHeld'
    BY <1>3, <2>2, <2>7 DEF EnterHandler, BeginEffect, Renew, Abort, Crash
  <2>8. CASE Sweep \/ Tick \/ UNCHANGED vars
    BY <1>3, <2>1, <2>2, <2>8 DEF Sweep, Tick, vars
  <2> QED
    BY <1>3, <2>6, <2>7, <2>8 DEF Next
<1>4. Spec => [](Inv /\ AnsweredHeld)
  BY <1>1, <1>3, Inductive, PTL DEF Spec
<1>5. Spec => [][Kept]_vars
  BY <1>2, <1>4, PTL DEF Spec
<1> QED
  BY <1>5 DEF AnswersAreKept
=============================================================================
