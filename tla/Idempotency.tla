----------------------------- MODULE Idempotency -----------------------------
(***************************************************************************)
(* Request idempotency: the reservations of MemoryIdempotencyStore         *)
(* (packages/core/src/idempotency.ts) and the gate that takes a request    *)
(* through them (admit() in packages/core/src/server/idempotency-lane.ts). *)
(*                                                                         *)
(* The gate awaits every store operation, so each is one step, and the     *)
(* route runs between them.  A request is used once; a retry is another    *)
(* request with the same key.  The reservation begin() draws is named by   *)
(* the request it draws it for, and a stored response by the request that  *)
(* produced it.  Keys are storage keys: a namespace and a client's key.    *)
(*                                                                         *)
(* A handler starts its effects before it settles.  Responses and bodies   *)
(* are left out, but for which request's they are; so is what a replay     *)
(* goes through before the stored response is sent.                        *)
(***************************************************************************)
EXTENDS Naturals, FiniteSets

CONSTANTS
  Requests,        \* requests with a valid key
  NoRequest,       \* no entry in the store
  Keys,            \* storage keys
  Namespaces,      \* tenants
  NamespaceOf,     \* the tenant of each key
  Prints,          \* request fingerprints
  MaxEntries,      \* MemoryIdempotencyStoreOptions.maxEntries
  MaxPerNamespace, \* MemoryIdempotencyStoreOptions.maxEntriesPerNamespace
  TtlMs,           \* retention of a response, in ticks
  PendingTtlMs,    \* lease of a reservation, in ticks
  MaxFailures,     \* bound: store operations that throw
  MaxCrashes       \* bound: requests whose process dies

ASSUME RequestsAssumption == NoRequest \notin Requests
ASSUME KeysAssumption == IsFiniteSet(Keys)
ASSUME NamespaceOfAssumption == NamespaceOf \in [Keys -> Namespaces]
ASSUME CapacityAssumption == MaxEntries \in Nat \ {0} /\ MaxPerNamespace \in Nat \ {0}
ASSUME TtlAssumption == TtlMs \in Nat \ {0} /\ PendingTtlMs \in Nat \ {0}
ASSUME IdempotencyBoundsAssumption == MaxFailures \in Nat /\ MaxCrashes \in Nat

VARIABLES
  holder, \* MemoryEntry.reservation of each key, NoRequest if it has no entry
  print,  \* MemoryEntry.fingerprint
  done,   \* MemoryEntry.response is set
  left,   \* MemoryEntry.expiresAt - now, 0 once it has passed
  count,  \* the store's perNamespace
  pc,     \* what each request does or waits for
  key,    \* its storage key
  body,   \* its fingerprint
  aborted, \* requests past their deadline, or given up by their client
  entered, \* requests whose handler was entered
  began,  \* requests of which an owned effect has begun
  spent,  \* history: keys with an effect begun under a lease or response that has not run out
  failures, crashes

entries == <<holder, print, done, left, count>>
vars == <<entries, pc, key, body, aborted, entered, began, spent, failures, crashes>>

Label == {"arriving", "begin", "granted", "running", "abandon", "complete",
          "withdraw", "release", "conflict", "full", "replayed", "answered", "lost",
          "timedOut", "failed", "dead"}

LongestTtl == IF PendingTtlMs > TtlMs THEN PendingTtlMs ELSE TtlMs

TypeOK ==
  /\ holder \in [Keys -> Requests \cup {NoRequest}]
  /\ print \in [Keys -> Prints]
  /\ done \in [Keys -> BOOLEAN]
  /\ left \in [Keys -> 0..LongestTtl]
  /\ count \in [Namespaces -> Nat]
  /\ pc \in [Requests -> Label]
  /\ key \in [Requests -> Keys]
  /\ body \in [Requests -> Prints]
  /\ aborted \subseteq Requests /\ entered \subseteq Requests /\ began \subseteq Requests
  /\ spent \subseteq Keys
  /\ failures \in 0..MaxFailures
  /\ crashes \in 0..MaxCrashes

(* Which key and body a request comes with is settled at the start. *)
Init ==
  /\ holder = [k \in Keys |-> NoRequest]
  /\ print \in {[k \in Keys |-> p] : p \in Prints}
  /\ done = [k \in Keys |-> FALSE]
  /\ left = [k \in Keys |-> 0]
  /\ count = [n \in Namespaces |-> 0]
  /\ pc = [r \in Requests |-> "arriving"]
  /\ key \in [Requests -> Keys]
  /\ body \in [Requests -> Prints]
  /\ aborted = {} /\ entered = {} /\ began = {} /\ spent = {}
  /\ failures = 0 /\ crashes = 0

-----------------------------------------------------------------------------
(* MemoryIdempotencyStore: begin(), complete(), abandon(), renew(), sweep() *)

Occupied == {k \in Keys : holder[k] # NoRequest}
Expired == {k \in Occupied : left[k] = 0}
Live(k) == k \in Occupied /\ left[k] > 0

Of(n, K) == {k \in K : NamespaceOf[k] = n}

CountWithout(K) == [n \in Namespaces |-> count[n] - Cardinality(Of(n, K))]

(* drop(), of some entries at once. *)
Drop(K) ==
  /\ holder' = [k \in Keys |-> IF k \in K THEN NoRequest ELSE holder[k]]
  /\ done' = [k \in Keys |-> k \notin K /\ done[k]]
  /\ left' = [k \in Keys |-> IF k \in K THEN 0 ELSE left[k]]
  /\ count' = CountWithout(K)
  /\ UNCHANGED print

(* full(), once some entries are dropped. *)
Full(n, K) ==
  \/ Cardinality(Occupied \ K) >= MaxEntries
  \/ CountWithout(K)[n] >= MaxPerNamespace

(* What begin() drops: the key's own expired entry, and all expired ones if
   that leaves no room. *)

(* Mutant: nothing is swept. *)
OutdatedOwn(k) == {k} \cap Expired
Outdated(k) ==
  LET own == {k} \cap Expired IN
  IF Full(NamespaceOf[k], own) THEN Expired ELSE own

BeginOutcome(r) ==
  LET k == key[r] IN
  IF Live(k) THEN IF print[k] = body[r] /\ done[k] THEN "replayed" ELSE "conflict"
  ELSE IF Full(NamespaceOf[k], Outdated(k)) THEN "full" ELSE "granted"

BeginStore(r) ==
  LET k == key[r]
      K == Outdated(k)
  IN CASE BeginOutcome(r) \in {"replayed", "conflict"} -> UNCHANGED entries
       [] BeginOutcome(r) = "full" -> Drop(K)
       [] BeginOutcome(r) = "granted" ->
            /\ holder' = [x \in Keys |-> IF x = k THEN r
                                         ELSE IF x \in K THEN NoRequest ELSE holder[x]]
            /\ print' = [print EXCEPT ![k] = body[r]]
            /\ done' = [x \in Keys |-> x # k /\ x \notin K /\ done[x]]
            /\ left' = [x \in Keys |-> IF x = k THEN PendingTtlMs
                                       ELSE IF x \in K THEN 0 ELSE left[x]]
            /\ count' = [CountWithout(K) EXCEPT ![NamespaceOf[k]] = @ + 1]

(* Mutants: a response is stored whoever holds the key; a response is
   stored without the key's lease. *)
CanCompleteAny(r) == Live(key[r])
CanComplete(r) == holder[key[r]] = r /\ left[key[r]] > 0

Retained(k) == TtlMs

CompleteStore(r) ==
  LET k == key[r] IN
  IF CanComplete(r)
  THEN /\ holder' = [holder EXCEPT ![k] = r]
       /\ done' = [done EXCEPT ![k] = TRUE]
       /\ left' = [left EXCEPT ![k] = Retained(k)]
       /\ UNCHANGED <<print, count>>
  ELSE IF holder[k] = r THEN Drop({k})
  ELSE UNCHANGED entries

CanAbandon(r) == Live(key[r]) /\ holder[key[r]] = r /\ ~done[key[r]]

AbandonStore(r) ==
  IF key[r] \in Expired \/ CanAbandon(r) THEN Drop({key[r]}) ELSE UNCHANGED entries

(* Callers may sweep at any time. *)
Sweep ==
  /\ Expired # {}
  /\ Drop(Expired)
  /\ UNCHANGED <<pc, key, body, aborted, entered, began, spent, failures, crashes>>

-----------------------------------------------------------------------------
(* admit(): the gate *)

Goto(r, l) == pc' = [pc EXCEPT ![r] = l]

(* A store operation answers; or it throws, having taken place or not, and
   the gate fails the request. *)
Awaits(r, operation, outcome) ==
  /\ \/ operation /\ Goto(r, outcome) /\ UNCHANGED failures
     \/ /\ failures < MaxFailures
        /\ failures' = failures + 1
        /\ operation \/ UNCHANGED entries
        /\ Goto(r, "failed")
  /\ UNCHANGED <<key, body, aborted, entered, began, spent, crashes>>

(* Past the deadline nothing is claimed. *)
Arrive(r) ==
  /\ pc[r] = "arriving"
  /\ Goto(r, IF r \in aborted THEN "timedOut" ELSE "begin")
  /\ UNCHANGED <<entries, key, body, aborted, entered, began, spent, failures, crashes>>

Begin(r) ==
  /\ pc[r] = "begin"
  /\ Awaits(r, BeginStore(r), BeginOutcome(r))

(* The program goes on, unless the deadline has passed since. *)
Resume(r) ==
  /\ pc[r] = "granted"
  /\ Goto(r, IF r \in aborted THEN "withdraw" ELSE "running")
  /\ UNCHANGED <<entries, key, body, aborted, entered, began, spent, failures, crashes>>

EnterHandler(r) ==
  /\ pc[r] = "running"
  /\ r \notin entered
  /\ entered' = entered \cup {r}
  /\ UNCHANGED <<entries, pc, key, body, aborted, began, spent, failures, crashes>>

(* An owned effect begins, in the handler or in a hook before it. *)
BeginEffect(r) ==
  /\ pc[r] = "running"
  /\ r \notin began
  /\ began' = began \cup {r}
  /\ spent' = IF holder[key[r]] = r /\ left[key[r]] > 0 THEN spent \cup {key[r]} ELSE spent
  /\ UNCHANGED <<entries, pc, key, body, aborted, entered, failures, crashes>>

(* The route throws, or its response cannot be read; it refuses, or answers
   before its handler; or it answers for good. *)

(* Mutant: a refusal releases the key although an effect has begun. *)
SettleRefused(r) ==
  /\ pc[r] = "running"
  /\ \/ r \notin began /\ Goto(r, "release")
     \/ Goto(r, "abandon")
     \/ r \in began \cup entered /\ Goto(r, "complete")
  /\ UNCHANGED <<entries, key, body, aborted, entered, began, spent, failures, crashes>>
Settle(r) ==
  /\ pc[r] = "running"
  /\ \/ r \notin began /\ Goto(r, "release")
     \/ r \notin began /\ Goto(r, "abandon")
     \/ r \in began \cup entered /\ Goto(r, "complete")
  /\ UNCHANGED <<entries, key, body, aborted, entered, began, spent, failures, crashes>>

AbandonOutcome(r) ==
  CASE pc[r] = "withdraw" -> "timedOut"
    [] pc[r] = "release" -> "answered"
    [] OTHER -> IF CanAbandon(r) THEN "answered" ELSE "lost"

Abandon(r) ==
  /\ pc[r] \in {"withdraw", "release", "abandon"}
  /\ Awaits(r, AbandonStore(r), AbandonOutcome(r))

Complete(r) ==
  /\ pc[r] = "complete"
  /\ Awaits(r, CompleteStore(r), IF CanComplete(r) THEN "answered" ELSE "lost")

-----------------------------------------------------------------------------
(* The heartbeat, and the surroundings *)

(* Mutant: the heartbeat is never cleared. *)
BeatsOn == {"running", "release", "abandon", "complete", "answered", "lost", "failed"}
Beats == {"running", "release", "abandon", "complete"}

Renew(r) ==
  /\ pc[r] \in Beats
  /\ holder[key[r]] = r /\ ~done[key[r]] /\ left[key[r]] > 0
  /\ left[key[r]] # PendingTtlMs
  /\ left' = [left EXCEPT ![key[r]] = PendingTtlMs]
  /\ UNCHANGED <<holder, print, done, count, pc, key, body, aborted, entered, began,
                 spent, failures, crashes>>

Abort(r) ==
  /\ pc[r] \in {"arriving", "begin", "granted"}
  /\ r \notin aborted
  /\ aborted' = aborted \cup {r}
  /\ UNCHANGED <<entries, pc, key, body, entered, began, spent, failures, crashes>>

Crash(r) ==
  /\ pc[r] \in {"begin", "granted", "withdraw"} \cup Beats
  /\ crashes < MaxCrashes
  /\ crashes' = crashes + 1
  /\ Goto(r, "dead")
  /\ UNCHANGED <<entries, key, body, aborted, entered, began, spent, failures>>

Tick ==
  /\ \E k \in Keys : left[k] > 0
  /\ left' = [k \in Keys |-> IF left[k] > 0 THEN left[k] - 1 ELSE 0]
  /\ spent' = spent \ {k \in Keys : left[k] = 1}
  /\ UNCHANGED <<holder, print, done, count, pc, key, body, aborted, entered, began,
                 failures, crashes>>

-----------------------------------------------------------------------------
(* What becomes of a request on its own. *)
Proceeds(r) ==
  Arrive(r) \/ Begin(r) \/ Resume(r) \/ Settle(r) \/ Abandon(r) \/ Complete(r)

Next ==
  \/ \E r \in Requests :
       \/ Proceeds(r)
       \/ EnterHandler(r) \/ BeginEffect(r)
       \/ Renew(r) \/ Abort(r) \/ Crash(r)
  \/ Sweep
  \/ Tick

Spec == Init /\ [][Next]_vars

(* Routes settle and the store answers; heartbeats may be late, and nobody
   need call sweep(). *)
Fairness == WF_vars(Tick) /\ \A r \in Requests : WF_vars(Proceeds(r))

FairSpec == Spec /\ Fairness

-----------------------------------------------------------------------------
(* Properties *)

(* "A committed or ambiguous effect must never be repeated": nobody is
   granted a key under which an effect has begun, until the lease or the
   response that guards it has run out. *)
GrantsAreSafe ==
  [][\A r \in Requests :
       pc[r] = "begin" /\ pc'[r] = "granted" => key[r] \notin spent]_vars

(* A stored response is neither replaced nor evicted while it is retained:
   every replay sends the same one, and a request whose lease ran out
   cannot overwrite its successor's. *)
AnswersAreKept ==
  [][\A k \in Keys :
       done[k] /\ left[k] > 0 => done'[k] /\ holder'[k] = holder[k]]_vars

(* The store's per-namespace counts are those of its entries, whoever
   drops them. *)
NamespacesAreExact ==
  \A n \in Namespaces : count[n] = Cardinality(Of(n, Occupied))

(* begin() turns a key away for lack of room only if live entries take it
   all up, or all of the tenant's share: expired ones never do. *)
CapacityIsReal ==
  [][\A r \in Requests :
       pc[r] = "begin" /\ pc'[r] = "full" =>
         LET K == {k \in Keys : Live(k)} IN
         \/ Cardinality(K) >= MaxEntries
         \/ Cardinality(Of(NamespaceOf[key[r]], K)) >= MaxPerNamespace]_vars

(* No key stays reserved for ever: whether its request settles, fails or
   dies, the reservation is completed, released or runs out. *)
KeysFree ==
  \A k \in Keys : (Live(k) /\ ~done[k]) ~> ~(Live(k) /\ ~done[k])
=============================================================================
