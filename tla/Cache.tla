-------------------------------- MODULE Cache --------------------------------
(***************************************************************************)
(* createCache() (packages/cache/src/cache.ts): wrap() with its shared     *)
(* loads and background refreshes, and set(), delete(), invalidateTag()    *)
(* and clear(), which withdraw the loads they cover.                       *)
(*                                                                         *)
(* The store is asynchronous: an operation takes place some time after it  *)
(* is sent, in any order with others, and is answered as it takes place.   *)
(* A store without fence() belongs to one cache; several may share one     *)
(* that has it.  Each call is made once.  What a loader reads is a version *)
(* of the data, which changes by itself; set() is called with the current  *)
(* one.                                                                    *)
(***************************************************************************)
EXTENDS MemoryCache

CONSTANTS
  Caches,      \* createCache() instances over the store
  Calls,       \* calls of their methods
  NoCall,      \* no load
  Ops,         \* what calls ask for
  TagSets,     \* the tags they may give
  MaxFailures  \* bound: store operations and loaders that throw

ASSUME CachesAssumption == Caches # {} /\ Keys # {}
ASSUME CallsAssumption == NoCall \notin Calls
ASSUME OpsAssumption == Ops \subseteq {"wrap", "set", "delete", "invalidateTag", "clear"}
ASSUME TagSetsAssumption == TagSets \subseteq SUBSET Tags
ASSUME CacheBoundsAssumption == MaxFailures \in Nat

VARIABLES
  fencing,   \* the store has fence() and setIfFence()
  source,    \* the current version of the data
  pc,        \* what each call waits for
  op, at, key, tags, \* its method, its cache and its arguments
  version,   \* the version it was called with, or its load has read
  covered,   \* a change's covered writes
  joined,    \* the load a wrap() waits for
  load,      \* the load a wrap() has started
  inflight,  \* inflight, of each cache
  withdrawn, \* loads with their `withdrawn` set
  unstorable, \* loads without `storable`
  token,     \* fenced.token of each load
  keyFloor, tagFloor, \* history: the version of a cache's latest answered change
  failures

callVars == <<op, at, key, tags>>
loadVars == <<load, inflight, withdrawn, unstorable, token>>
floors == <<keyFloor, tagFloor>>
cacheVars == <<storeVars, fencing, source, pc, callVars, version, covered, joined, loadVars,
          floors, failures>>

(* The one cache of a store without fence(). *)
Home == CHOOSE x \in Caches : TRUE

CacheTypeOK ==
  /\ StoreTypeOK
  /\ fencing \in BOOLEAN
  /\ source \in Version
  /\ pc \in [Calls -> {"idle", "get", "miss", "stale", "join", "after", "write", "done"}]
  /\ op \in [Calls -> Ops \cup {"none"}]
  /\ at \in [Calls -> Caches] /\ key \in [Calls -> Keys] /\ tags \in [Calls -> SUBSET Tags]
  /\ version \in [Calls -> Version]
  /\ covered \in [Calls -> SUBSET Calls]
  /\ joined \in [Calls -> Calls \cup {NoCall}]
  /\ load \in [Calls -> {"none", "fence", "loading", "loaded", "storing", "over"}]
  /\ inflight \in [Caches -> [Keys -> Calls \cup {NoCall}]]
  /\ withdrawn \subseteq Calls /\ unstorable \subseteq Calls
  /\ token \in [Calls -> 0..epoch]
  /\ keyFloor \in [Caches -> [Keys -> Version]]
  /\ tagFloor \in [Caches -> [Tags -> Version]]
  /\ failures \in 0..MaxFailures

CacheInit ==
  /\ StoreInit
  /\ fencing \in BOOLEAN
  /\ source = 0
  /\ pc = [c \in Calls |-> "idle"]
  /\ op = [c \in Calls |-> "none"]
  /\ at = [c \in Calls |-> Home]
  /\ key = [c \in Calls |-> CHOOSE k \in Keys : TRUE]
  /\ tags = [c \in Calls |-> {}]
  /\ version = [c \in Calls |-> 0]
  /\ covered = [c \in Calls |-> {}]
  /\ joined = [c \in Calls |-> NoCall]
  /\ load = [c \in Calls |-> "none"]
  /\ inflight = [x \in Caches |-> [k \in Keys |-> NoCall]]
  /\ withdrawn = {} /\ unstorable = {}
  /\ token = [c \in Calls |-> 0]
  /\ keyFloor = [x \in Caches |-> [k \in Keys |-> 0]]
  /\ tagFloor = [x \in Caches |-> [t \in Tags |-> 0]]
  /\ failures = 0

-----------------------------------------------------------------------------
Goto(c, l) == pc' = [pc EXCEPT ![c] = l]

Fails == failures < MaxFailures /\ failures' = failures + 1

Users == IF fencing THEN Caches ELSE {Home}

Asked(c, o, x, k, ts) ==
  /\ pc[c] = "idle" /\ o \in Ops /\ x \in Users
  /\ op' = [op EXCEPT ![c] = o]
  /\ at' = [at EXCEPT ![c] = x]
  /\ key' = [key EXCEPT ![c] = k]
  /\ tags' = [tags EXCEPT ![c] = ts]

Loaded(c) == [version |-> version[c], tags |-> tags[c], stale |-> FALSE, loaded |-> TRUE]
Given(c) == [version |-> version[c], tags |-> tags[c], stale |-> FALSE, loaded |-> FALSE]

-----------------------------------------------------------------------------
(* load() *)

StartLoad(c) ==
  /\ load' = [load EXCEPT ![c] = IF fencing THEN "fence" ELSE "loading"]
  /\ inflight' = [inflight EXCEPT ![at[c]][key[c]] = c]

Settle(c) ==
  /\ load' = [load EXCEPT ![c] = "over"]
  /\ inflight' = IF inflight[at[c]][key[c]] = c
                 THEN [inflight EXCEPT ![at[c]][key[c]] = NoCall]
                 ELSE inflight

(* The store gives a token; without one the load is not stored. *)
Fence(c) ==
  /\ load[c] = "fence"
  /\ load' = [load EXCEPT ![c] = "loading"]
  /\ \/ token' = [token EXCEPT ![c] = StoreFence] /\ UNCHANGED <<unstorable, failures>>
     \/ unstorable' = unstorable \cup {c} /\ Fails /\ UNCHANGED token
  /\ UNCHANGED <<storeVars, fencing, source, pc, callVars, version, covered, joined, inflight,
                 withdrawn, floors>>

(* The loader reads the data, some time before it returns; or it throws. *)
Read(c) ==
  /\ load[c] = "loading"
  /\ load' = [load EXCEPT ![c] = "loaded"]
  /\ version' = [version EXCEPT ![c] = source]
  /\ UNCHANGED <<storeVars, fencing, source, pc, callVars, covered, joined, inflight,
                 withdrawn, unstorable, token, floors, failures>>

Throw(c) ==
  /\ load[c] = "loading"
  /\ Settle(c)
  /\ Fails
  /\ UNCHANGED <<storeVars, fencing, source, pc, callVars, version, covered, joined,
                 withdrawn, unstorable, token, floors>>

Storable(c) == c \notin withdrawn \cup unstorable

Return(c) ==
  /\ load[c] = "loaded"
  /\ IF Storable(c)
     THEN load' = [load EXCEPT ![c] = "storing"] /\ UNCHANGED inflight
     ELSE Settle(c)
  /\ UNCHANGED <<storeVars, fencing, source, pc, callVars, version, covered, joined,
                 withdrawn, unstorable, token, floors, failures>>

(* put(): the store takes the value, or refuses it, or throws. *)
Put(c) ==
  IF fencing THEN StoreSetIfFence(key[c], Loaded(c), token[c]) ELSE StoreSet(key[c], Loaded(c))

Store(c) ==
  /\ load[c] = "storing"
  /\ \/ Put(c) /\ UNCHANGED failures
     \/ Fails /\ (Put(c) \/ UNCHANGED storeVars)
  /\ Settle(c)
  /\ UNCHANGED <<fencing, source, pc, callVars, version, covered, joined, withdrawn,
                 unstorable, token, floors>>

-----------------------------------------------------------------------------
(* wrap() *)

Wrap(c, x, k, ts) ==
  /\ Asked(c, "wrap", x, k, ts)
  /\ Goto(c, "get")
  /\ UNCHANGED <<storeVars, fencing, source, version, covered, joined, loadVars, floors,
                 failures>>

(* A store that throws is a miss. *)
Get(c) ==
  /\ pc[c] = "get"
  /\ LET r == row[key[c]] IN
     \/ /\ Goto(c, IF r = NoRow THEN "miss" ELSE IF r.stale THEN "stale" ELSE "done")
        /\ UNCHANGED failures
     \/ Goto(c, "miss") /\ Fails
  /\ UNCHANGED <<storeVars, fencing, source, callVars, version, covered, joined, loadVars,
                 floors>>

(* A miss joins the load in flight, or starts one. *)
Miss(c) ==
  /\ pc[c] = "miss"
  /\ Goto(c, "join")
  /\ LET f == inflight[at[c]][key[c]] IN
     IF f # NoCall
     THEN joined' = [joined EXCEPT ![c] = f] /\ UNCHANGED <<load, inflight>>
     ELSE joined' = [joined EXCEPT ![c] = c] /\ StartLoad(c)
  /\ UNCHANGED <<storeVars, fencing, source, callVars, version, covered, withdrawn,
                 unstorable, token, floors, failures>>

(* revalidate(): a stale value is served, and refreshed unless it is being. *)
Stale(c) ==
  /\ pc[c] = "stale"
  /\ Goto(c, "done")
  /\ IF inflight[at[c]][key[c]] = NoCall THEN StartLoad(c) ELSE UNCHANGED <<load, inflight>>
  /\ UNCHANGED <<storeVars, fencing, source, callVars, version, covered, joined, withdrawn,
                 unstorable, token, floors, failures>>

Served(c) ==
  /\ pc[c] = "join" /\ load[joined[c]] = "over"
  /\ Goto(c, "done")
  /\ UNCHANGED <<storeVars, fencing, source, callVars, version, covered, joined, loadVars,
                 floors, failures>>

-----------------------------------------------------------------------------
(* set(), delete(), invalidateTag(), clear() *)

(* `writing`: the set() and load writes of a cache that have been sent. *)
Writing(x) ==
  {w \in Calls : at[w] = x /\ (load[w] = "storing" \/ (op[w] = "set" /\ pc[w] = "write"))}

Matching(o, k, ts) ==
  {w \in Calls : CASE o \in {"set", "delete"} -> key[w] = k
                   [] o = "invalidateTag" -> ts \subseteq tags[w]
                   [] o = "clear" -> TRUE}

(* withdraw() *)

(* Mutant: a withdrawn load stays on the table. *)
WithdrawKeeps(x, W) ==
  /\ withdrawn' = withdrawn \cup (W \cap {inflight[x][k] : k \in Keys})
  /\ UNCHANGED inflight
Withdraw(x, W) ==
  /\ withdrawn' = withdrawn \cup (W \cap {inflight[x][k] : k \in Keys})
  /\ inflight' = [inflight EXCEPT
       ![x] = [k \in Keys |-> IF inflight[x][k] \in W THEN NoCall ELSE inflight[x][k]]]

(* A change withdraws the loads it covers and waits, after(), for the
   writes it covers. *)
Covered(x, W) == W \cap Writing(x)

Change(c, o, x, k, ts) ==
  LET W == Matching(o, k, ts) IN
  /\ Asked(c, o, x, k, ts)
  /\ version' = [version EXCEPT ![c] = source]
  /\ Withdraw(x, W)
  /\ covered' = [covered EXCEPT ![c] = Covered(x, W)]
  /\ Goto(c, IF Covered(x, W) = {} THEN "write" ELSE "after")
  /\ UNCHANGED <<storeVars, fencing, source, joined, load, unstorable, token, floors,
                 failures>>

Set(c, x, k, ts) == Change(c, "set", x, k, ts)
Delete(c, x, k) == Change(c, "delete", x, k, {})
InvalidateTag(c, x, t) == Change(c, "invalidateTag", x, key[c], {t})
Clear(c, x) == Change(c, "clear", x, key[c], {})

Send(c) ==
  /\ pc[c] = "after"
  /\ covered[c] \cap Writing(at[c]) = {}
  /\ Goto(c, "write")
  /\ UNCHANGED <<storeVars, fencing, source, callVars, version, covered, joined, loadVars,
                 floors, failures>>

Effect(c) ==
  \/ op[c] = "set" /\ StoreSet(key[c], Given(c))
  \/ op[c] = "delete" /\ StoreDelete(key[c])
  \/ op[c] = "invalidateTag" /\ \E t \in tags[c] : StoreInvalidate(t)
  \/ op[c] = "clear" /\ StoreClear

(* Once the change is answered, nothing older than the data it was called
   with is to be served from what it covers. *)
Promise(c) ==
  LET x == at[c]
      v(old) == IF version[c] > old THEN version[c] ELSE old
  IN /\ keyFloor' = [keyFloor EXCEPT ![x] = [k \in Keys |->
           IF op[c] = "clear" \/ (op[c] \in {"set", "delete"} /\ k = key[c])
           THEN v(keyFloor[x][k]) ELSE keyFloor[x][k]]]
     /\ tagFloor' = [tagFloor EXCEPT ![x] = [t \in Tags |->
           IF op[c] = "invalidateTag" /\ t \in tags[c]
           THEN v(tagFloor[x][t]) ELSE tagFloor[x][t]]]

Write(c) ==
  /\ pc[c] = "write"
  /\ \/ Effect(c) /\ Promise(c) /\ UNCHANGED failures
     \/ Fails /\ (Effect(c) \/ UNCHANGED storeVars) /\ UNCHANGED floors
  /\ Goto(c, "done")
  /\ UNCHANGED <<fencing, source, callVars, version, covered, joined, loadVars>>

-----------------------------------------------------------------------------
SourceChanges ==
  /\ source < MaxSource
  /\ source' = source + 1
  /\ UNCHANGED <<storeVars, fencing, pc, callVars, version, covered, joined, loadVars, floors,
                 failures>>

TimePasses ==
  /\ \E k \in Keys : Age(k)
  /\ UNCHANGED <<fencing, source, pc, callVars, version, covered, joined, loadVars, floors,
                 failures>>

CacheNext ==
  \/ \E c \in Calls :
       \/ \E x \in Caches, k \in Keys, ts \in TagSets : Wrap(c, x, k, ts) \/ Set(c, x, k, ts)
       \/ \E x \in Caches, k \in Keys : Delete(c, x, k)
       \/ \E x \in Caches, t \in Tags : InvalidateTag(c, x, t)
       \/ \E x \in Caches : Clear(c, x)
       \/ Get(c) \/ Miss(c) \/ Stale(c) \/ Served(c)
       \/ Fence(c) \/ Read(c) \/ Throw(c) \/ Return(c) \/ Store(c)
       \/ Send(c) \/ Write(c)
  \/ SourceChanges
  \/ TimePasses

CacheSpec == CacheInit /\ [][CacheNext]_cacheVars

-----------------------------------------------------------------------------
(* Properties *)

(* Nothing older than what cache x's changes of the key and of the tags
   have been answered with. *)
FreshFor(x, k, ts, v) ==
  /\ v >= keyFloor[x][k]
  /\ \A t \in ts : v >= tagFloor[x][t]

(* "a refresh that started before the invalidation cannot write the old
   value back" (packages/cache/src/cache.ts:120): once a change is answered,
   no load stores a value that is older, not even one whose write was
   already on its way or whose cache is another one. *)
LoadsStayFresh ==
  \A k \in Keys :
    row[k] # NoRow /\ row[k].loaded =>
      \A x \in Caches : FreshFor(x, k, row[k].tags, row[k].version)

(* "the next `wrap` loads afresh" (packages/cache/README.md:39): a load a
   wrap() may join has read nothing older than its cache's answered changes. *)
JoinsAreFresh ==
  \A x \in Caches, k \in Keys :
    LET f == inflight[x][k] IN
    f # NoCall /\ load[f] \in {"loaded", "storing"} => FreshFor(x, k, tags[f], version[f])

(* "a set, delete, invalidation or clear waits for this cache's async writes
   it covers, so a store that applies requests out of order cannot land one
   of them after it" (packages/cache/src/cache.ts:122): what set() writes is
   never older than an answered change of the same cache either. *)
WritesStayFresh ==
  \A k \in Keys :
    row[k] # NoRow => FreshFor(Home, k, row[k].tags, row[k].version)
=============================================================================
