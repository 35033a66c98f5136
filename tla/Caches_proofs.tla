---------------------------- MODULE Caches_proofs ----------------------------
(***************************************************************************)
(* Proofs about the two caches that share loads: the server's Cache, for   *)
(* any caches over any store, any calls in any order and any sizes of what *)
(* the store tracks, and QueryClient, for any queries, any number of       *)
(* fetches in flight, any order in which they land, and any number of      *)
(* visitors.  Spec, Init and Next are QueryClient's.                       *)
(*                                                                         *)
(* Cache: what a load may still store (MayStore) is as new as what its own *)
(* cache has answered, because an answered change has withdrawn or waited  *)
(* for the loads it covers.  That is inductive with, for each pair of a    *)
(* change under way and a load it covers, why the load cannot outlive the  *)
(* answer (Newer), and, for the other caches over the store, that a load's *)
(* token has been outrun or its value is fresh for them (OutrunOrFresh).   *)
(*                                                                         *)
(* QueryClient: the safety properties follow from one invariant of an      *)
(* entry, in two strengths.  A Sound entry has at most one fetch that may  *)
(* publish, of the present visitor, and says that it is fetching; it is    *)
(* what an entry is between two halves of a step, once the client has      *)
(* forgotten the last visitor.  A Kept entry is Sound and, if mounted,     *)
(* waits for nothing but a fetch that may publish.                         *)
(***************************************************************************)
EXTENDS Cache, QueryClient, SequenceTheorems, TLAPS

-----------------------------------------------------------------------------
(* THE CACHE: its definitions *)

(* What any operation of the store may do to it. *)
StoreStep ==
  \/ \E k \in Keys : (\E r \in Row : StoreSet(k, r)) \/ StoreDelete(k) \/ Age(k)
  \/ \E t \in Tags : StoreInvalidate(t)
  \/ StoreClear
  \/ UNCHANGED storeVars

(* A change on its way: what it covers is withdrawn, and nothing answered. *)
Pending(d) == pc[d] \in {"after", "write"}

Changes == {"set", "delete", "invalidateTag", "clear"}

(* A load before its call is over. *)
Underway == {"fence", "loading", "loaded", "storing"}

(* A load that a change of its own cache covers. *)
CoveredBy(c, d) == at[c] = at[d] /\ c \in Matching(op[d], key[d], tags[d])

(* What a call is, by what it waits for. *)
Operations ==
  \A c \in Calls :
    /\ pc[c] = "idle" <=> op[c] = "none"
    /\ Pending(c) => op[c] \in Changes
    /\ pc[c] \in {"get", "miss", "stale", "join"} => op[c] = "wrap"
    /\ load[c] # "none" => op[c] = "wrap" /\ pc[c] \in {"join", "done"}
    /\ op[c] = "invalidateTag" => \E t \in Tags : tags[c] = {t}
    /\ version[c] <= source

(* inflight holds, for each key, the one load that has not been withdrawn. *)
Table ==
  /\ \A x \in Caches, k \in Keys : inflight[x][k] # NoCall =>
       LET f == inflight[x][k] IN
       at[f] = x /\ key[f] = k /\ load[f] \in Underway /\ f \notin withdrawn
  /\ \A c \in Calls :
       /\ load[c] \in Underway /\ c \notin withdrawn => inflight[at[c]][key[c]] = c
       /\ load[c] = "none" => c \notin withdrawn
       /\ load[c] = "storing" => c \notin unstorable

(* What has been answered is no newer than the data, and without a fence there
   is one cache. *)
FloorsKnown ==
  /\ \A x \in Caches : /\ \A k \in Keys : keyFloor[x][k] <= source
                       /\ \A t \in Tags : tagFloor[x][t] <= source
  /\ ~fencing => /\ \A c \in Calls : at[c] = Home
                 /\ \A x \in Caches : x # Home => /\ \A k \in Keys : keyFloor[x][k] = 0
                                                  /\ \A t \in Tags : tagFloor[x][t] = 0

(* A load that a change under way covers is as new as the change, or withdrawn
   before it stores, or one of the writes the change waits for. *)
Newer ==
  \A c, d \in Calls :
    Pending(d) /\ load[c] \in {"loaded", "storing"} /\ CoveredBy(c, d) =>
      \/ version[c] >= version[d]
      \/ load[c] = "loaded" /\ c \in withdrawn
      \/ load[c] = "storing" /\ pc[d] = "after" /\ c \in covered[d]

(* A load that may yet store what it has read. *)
MayStore(c) == load[c] = "storing" \/ (load[c] = "loaded" /\ c \notin withdrawn)

(* What may yet be stored is fresh for the cache that loads it. *)
HomeFresh ==
  \A c \in Calls : MayStore(c) => FreshFor(at[c], key[c], tags[c], version[c])

(* With a fence, what may yet be stored is refused by the store, or fresh for
   every cache over it. *)
OutrunOrFresh ==
  fencing => \A c \in Calls :
    load[c] \in {"loaded", "storing"} /\ c \notin unstorable =>
      \/ Outrun(key[c], tags[c], token[c])
      \/ \A x \in Caches : FreshFor(x, key[c], tags[c], version[c])

(* The inductive invariant. *)
CacheInv ==
  /\ CacheTypeOK /\ Operations /\ Table /\ FloorsKnown
  /\ Newer /\ HomeFresh /\ OutrunOrFresh /\ LoadsStayFresh

-----------------------------------------------------------------------------
(* The store *)

(* What record() keeps of the changes: the new one at the new epoch, and each
   of the others, or that something as late has been forgotten. *)
LEMMA RecordKeeps ==
  ASSUME NEW D, NEW changed \in [D -> 0..epoch], NEW x \in D,
         epoch \in Nat, forgottenAt \in 0..epoch
  PROVE  /\ Record(changed, x) \in [D -> 0..(epoch + 1)]
         /\ Record(changed, x)[x] = epoch + 1
         /\ Forgotten(changed, x) \in forgottenAt..epoch
         /\ \A y \in D : \/ Record(changed, x)[y] \in {changed[y], epoch + 1}
                         \/ changed[y] <= Forgotten(changed, x)
<1>1. DOMAIN changed = D /\ \A y \in D : changed[y] \in 0..epoch
  OBVIOUS
<1>2. /\ Record(changed, x) \in [D -> 0..(epoch + 1)]
      /\ Record(changed, x)[x] = epoch + 1
      /\ \A y \in D : y \notin TooOld(changed, x) =>
           Record(changed, x)[y] \in {changed[y], epoch + 1}
  BY <1>1 DEF Record
<1>3. \A y, z \in TooOld(changed, x) : y \in D /\ changed[y] <= changed[z]
  BY <1>1 DEF TooOld, Tracked
<1>4. CASE \E y \in TooOld(changed, x) : changed[y] > forgottenAt
  <2>1. PICK z \in TooOld(changed, x) : Forgotten(changed, x) = changed[z] /\ changed[z] > forgottenAt
    BY <1>4 DEF Forgotten
  <2> QED
    BY <1>1, <1>2, <1>3, <2>1
<1>5. CASE ~ \E y \in TooOld(changed, x) : changed[y] > forgottenAt
  <2>1. Forgotten(changed, x) = forgottenAt
    BY <1>5 DEF Forgotten
  <2>2. \A y \in TooOld(changed, x) : changed[y] <= forgottenAt
    BY <1>1, <1>3, <1>5
  <2> QED
    BY <1>1, <1>2, <2>1, <2>2
<1> QED
  BY <1>4, <1>5

(* The store keeps its types, its epoch never falls, and a token that has been
   outrun stays so: what MAX_TRACKED_CHANGES makes it forget, it remembers as
   forgottenAt. *)
LEMMA StoreMoves ==
  ASSUME StoreTypeOK, StoreStep
  PROVE  /\ StoreTypeOK'
         /\ epoch' >= epoch
         /\ \A k \in Keys, ts \in SUBSET Tags, n \in 0..epoch :
              Outrun(k, ts, n) => Outrun(k, ts, n)'
<1> USE DEF StoreTypeOK
<1>1. ASSUME NEW k \in Keys, KeyChanges(k), row' \in [Keys -> Row \cup {NoRow}]
      PROVE  /\ StoreTypeOK' /\ epoch' >= epoch
             /\ \A j \in Keys, ts \in SUBSET Tags, n \in 0..epoch :
                  Outrun(j, ts, n) => Outrun(j, ts, n)'
  <2>1. /\ keyChanged' \in [Keys -> 0..(epoch + 1)] /\ epoch' = epoch + 1
        /\ forgottenAt' \in forgottenAt..epoch
        /\ \A y \in Keys : keyChanged'[y] \in {keyChanged[y], epoch + 1}
                           \/ keyChanged[y] <= forgottenAt'
    BY <1>1, RecordKeeps DEF KeyChanges
  <2>2. UNCHANGED <<tagChanged, clearedAt>>
    BY <1>1 DEF KeyChanges
  <2>3. StoreTypeOK' /\ epoch' >= epoch
    BY <1>1, <2>1, <2>2
  <2>4. ASSUME NEW j \in Keys, NEW ts \in SUBSET Tags, NEW n \in 0..epoch, Outrun(j, ts, n)
        PROVE  Outrun(j, ts, n)'
    BY <2>1, <2>2, <2>4 DEF Outrun
  <2> QED
    BY <2>3, <2>4
<1>2. CASE \E k \in Keys : (\E r \in Row : StoreSet(k, r)) \/ StoreDelete(k)
  BY <1>1, <1>2 DEF StoreSet, StoreDelete
<1>3. CASE \E k \in Keys : Age(k)
  <2>1. row' \in [Keys -> Row \cup {NoRow}]
    BY <1>3 DEF Age, Row
  <2> QED
    BY <1>3, <2>1 DEF Age, Outrun
<1>4. ASSUME NEW t \in Tags, StoreInvalidate(t)
      PROVE  /\ StoreTypeOK' /\ epoch' >= epoch
             /\ \A j \in Keys, ts \in SUBSET Tags, n \in 0..epoch :
                  Outrun(j, ts, n) => Outrun(j, ts, n)'
  <2>1. /\ tagChanged' \in [Tags -> 0..(epoch + 1)] /\ epoch' = epoch + 1
        /\ forgottenAt' \in forgottenAt..epoch
        /\ \A y \in Tags : tagChanged'[y] \in {tagChanged[y], epoch + 1}
                           \/ tagChanged[y] <= forgottenAt'
    BY <1>4, RecordKeeps DEF StoreInvalidate
  <2>2. UNCHANGED <<keyChanged, clearedAt>> /\ row' \in [Keys -> Row \cup {NoRow}]
    BY <1>4 DEF StoreInvalidate
  <2>3. StoreTypeOK' /\ epoch' >= epoch
    BY <2>1, <2>2
  <2>4. ASSUME NEW j \in Keys, NEW ts \in SUBSET Tags, NEW n \in 0..epoch, Outrun(j, ts, n)
        PROVE  Outrun(j, ts, n)'
    BY <2>1, <2>2, <2>4 DEF Outrun
  <2> QED
    BY <2>3, <2>4
<1>5. CASE StoreClear
  BY <1>5 DEF StoreClear, Outrun
<1>6. CASE UNCHANGED storeVars
  BY <1>6 DEF storeVars, Outrun
<1> QED
  BY <1>2, <1>3, <1>4, <1>5, <1>6 DEF StoreStep

(* What is outrun by a change of key k, of tag t, or by a clear(). *)
LEMMA ChangesOutrun ==
  ASSUME StoreTypeOK, NEW n \in 0..epoch, NEW k \in Keys, NEW ts \in SUBSET Tags
  PROVE  /\ KeyChanges(k) => Outrun(k, ts, n)'
         /\ \A t \in ts : StoreInvalidate(t) => Outrun(k, ts, n)'
         /\ StoreClear => Outrun(k, ts, n)'
<1> USE DEF StoreTypeOK
<1>1. ASSUME KeyChanges(k) PROVE Outrun(k, ts, n)'
  <2>1. keyChanged'[k] = epoch + 1
    BY <1>1, RecordKeeps DEF KeyChanges
  <2> QED
    BY <2>1 DEF Outrun
<1>2. ASSUME NEW t \in ts, StoreInvalidate(t) PROVE Outrun(k, ts, n)'
  <2>1. tagChanged'[t] = epoch + 1
    BY <1>2, RecordKeeps DEF StoreInvalidate
  <2> QED
    BY <2>1 DEF Outrun
<1>3. ASSUME StoreClear PROVE Outrun(k, ts, n)'
  BY <1>3 DEF StoreClear, Outrun
<1> QED
  BY <1>1, <1>2, <1>3

-----------------------------------------------------------------------------
(* Types *)

LEMMA HomeIsOne == Home \in Caches
BY CachesAssumption DEF Home

(* The steps of the cache, its changes as one: each with the call that makes
   it. *)
Begins(c) ==
  \/ \E x \in Caches, k \in Keys, ts \in SUBSET Tags : Wrap(c, x, k, ts)
  \/ \E o \in Changes, x \in Caches, k \in Keys, ts \in SUBSET Tags :
       /\ o = "invalidateTag" => \E t \in Tags : ts = {t}
       /\ Change(c, o, x, k, ts)

GoesOn(c) ==
  \/ Get(c) \/ Miss(c) \/ Stale(c) \/ Served(c)
  \/ Fence(c) \/ Read(c) \/ Throw(c) \/ Return(c) \/ Store(c)
  \/ Send(c) \/ Write(c)

LEMMA CacheSteps ==
  ASSUME CacheTypeOK, [CacheNext]_cacheVars
  PROVE  \/ \E c \in Calls : Begins(c) \/ GoesOn(c)
         \/ SourceChanges \/ TimePasses \/ UNCHANGED cacheVars
<1>1. ASSUME NEW c \in Calls, NEW x \in Caches, NEW k \in Keys, NEW ts \in TagSets,
             Wrap(c, x, k, ts) \/ Set(c, x, k, ts)
      PROVE  Begins(c)
  BY <1>1, TagSetsAssumption DEF Begins, Set, Changes
<1>2. ASSUME NEW c \in Calls, NEW x \in Caches, NEW k \in Keys, Delete(c, x, k)
      PROVE  Begins(c)
  BY <1>2 DEF Begins, Delete, Changes
<1>3. ASSUME NEW c \in Calls, NEW x \in Caches, NEW t \in Tags, InvalidateTag(c, x, t)
      PROVE  Begins(c)
  <2>1. {t} \in SUBSET Tags /\ key[c] \in Keys
    BY DEF CacheTypeOK
  <2> QED
    BY <1>3, <2>1 DEF Begins, InvalidateTag, Changes
<1>4. ASSUME NEW c \in Calls, NEW x \in Caches, Clear(c, x) PROVE Begins(c)
  <2>1. {} \in SUBSET Tags /\ key[c] \in Keys
    BY DEF CacheTypeOK
  <2> QED
    BY <1>4, <2>1 DEF Begins, Clear, Changes
<1> QED
  BY <1>1, <1>2, <1>3, <1>4 DEF CacheNext, GoesOn

LEMMA LoadRows ==
  ASSUME CacheTypeOK, NEW c \in Calls
  PROVE  Loaded(c) \in Row /\ Given(c) \in Row
BY DEF CacheTypeOK, Loaded, Given, Row

(* Every step is a step of the store, or leaves it alone. *)
LEMMA StepsStore == CacheTypeOK /\ [CacheNext]_cacheVars => StoreStep
<1> SUFFICES ASSUME CacheTypeOK, [CacheNext]_cacheVars PROVE StoreStep
  OBVIOUS
<1>1. ASSUME NEW c \in Calls, Store(c) PROVE StoreStep
  <2>1. key[c] \in Keys /\ Loaded(c) \in Row
    BY LoadRows DEF CacheTypeOK
  <2> QED
    BY <1>1, <2>1 DEF Store, Put, StoreSetIfFence, StoreStep
<1>2. ASSUME NEW c \in Calls, Write(c) PROVE StoreStep
  <2>1. key[c] \in Keys /\ tags[c] \subseteq Tags /\ Given(c) \in Row
    BY LoadRows DEF CacheTypeOK
  <2> QED
    BY <1>2, <2>1 DEF Write, Effect, StoreStep
<1>3. CASE TimePasses
  BY <1>3 DEF TimePasses, StoreStep
<1>4. ASSUME UNCHANGED storeVars PROVE StoreStep
  BY <1>4 DEF StoreStep
<1>5. ASSUME NEW c \in Calls, Begins(c) PROVE UNCHANGED storeVars
  BY <1>5 DEF Begins, Wrap, Change
<1>6. ASSUME NEW c \in Calls,
             \/ Get(c) \/ Miss(c) \/ Stale(c) \/ Served(c)
             \/ Fence(c) \/ Read(c) \/ Throw(c) \/ Return(c) \/ Send(c)
      PROVE  UNCHANGED storeVars
  BY <1>6 DEF Get, Miss, Stale, Served, Fence, Read, Throw, Return, Send
<1>7. SourceChanges \/ UNCHANGED cacheVars => UNCHANGED storeVars
  BY DEF SourceChanges, cacheVars
<1> QED
  BY <1>1, <1>2, <1>3, <1>4, <1>5, <1>6, <1>7, CacheSteps DEF GoesOn

(* The types, as the caches begin. *)
LEMMA CacheTypeInit == CacheInit => CacheTypeOK
<1> SUFFICES ASSUME CacheInit PROVE CacheTypeOK
  OBVIOUS
<1> USE CacheBoundsAssumption, SourceAssumption, CachesAssumption
<1>1. StoreTypeOK
  BY DEF CacheInit, StoreInit, StoreTypeOK
<1>2. (CHOOSE k \in Keys : TRUE) \in Keys
  OBVIOUS
<1>3. 0 \in Version /\ epoch = 0
  BY DEF Version, CacheInit, StoreInit
<1> QED
  BY <1>1, <1>2, <1>3, HomeIsOne DEF CacheInit, CacheTypeOK

LEMMA AskedTypes ==
  ASSUME CacheTypeOK, NEW c \in Calls, NEW o, NEW x \in Caches, NEW k \in Keys,
         NEW ts \in SUBSET Tags, Asked(c, o, x, k, ts)
  PROVE  /\ op' \in [Calls -> Ops \cup {"none"}] /\ at' \in [Calls -> Caches]
         /\ key' \in [Calls -> Keys] /\ tags' \in [Calls -> SUBSET Tags]
BY DEF CacheTypeOK, Asked

LEMMA ChangeTypes ==
  ASSUME CacheTypeOK, NEW c \in Calls, NEW o, NEW x \in Caches, NEW k \in Keys,
         NEW ts \in SUBSET Tags, Change(c, o, x, k, ts)
  PROVE  CacheTypeOK'
<1> DEFINE W == Matching(o, k, ts)
<1>1. W \subseteq Calls /\ Covered(x, W) \subseteq Calls
  BY DEF Matching, Covered
<1>2. W \cap {inflight[x][j] : j \in Keys} \subseteq Calls
  BY <1>1
<1>3. withdrawn' \subseteq Calls /\ inflight' \in [Caches -> [Keys -> Calls \cup {NoCall}]]
  BY <1>1 DEF CacheTypeOK, Change, Withdraw
<1>4. Asked(c, o, x, k, ts)
  BY DEF Change
<1>5. /\ pc' \in [Calls -> {"idle", "get", "miss", "stale", "join", "after", "write", "done"}]
      /\ version' \in [Calls -> Version] /\ covered' \in [Calls -> SUBSET Calls]
  BY <1>1 DEF CacheTypeOK, Change, Goto
<1> HIDE DEF W
<1> QED
  BY <1>3, <1>4, <1>5, AskedTypes
  DEF CacheTypeOK, Change, storeVars, StoreTypeOK, floors

LEMMA CacheTypeNext == CacheTypeOK /\ [CacheNext]_cacheVars => CacheTypeOK'
<1> SUFFICES ASSUME CacheTypeOK, [CacheNext]_cacheVars PROVE CacheTypeOK'
  OBVIOUS
<1> USE CacheBoundsAssumption, SourceAssumption, TagSetsAssumption
<1>1. StoreTypeOK' /\ epoch' >= epoch /\ epoch \in Nat /\ epoch' \in Nat
  BY StepsStore, StoreMoves DEF CacheTypeOK, StoreTypeOK
<1>2. token \in [Calls -> 0..epoch']
  BY <1>1 DEF CacheTypeOK
<1>3. ASSUME NEW c \in Calls, NEW x \in Caches, NEW k \in Keys, NEW ts \in SUBSET Tags,
             Wrap(c, x, k, ts)
      PROVE  CacheTypeOK'
  <2>1. /\ op' \in [Calls -> Ops \cup {"none"}] /\ at' \in [Calls -> Caches]
        /\ key' \in [Calls -> Keys] /\ tags' \in [Calls -> SUBSET Tags]
    BY <1>3, AskedTypes DEF Wrap
  <2> QED
    BY <1>1, <1>2, <1>3, <2>1 DEF Wrap, CacheTypeOK, Goto, loadVars, floors
<1>4. ASSUME NEW c \in Calls, Begins(c) PROVE CacheTypeOK'
  BY <1>3, <1>4, ChangeTypes DEF Begins
<1>5. ASSUME NEW c \in Calls, Get(c) \/ Served(c) \/ Send(c) PROVE CacheTypeOK'
  BY <1>1, <1>5 DEF Get, Served, Send, Goto, Fails, CacheTypeOK, callVars, loadVars, floors
<1>6. ASSUME NEW c \in Calls, Miss(c) \/ Stale(c) PROVE CacheTypeOK'
  <2>0. /\ at[c] \in Caches /\ key[c] \in Keys
        /\ inflight[at[c]][key[c]] \in Calls \cup {NoCall}
    BY DEF CacheTypeOK
  <2>1. /\ joined' \in [Calls -> Calls \cup {NoCall}]
        /\ pc' \in [Calls -> {"idle", "get", "miss", "stale", "join", "after", "write", "done"}]
    <3>1. CASE Miss(c)
      BY <2>0, <3>1 DEF Miss, Goto, CacheTypeOK
    <3>2. CASE Stale(c)
      BY <3>2 DEF Stale, Goto, CacheTypeOK
    <3> QED
      BY <1>6, <3>1, <3>2
  <2>2. StartLoad(c) \/ UNCHANGED <<load, inflight>>
    BY <1>6 DEF Miss, Stale
  <2>3. /\ load' \in [Calls -> {"none", "fence", "loading", "loaded", "storing", "over"}]
        /\ inflight' \in [Caches -> [Keys -> Calls \cup {NoCall}]]
    <3>1. inflight \in [Caches -> [Keys -> Calls \cup {NoCall}]]
          /\ load \in [Calls -> {"none", "fence", "loading", "loaded", "storing", "over"}]
      BY DEF CacheTypeOK
    <3> QED
      BY <2>0, <2>2, <3>1 DEF StartLoad
  <2>4. UNCHANGED <<storeVars, fencing, source, callVars, version, covered, withdrawn,
                    unstorable, token, floors, failures>>
    BY <1>6 DEF Miss, Stale
  <2> QED
    BY <1>1, <1>2, <2>1, <2>3, <2>4 DEF CacheTypeOK, callVars, floors
<1>7. ASSUME NEW c \in Calls, Read(c) PROVE CacheTypeOK'
  BY <1>1, <1>2, <1>7 DEF Read, CacheTypeOK, callVars, floors
<1>8. ASSUME NEW c \in Calls, Fence(c) PROVE CacheTypeOK'
  <2>1. epoch' = epoch
    BY <1>8 DEF Fence, storeVars
  <2>2. token' \in [Calls -> 0..epoch'] /\ unstorable' \subseteq Calls
        /\ failures' \in 0..MaxFailures
    <3>1. CASE /\ token' = [token EXCEPT ![c] = StoreFence]
               /\ UNCHANGED <<unstorable, failures>>
      BY <1>1, <2>1, <3>1 DEF StoreFence, CacheTypeOK
    <3>2. CASE unstorable' = unstorable \cup {c} /\ Fails /\ UNCHANGED token
      BY <2>1, <3>2 DEF Fails, CacheTypeOK
    <3> QED
      BY <1>8, <3>1, <3>2 DEF Fence
  <2>3. load' \in [Calls -> {"none", "fence", "loading", "loaded", "storing", "over"}]
    BY <1>8 DEF Fence, CacheTypeOK
  <2>4. UNCHANGED <<fencing, source, pc, callVars, version, covered, joined, inflight,
                    withdrawn, floors>>
    BY <1>8 DEF Fence
  <2> QED
    BY <1>1, <2>2, <2>3, <2>4 DEF CacheTypeOK, callVars, floors
<1>9. ASSUME NEW c \in Calls, Settle(c), failures' \in 0..MaxFailures, StoreTypeOK',
             UNCHANGED <<fencing, source, pc, callVars, version, covered, joined, withdrawn,
                         unstorable, token, floors>>
      PROVE  CacheTypeOK'
  BY <1>1, <1>2, <1>9 DEF Settle, CacheTypeOK, callVars, floors
<1>10. ASSUME NEW c \in Calls, Throw(c) \/ Return(c) \/ Store(c) PROVE CacheTypeOK'
  <2>1. CASE Throw(c) \/ Store(c)
    BY <1>1, <1>9, <2>1 DEF Throw, Store, Fails, CacheTypeOK
  <2>2. CASE Return(c) /\ Settle(c)
    BY <1>1, <1>9, <2>2 DEF Return, CacheTypeOK
  <2>3. CASE Return(c) /\ ~Settle(c)
    BY <1>1, <2>3 DEF Return, CacheTypeOK, storeVars, StoreTypeOK, callVars, floors
  <2> QED
    BY <1>10, <2>1, <2>2, <2>3
<1>11. ASSUME NEW c \in Calls, Write(c) PROVE CacheTypeOK'
  <2>1. CASE Promise(c)
    <3>1. /\ keyFloor' \in [Caches -> [Keys -> Version]]
          /\ tagFloor' \in [Caches -> [Tags -> Version]]
      BY <2>1 DEF Promise, CacheTypeOK
    <3> QED
      BY <1>1, <1>2, <1>11, <3>1 DEF Write, Goto, Fails, CacheTypeOK, callVars, loadVars
  <2>2. CASE UNCHANGED floors
    BY <1>1, <1>2, <1>11, <2>2 DEF Write, Goto, Fails, CacheTypeOK, callVars, loadVars,
       floors
  <2> QED
    BY <1>11, <2>1, <2>2 DEF Write
<1>12. CASE SourceChanges \/ TimePasses \/ UNCHANGED cacheVars
  BY <1>1, <1>2, <1>12
  DEF SourceChanges, TimePasses, cacheVars, CacheTypeOK, Version, callVars, loadVars, floors
<1> QED
  BY <1>4, <1>5, <1>6, <1>7, <1>10, <1>11, <1>12, <1>8, CacheSteps DEF GoesOn

-----------------------------------------------------------------------------
(* What calls ask for, and where they are *)

LEMMA ChangeKeepsOperations ==
  ASSUME CacheTypeOK, Operations, NEW c \in Calls, NEW o \in Changes, NEW x \in Caches,
         NEW k \in Keys, NEW ts \in SUBSET Tags, o = "invalidateTag" => \E t \in Tags : ts = {t},
         Change(c, o, x, k, ts)
  PROVE  Operations'
<1>1. /\ pc[c] = "idle" /\ pc' = [pc EXCEPT ![c] = pc'[c]] /\ pc'[c] \in {"write", "after"}
      /\ op' = [op EXCEPT ![c] = o] /\ tags' = [tags EXCEPT ![c] = ts]
      /\ version' = [version EXCEPT ![c] = source] /\ UNCHANGED <<load, source>>
  BY DEF Change, Asked, Goto, CacheTypeOK
<1>2. source <= source
  BY DEF CacheTypeOK, Version
<1>3. o \notin {"none", "wrap"}
  BY DEF Changes
<1>4. load[c] = "none"
  BY <1>1 DEF Operations, CacheTypeOK
<1> SUFFICES ASSUME NEW d \in Calls
    PROVE  (/\ pc[d] = "idle" <=> op[d] = "none"
            /\ Pending(d) => op[d] \in Changes
            /\ pc[d] \in {"get", "miss", "stale", "join"} => op[d] = "wrap"
            /\ load[d] # "none" => op[d] = "wrap" /\ pc[d] \in {"join", "done"}
            /\ op[d] = "invalidateTag" => \E t \in Tags : tags[d] = {t}
            /\ version[d] <= source)'
  BY DEF Operations
<1>5. CASE d = c
  BY <1>1, <1>2, <1>3, <1>4, <1>5 DEF Pending, CacheTypeOK
<1>6. CASE d # c
  BY <1>1, <1>6 DEF Operations, Pending, CacheTypeOK
<1> QED
  BY <1>5, <1>6

LEMMA OperationsNext == CacheTypeOK /\ Operations /\ [CacheNext]_cacheVars => Operations'
<1> SUFFICES ASSUME CacheTypeOK, Operations, [CacheNext]_cacheVars PROVE Operations'
  OBVIOUS
<1>1. ASSUME NEW c \in Calls, NEW x \in Caches, NEW k \in Keys, NEW ts \in SUBSET Tags,
             Wrap(c, x, k, ts)
      PROVE  Operations'
  BY <1>1 DEF Wrap, Asked, Goto, Operations, Pending, CacheTypeOK, loadVars
<1>2. ASSUME NEW c \in Calls, Begins(c) PROVE Operations'
  BY <1>1, <1>2, ChangeKeepsOperations DEF Begins
<1>3. ASSUME NEW c \in Calls, Get(c) \/ Served(c) \/ Send(c) \/ Write(c) PROVE Operations'
  <2>1. /\ pc' = [pc EXCEPT ![c] = pc'[c]] /\ UNCHANGED <<op, tags, load, version, source>>
        /\ \/ pc[c] = "get" /\ pc'[c] \in {"miss", "stale", "done"}
           \/ pc[c] = "join" /\ pc'[c] = "done"
           \/ pc[c] = "after" /\ pc'[c] = "write"
           \/ pc[c] = "write" /\ pc'[c] = "done"
    BY <1>3 DEF Get, Served, Send, Write, Goto, callVars, loadVars, CacheTypeOK
  <2> QED
    BY <2>1 DEF Operations, Pending, CacheTypeOK
<1>4. ASSUME NEW c \in Calls, Miss(c) \/ Stale(c) PROVE Operations'
  <2>1. /\ pc[c] \in {"miss", "stale"} /\ pc' = [pc EXCEPT ![c] = pc'[c]]
        /\ pc'[c] \in {"join", "done"} /\ UNCHANGED <<op, tags, version, source>>
        /\ \A d \in Calls : d # c => load'[d] = load[d]
    BY <1>4 DEF Miss, Stale, StartLoad, Goto, callVars, CacheTypeOK
  <2> QED
    BY <2>1 DEF Operations, Pending, CacheTypeOK
<1>5. ASSUME NEW c \in Calls, Fence(c) \/ Read(c) \/ Throw(c) \/ Return(c) \/ Store(c)
      PROVE  Operations'
  <2>1. /\ load[c] # "none" /\ UNCHANGED <<op, tags, pc, source>>
        /\ \A d \in Calls : d # c => load'[d] = load[d]
        /\ \A d \in Calls : version'[d] \in {version[d], source}
    BY <1>5 DEF Fence, Read, Throw, Return, Store, Settle, callVars, CacheTypeOK
  <2>2. source <= source
    BY DEF CacheTypeOK, Version
  <2> QED
    BY <2>1, <2>2 DEF Operations, Pending, CacheTypeOK
<1>6. CASE SourceChanges
  <2>1. UNCHANGED <<op, tags, pc, load, version>> /\ source' = source + 1
    BY <1>6 DEF SourceChanges, callVars, loadVars
  <2>2. \A c \in Calls : version[c] <= source => version[c] <= source + 1
    BY DEF CacheTypeOK, Version
  <2> QED
    BY <2>1, <2>2 DEF Operations, Pending
<1>7. CASE TimePasses \/ UNCHANGED cacheVars
  BY <1>7 DEF TimePasses, cacheVars, callVars, loadVars, Operations, Pending
<1> QED
  BY <1>2, <1>3, <1>4, <1>5, <1>6, <1>7, CacheSteps DEF GoesOn

(* A call that has not begun has no load. *)
LEMMA IdleHasNoLoad ==
  ASSUME Operations, NEW c \in Calls, pc[c] = "idle"
  PROVE  load[c] = "none"
BY DEF Operations

-----------------------------------------------------------------------------
(* The table of the loads in flight *)

(* A change takes the loads it covers off the table, and says so. *)
LEMMA ChangeKeepsTable ==
  ASSUME CacheTypeOK, Operations, Table, NEW c \in Calls, NEW o, NEW x \in Caches,
         NEW k \in Keys, NEW ts \in SUBSET Tags, Change(c, o, x, k, ts)
  PROVE  Table'
<1> DEFINE W == Matching(o, k, ts)
<1>1. /\ withdrawn' = withdrawn \cup (W \cap {inflight[x][j] : j \in Keys})
      /\ inflight' = [inflight EXCEPT
           ![x] = [j \in Keys |-> IF inflight[x][j] \in W THEN NoCall ELSE inflight[x][j]]]
      /\ UNCHANGED <<load, unstorable>>
  BY DEF Change, Withdraw
<1>2. /\ pc[c] = "idle" /\ at' = [at EXCEPT ![c] = x] /\ key' = [key EXCEPT ![c] = k]
  BY DEF Change, Asked
<1>3. load[c] = "none"
  BY <1>2, IdleHasNoLoad
<1> HIDE DEF W
<1>4. \A d \in Calls : load[d] # "none" => at'[d] = at[d] /\ key'[d] = key[d]
  BY <1>2, <1>3 DEF CacheTypeOK
<1>5. inflight \in [Caches -> [Keys -> Calls \cup {NoCall}]]
  BY DEF CacheTypeOK
<1>6. \A y \in Caches, j \in Keys :
        inflight'[y][j] = IF y = x /\ inflight[x][j] \in W THEN NoCall ELSE inflight[y][j]
  BY <1>1, <1>5
<1>7. ASSUME NEW y \in Caches, NEW j \in Keys, inflight'[y][j] # NoCall
      PROVE  LET f == inflight'[y][j] IN
             at'[f] = y /\ key'[f] = j /\ load'[f] \in Underway /\ f \notin withdrawn'
  <2> DEFINE f == inflight[y][j]
  <2>1. inflight'[y][j] = f /\ f # NoCall /\ ~(y = x /\ f \in W)
    BY <1>6, <1>7
  <2>2. f \in Calls /\ at[f] = y /\ key[f] = j /\ load[f] \in Underway /\ f \notin withdrawn
    BY <1>5, <2>1 DEF Table
  <2>3. f \notin withdrawn'
    <3>1. SUFFICES ASSUME f \in W, NEW i \in Keys, f = inflight[x][i] PROVE FALSE
      BY <1>1, <2>2
    <3>2. at[f] = x
      BY <2>1, <3>1 DEF Table
    <3> QED
      BY <2>1, <2>2, <3>1, <3>2
  <2> HIDE DEF f
  <2>4. load[f] # "none"
    BY <2>2 DEF Underway
  <2> QED
    BY <1>1, <1>4, <2>1, <2>2, <2>3, <2>4
<1>8. ASSUME NEW d \in Calls
      PROVE  /\ load'[d] \in Underway /\ d \notin withdrawn' => inflight'[at'[d]][key'[d]] = d
             /\ load'[d] = "none" => d \notin withdrawn'
             /\ load'[d] = "storing" => d \notin unstorable'
  <2>1. ASSUME load[d] \in Underway, d \notin withdrawn'
        PROVE  inflight'[at'[d]][key'[d]] = d
    <3>1. load[d] # "none" /\ d \notin withdrawn
      BY <1>1, <2>1 DEF Underway
    <3>2. inflight[at[d]][key[d]] = d /\ at[d] \in Caches /\ key[d] \in Keys
      BY <2>1, <3>1 DEF Table, CacheTypeOK
    <3>3. ~(at[d] = x /\ d \in W)
      BY <1>1, <2>1, <3>2
    <3> QED
      BY <1>4, <1>6, <3>1, <3>2, <3>3
  <2>2. ASSUME load[d] = "none" PROVE d \notin withdrawn'
    <3>1. d \notin withdrawn /\ d # NoCall
      BY <2>2, CallsAssumption DEF Table
    <3>2. \A j \in Keys : inflight[x][j] # d
      BY <2>2, <3>1 DEF Table, Underway
    <3> QED
      BY <1>1, <3>1, <3>2
  <2> QED
    BY <1>1, <2>1, <2>2 DEF Table
<1> QED
  BY <1>7, <1>8 DEF Table

LEMMA SettleKeepsTable ==
  ASSUME CacheTypeOK, Table, NEW c \in Calls, load[c] \in Underway, Settle(c),
         UNCHANGED <<callVars, withdrawn, unstorable>>
  PROVE  Table'
<1>1. inflight \in [Caches -> [Keys -> Calls \cup {NoCall}]]
      /\ at[c] \in Caches /\ key[c] \in Keys
  BY DEF CacheTypeOK
<1>2. \A y \in Caches, j \in Keys :
        inflight'[y][j] = IF inflight[y][j] = c THEN NoCall ELSE inflight[y][j]
  BY <1>1, CallsAssumption DEF Settle, Table
<1>3. \A d \in Calls : load'[d] = IF d = c THEN "over" ELSE load[d]
  BY DEF Settle, CacheTypeOK
<1>4. UNCHANGED <<at, key, withdrawn, unstorable>>
  BY DEF callVars
<1>5. \A y \in Caches, j \in Keys : inflight[y][j] \in Calls \cup {NoCall}
  BY <1>1
<1>6. \A d \in Calls : at[d] \in Caches /\ key[d] \in Keys
  BY DEF CacheTypeOK
<1> QED
  BY <1>2, <1>3, <1>4, <1>5, <1>6 DEF Table, Underway

LEMMA StartKeepsTable ==
  ASSUME CacheTypeOK, Table, NEW c \in Calls, load[c] = "none", StartLoad(c),
         inflight[at[c]][key[c]] = NoCall, UNCHANGED <<callVars, withdrawn, unstorable>>
  PROVE  Table'
<1>1. inflight \in [Caches -> [Keys -> Calls \cup {NoCall}]]
      /\ at[c] \in Caches /\ key[c] \in Keys
  BY DEF CacheTypeOK
<1>2. \A y \in Caches, j \in Keys :
        inflight'[y][j] = IF y = at[c] /\ j = key[c] THEN c ELSE inflight[y][j]
  BY <1>1 DEF StartLoad
<1>3. /\ \A d \in Calls : d # c => load'[d] = load[d]
      /\ load'[c] \in {"fence", "loading"}
  BY DEF StartLoad, CacheTypeOK
<1>4. UNCHANGED <<at, key, withdrawn, unstorable>>
  BY DEF callVars
<1>5. \A y \in Caches, j \in Keys : inflight[y][j] \in Calls \cup {NoCall}
  BY <1>1
<1>6. \A d \in Calls : at[d] \in Caches /\ key[d] \in Keys
  BY DEF CacheTypeOK
<1>7. c \notin withdrawn /\ \A y \in Caches, j \in Keys : inflight[y][j] # c
  BY CallsAssumption DEF Table, Underway
<1> QED
  BY <1>1, <1>2, <1>3, <1>4, <1>5, <1>6, <1>7, CallsAssumption DEF Table, Underway

LEMMA TableNext ==
  CacheTypeOK /\ Operations /\ Table /\ [CacheNext]_cacheVars => Table'
<1> SUFFICES ASSUME CacheTypeOK, Operations, Table, [CacheNext]_cacheVars PROVE Table'
  OBVIOUS
<1>1. ASSUME NEW c \in Calls, NEW x \in Caches, NEW k \in Keys, NEW ts \in SUBSET Tags,
             Wrap(c, x, k, ts)
      PROVE  Table'
  <2>1. load[c] = "none" /\ UNCHANGED <<load, inflight, withdrawn, unstorable>>
        /\ at' = [at EXCEPT ![c] = x] /\ key' = [key EXCEPT ![c] = k]
    BY <1>1, IdleHasNoLoad DEF Wrap, Asked, loadVars
  <2>2. /\ \A d \in Calls : load[d] # "none" => at'[d] = at[d] /\ key'[d] = key[d]
        /\ \A y \in Caches, j \in Keys : inflight[y][j] \in Calls \cup {NoCall}
    BY <2>1 DEF CacheTypeOK
  <2> QED
    BY <2>1, <2>2 DEF Table, Underway
<1>2. ASSUME NEW c \in Calls, Begins(c) PROVE Table'
  BY <1>1, <1>2, ChangeKeepsTable DEF Begins
<1>3. ASSUME NEW c \in Calls, Miss(c) \/ Stale(c) PROVE Table'
  <2>1. load[c] = "none" /\ UNCHANGED <<callVars, withdrawn, unstorable>>
    BY <1>3 DEF Miss, Stale, Operations
  <2>2. CASE inflight[at[c]][key[c]] = NoCall
    BY <1>3, <2>1, <2>2, StartKeepsTable DEF Miss, Stale
  <2>3. CASE inflight[at[c]][key[c]] # NoCall
    BY <1>3, <2>3 DEF Miss, Stale, callVars, Table
  <2> QED
    BY <2>2, <2>3
<1>4. ASSUME NEW c \in Calls, Fence(c) \/ Read(c) \/ (Return(c) /\ Storable(c)) PROVE Table'
  <2>1. /\ UNCHANGED <<at, key, inflight, withdrawn>>
        /\ \A d \in Calls : d # c => load'[d] = load[d]
        /\ load[c] \in Underway /\ load'[c] \in Underway
        /\ \A d \in Calls : d # c => (d \in unstorable' <=> d \in unstorable)
        /\ load'[c] = "storing" => c \notin unstorable'
    BY <1>4 DEF Fence, Read, Return, Storable, callVars, CacheTypeOK, Underway
  <2>2. \A y \in Caches, j \in Keys : inflight[y][j] \in Calls \cup {NoCall}
    BY DEF CacheTypeOK
  <2>3. \A d \in Calls : load'[d] \in Underway <=> load[d] \in Underway
    BY <2>1
  <2>4. \A d \in Calls : /\ load'[d] = "none" <=> load[d] = "none"
                         /\ load'[d] = "storing" /\ load[d] # "storing" => d = c
    BY <2>1 DEF Underway
  <2> QED
    BY <2>1, <2>2, <2>3, <2>4 DEF Table
<1>5. ASSUME NEW c \in Calls, Throw(c) \/ Store(c) \/ (Return(c) /\ ~Storable(c))
      PROVE  Table'
  BY <1>5, SettleKeepsTable DEF Throw, Store, Return, Underway
<1>6. ASSUME UNCHANGED <<callVars, loadVars>> PROVE Table'
  BY <1>6 DEF callVars, loadVars, Table
<1>7. ASSUME NEW c \in Calls, Get(c) \/ Served(c) \/ Send(c) \/ Write(c)
       PROVE  UNCHANGED <<callVars, loadVars>>
  BY <1>7 DEF Get, Served, Send, Write
<1>8. SourceChanges \/ TimePasses \/ UNCHANGED cacheVars => UNCHANGED <<callVars, loadVars>>
  BY DEF SourceChanges, TimePasses, cacheVars
<1> QED
  BY <1>2, <1>3, <1>4, <1>5, <1>6, <1>7, <1>8, CacheSteps DEF GoesOn

-----------------------------------------------------------------------------
(* What has been promised *)

(* An answered change raises the floors of what it covers at its cache to its
   version, and no others. *)
LEMMA PromiseOf ==
  ASSUME CacheTypeOK, NEW c \in Calls, Promise(c)
  PROVE  /\ \A x \in Caches, k \in Keys :
              \/ keyFloor'[x][k] = keyFloor[x][k]
              \/ /\ x = at[c] /\ keyFloor'[x][k] = version[c]
                 /\ op[c] = "clear" \/ (op[c] \in {"set", "delete"} /\ k = key[c])
         /\ \A x \in Caches, t \in Tags :
              \/ tagFloor'[x][t] = tagFloor[x][t]
              \/ /\ x = at[c] /\ tagFloor'[x][t] = version[c]
                 /\ op[c] = "invalidateTag" /\ t \in tags[c]
BY DEF CacheTypeOK, Promise

LEMMA FloorsNext ==
  CacheTypeOK /\ Operations /\ FloorsKnown /\ [CacheNext]_cacheVars => FloorsKnown'
<1> SUFFICES ASSUME CacheTypeOK, Operations, FloorsKnown, [CacheNext]_cacheVars
    PROVE  FloorsKnown'
  OBVIOUS
<1>1. source \in Nat /\ \A x \in Caches :
        /\ \A k \in Keys : keyFloor[x][k] \in Nat
        /\ \A t \in Tags : tagFloor[x][t] \in Nat
  BY DEF CacheTypeOK, Version
<1>2. ASSUME NEW c \in Calls, Begins(c) PROVE FloorsKnown'
  <2>1. UNCHANGED <<fencing, source, keyFloor, tagFloor>>
    BY <1>2 DEF Begins, Wrap, Change, floors
  <2>2. ~fencing => at' = [at EXCEPT ![c] = Home]
    BY <1>2 DEF Begins, Wrap, Change, Asked, Users
  <2> QED
    BY <2>1, <2>2 DEF FloorsKnown, CacheTypeOK
<1>3. ASSUME UNCHANGED <<at, fencing, source, floors>> PROVE FloorsKnown'
  BY <1>3 DEF FloorsKnown, floors
<1>4. ASSUME NEW c \in Calls, GoesOn(c), ~Write(c)
      PROVE  UNCHANGED <<at, fencing, source, floors>>
  BY <1>4 DEF GoesOn, Get, Miss, Stale, Served, Fence, Read, Throw, Return, Store, Send,
     callVars
<1>5. ASSUME NEW c \in Calls, Write(c) PROVE FloorsKnown'
  <2>1. UNCHANGED <<at, fencing, source>> /\ (Promise(c) \/ UNCHANGED floors)
    BY <1>5 DEF Write, callVars
  <2>2. ~fencing => at[c] = Home
    BY DEF FloorsKnown
  <2>3. version[c] <= source
    BY DEF Operations
  <2>4. CASE Promise(c)
    BY <2>1, <2>2, <2>3, <2>4, PromiseOf DEF FloorsKnown
  <2> QED
    BY <1>3, <2>1, <2>4
<1>6. CASE SourceChanges
  BY <1>1, <1>6 DEF SourceChanges, FloorsKnown, floors, callVars
<1>7. TimePasses \/ UNCHANGED cacheVars => UNCHANGED <<at, fencing, source, floors>>
  BY DEF TimePasses, cacheVars, callVars
<1> QED
  BY <1>2, <1>3, <1>4, <1>5, <1>6, <1>7, CacheSteps

-----------------------------------------------------------------------------
(* Loads and the changes that cover them *)

(* The attributes of a load do not change, but for its version as it reads. *)
LEMMA LoadsKeep ==
  ASSUME CacheTypeOK, Operations, [CacheNext]_cacheVars, NEW c \in Calls, load[c] # "none"
  PROVE  /\ UNCHANGED <<at[c], key[c], tags[c], op[c]>>
         /\ load'[c] # "none"
         /\ \/ version'[c] = version[c] /\ (load[c] = "loading" => load'[c] # "loaded")
            \/ load[c] = "loading" /\ load'[c] = "loaded" /\ version'[c] = source
         /\ load'[c] = "storing" =>
              \/ load[c] = "storing"
              \/ load[c] = "loaded" /\ Storable(c)
         /\ load'[c] = "loaded" => load[c] \in {"loading", "loaded"}
         /\ load[c] = "fence" \/ token'[c] = token[c]
         /\ withdrawn \subseteq withdrawn' /\ unstorable \subseteq unstorable'
<1>1. pc[c] # "idle"
  BY DEF Operations
<1>2. ASSUME NEW d \in Calls, Begins(d)
      PROVE  /\ UNCHANGED <<at[c], key[c], tags[c], op[c], load[c], version[c], unstorable, token>>
             /\ withdrawn \subseteq withdrawn'
  <2>1. d # c
    BY <1>1, <1>2 DEF Begins, Wrap, Change, Asked
  <2>2. CASE \E x \in Caches, k \in Keys, ts \in SUBSET Tags : Wrap(d, x, k, ts)
    BY <2>1, <2>2 DEF Wrap, Asked, loadVars, CacheTypeOK
  <2>3. ASSUME NEW o, NEW x, NEW k, NEW ts, Change(d, o, x, k, ts)
        PROVE  /\ UNCHANGED <<at[c], key[c], tags[c], op[c], load[c], version[c], unstorable, token>>
               /\ withdrawn \subseteq withdrawn'
    BY <2>1, <2>3 DEF Change, Withdraw, Asked, CacheTypeOK
  <2> QED
    BY <1>2, <2>2, <2>3 DEF Begins
<1>3. ASSUME NEW d \in Calls, Fence(d) \/ Read(d) \/ Throw(d) \/ Return(d) \/ Store(d)
      PROVE  /\ UNCHANGED <<at, key, tags, op, withdrawn>>
             /\ unstorable \subseteq unstorable'
             /\ load'[c] # "none"
             /\ \/ version'[c] = version[c] /\ (load[c] = "loading" => load'[c] # "loaded")
                \/ load[c] = "loading" /\ load'[c] = "loaded" /\ version'[c] = source
             /\ load'[c] = "storing" =>
                  \/ load[c] = "storing"
                  \/ load[c] = "loaded" /\ Storable(c)
             /\ load'[c] = "loaded" => load[c] \in {"loading", "loaded"}
             /\ load[c] = "fence" \/ token'[c] = token[c]
  <2>1. CASE Fence(d)
    BY <2>1 DEF Fence, callVars, CacheTypeOK
  <2>2. CASE Read(d)
    BY <2>2 DEF Read, callVars, CacheTypeOK
  <2>3. CASE Throw(d) \/ Store(d)
    BY <2>3 DEF Throw, Store, Settle, callVars, CacheTypeOK
  <2>4. CASE Return(d)
    BY <2>4 DEF Return, Settle, callVars, CacheTypeOK
  <2> QED
    BY <1>3, <2>1, <2>2, <2>3, <2>4
<1>4. ASSUME NEW d \in Calls, Miss(d) \/ Stale(d)
      PROVE  UNCHANGED <<at, key, tags, op, withdrawn, unstorable, version, token, load[c]>>
  <2>1. d # c
    BY <1>4 DEF Miss, Stale, Operations
  <2> QED
    BY <1>4, <2>1 DEF Miss, Stale, StartLoad, callVars, CacheTypeOK
<1>5. ASSUME NEW d \in Calls, Get(d) \/ Served(d) \/ Send(d) \/ Write(d)
      PROVE  UNCHANGED <<callVars, loadVars, version>>
  BY <1>5 DEF Get, Served, Send, Write
<1>6. SourceChanges \/ TimePasses \/ UNCHANGED cacheVars => UNCHANGED <<callVars, loadVars, version>>
  BY DEF SourceChanges, TimePasses, cacheVars
<1>7. UNCHANGED <<callVars, loadVars, version>> =>
        UNCHANGED <<at, key, tags, op, withdrawn, unstorable, version, token, load>>
  BY DEF callVars, loadVars
<1> QED
  BY <1>2, <1>3, <1>4, <1>5, <1>6, <1>7, CacheSteps DEF GoesOn

(* A load has read, or writes, only if it has begun before. *)
LEMMA LoadsBegin ==
  ASSUME CacheTypeOK, Operations, [CacheNext]_cacheVars, NEW c \in Calls,
         load'[c] \in {"loaded", "storing"}
  PROVE  load[c] # "none"
<1>1. ASSUME NEW d \in Calls, Begins(d) PROVE load' = load
  BY <1>1 DEF Begins, Wrap, Change, loadVars
<1>2. ASSUME NEW d \in Calls, Fence(d) \/ Read(d) \/ Throw(d) \/ Return(d) \/ Store(d)
      PROVE  load[c] # "none"
  BY <1>2 DEF Fence, Read, Throw, Return, Store, Settle, CacheTypeOK
<1>3. ASSUME NEW d \in Calls, Miss(d) \/ Stale(d) PROVE load[c] # "none"
  <2>1. load' = load \/ load' = [load EXCEPT ![d] = IF fencing THEN "fence" ELSE "loading"]
    BY <1>3 DEF Miss, Stale, StartLoad
  <2> QED
    BY <2>1 DEF CacheTypeOK
<1>4. ASSUME NEW d \in Calls, Get(d) \/ Served(d) \/ Send(d) \/ Write(d) PROVE load' = load
  BY <1>4 DEF Get, Served, Send, Write, loadVars
<1>5. SourceChanges \/ TimePasses \/ UNCHANGED cacheVars => load' = load
  BY DEF SourceChanges, TimePasses, cacheVars, loadVars
<1> QED
  BY <1>1, <1>2, <1>3, <1>4, <1>5, CacheSteps DEF GoesOn

(* A change that waits has just been made, or stays as it was made, and goes
   on only when the writes it covers are over. *)
LEMMA ChangesKeep ==
  ASSUME CacheTypeOK, Operations, [CacheNext]_cacheVars, NEW d \in Calls, Pending(d)'
  PROVE  \/ /\ Pending(d)
            /\ UNCHANGED <<at[d], key[d], tags[d], op[d], version[d], covered[d]>>
            /\ pc'[d] = pc[d] \/ (pc'[d] = "write" /\ covered[d] \cap Writing(at[d]) = {})
         \/ \E o \in Changes, x \in Caches, k \in Keys, ts \in SUBSET Tags :
              Change(d, o, x, k, ts)
<1> DEFINE Kept == UNCHANGED <<at[d], key[d], tags[d], op[d], version[d], covered[d]>>
<1>1. ASSUME NEW c \in Calls, Begins(c)
      PROVE  \/ Pending(d) /\ Kept /\ pc'[d] = pc[d]
             \/ \E o \in Changes, x \in Caches, k \in Keys, ts \in SUBSET Tags :
                  Change(d, o, x, k, ts)
  <2>1. ASSUME NEW x, NEW k, NEW ts, Wrap(c, x, k,
               ts) PROVE Pending(d) /\ Kept /\ pc'[d] = pc[d]
    <3>1. c # d
      BY <2>1 DEF Wrap, Goto, Pending, CacheTypeOK
    <3> QED
      BY <2>1, <3>1 DEF Wrap, Asked, Goto, Pending, CacheTypeOK
  <2>2. ASSUME NEW o \in Changes, NEW x \in Caches, NEW k \in Keys, NEW ts \in SUBSET Tags,
               Change(c, o, x, k, ts), c # d
        PROVE  Pending(d) /\ Kept /\ pc'[d] = pc[d]
    BY <2>2 DEF Change, Asked, Goto, Pending, CacheTypeOK
  <2> QED
    BY <1>1, <2>1, <2>2 DEF Begins
<1>2. ASSUME UNCHANGED <<callVars, version, covered, pc[d]>>
      PROVE  Pending(d) /\ Kept /\ pc'[d] = pc[d]
  BY <1>2 DEF callVars, Pending
<1>3. ASSUME NEW c \in Calls, Get(c) \/ Miss(c) \/ Stale(c) \/ Served(c) \/ Write(c)
      PROVE  UNCHANGED <<callVars, version, covered, pc[d]>>
  <2>1. pc' = [pc EXCEPT ![c] = pc'[c]] /\ pc'[c] \notin {"after", "write"}
    BY <1>3 DEF Get, Miss, Stale, Served, Write, Goto, CacheTypeOK
  <2>2. c # d
    BY <2>1 DEF Pending
  <2> QED
    BY <1>3, <2>1, <2>2 DEF Get, Miss, Stale, Served, Write, CacheTypeOK
<1>4. ASSUME NEW c \in Calls, Fence(c) \/ Throw(c) \/ Return(c) \/ Store(c)
      PROVE  UNCHANGED <<callVars, version, covered, pc[d]>>
  BY <1>4 DEF Fence, Throw, Return, Store
<1>5. ASSUME NEW c \in Calls, Read(c) PROVE Pending(d) /\ Kept /\ pc'[d] = pc[d]
  <2>1. Pending(d) /\ op[c] = "wrap" /\ op[d] \in Changes
    BY <1>5 DEF Read, Operations, Pending
  <2>2. c # d
    BY <2>1 DEF Changes
  <2> QED
    BY <1>5, <2>1, <2>2 DEF Read, callVars, CacheTypeOK
<1>6. ASSUME NEW c \in Calls, Send(c)
      PROVE  Pending(d) /\ Kept
             /\ (pc'[d] = pc[d] \/ (pc'[d] = "write" /\ covered[d] \cap Writing(at[d]) = {}))
  BY <1>6 DEF Send, Goto, callVars, Pending, CacheTypeOK
<1>7. SourceChanges \/ TimePasses \/ UNCHANGED cacheVars =>
        UNCHANGED <<callVars, version, covered, pc[d]>>
  BY DEF SourceChanges, TimePasses, cacheVars
<1> QED
  BY <1>1, <1>2, <1>3, <1>4, <1>5, <1>6, <1>7, CacheSteps DEF GoesOn

LEMMA NewerNext ==
  CacheTypeOK /\ Operations /\ Table /\ Newer /\ [CacheNext]_cacheVars => Newer'
<1> SUFFICES ASSUME CacheTypeOK, Operations, Table, Newer, [CacheNext]_cacheVars,
                    NEW c \in Calls, NEW d \in Calls,
                    Pending(d)', load'[c] \in {"loaded", "storing"}, CoveredBy(c, d)'
             PROVE  (\/ version[c] >= version[d]
                     \/ load[c] = "loaded" /\ c \in withdrawn
                     \/ load[c] = "storing" /\ pc[d] = "after" /\ c \in covered[d])'
  BY DEF Newer
<1>1. load[c] # "none"
  BY LoadsBegin
<1>2. /\ UNCHANGED <<at[c], key[c], tags[c]>> /\ withdrawn \subseteq withdrawn'
      /\ \/ version'[c] = version[c] /\ (load[c] = "loading" => load'[c] # "loaded")
         \/ load[c] = "loading" /\ load'[c] = "loaded" /\ version'[c] = source
      /\ load'[c] = "storing" => load[c] = "storing" \/ (load[c] = "loaded" /\ Storable(c))
      /\ load'[c] = "loaded" => load[c] \in {"loading", "loaded"}
  BY <1>1, LoadsKeep
<1>3. /\ source \in Nat /\ \A a \in Calls : version[a] \in Nat /\ version[a] <= source
  BY DEF CacheTypeOK, Version, Operations
<1>4. CASE /\ Pending(d)
           /\ UNCHANGED <<at[d], key[d], tags[d], op[d], version[d], covered[d]>>
           /\ pc'[d] = pc[d] \/ (pc'[d] = "write" /\ covered[d] \cap Writing(at[d]) = {})
  <2>1. CoveredBy(c, d)
    BY <1>2, <1>4 DEF CoveredBy, Matching
  <2>2. CASE load[c] = "loading" /\ version'[c] = source
    BY <1>3, <1>4, <2>2
  <2>3. CASE version'[c] = version[c] /\ load[c] \in {"loaded", "storing"}
    <3>1. \/ version[c] >= version[d]
          \/ load[c] = "loaded" /\ c \in withdrawn
          \/ load[c] = "storing" /\ pc[d] = "after" /\ c \in covered[d]
      BY <1>4, <2>1, <2>3 DEF Newer
    <3>2. CASE version[c] >= version[d]
      BY <1>4, <2>3, <3>2
    <3>3. CASE load[c] = "loaded" /\ c \in withdrawn
      BY <1>2, <3>3 DEF Storable
    <3>4. CASE load[c] = "storing" /\ pc[d] = "after" /\ c \in covered[d]
      <4>1. c \in Writing(at[d])
        BY <2>1, <3>4 DEF Writing, CoveredBy
      <4>2. load'[c] = "storing" /\ pc'[d] = "after"
        BY <1>2, <1>4, <3>4, <4>1
      <4> QED
        BY <1>4, <3>4, <4>2
    <3> QED
      BY <3>1, <3>2, <3>3, <3>4
  <2> QED
    BY <1>2, <2>2, <2>3
<1>5. ASSUME NEW o \in Changes, NEW x \in Caches, NEW k \in Keys, NEW ts \in SUBSET Tags,
             Change(d, o, x, k, ts)
      PROVE  (\/ load[c] = "loaded" /\ c \in withdrawn
              \/ load[c] = "storing" /\ pc[d] = "after" /\ c \in covered[d])'
  <2> DEFINE W == Matching(o, k, ts)
  <2>1. /\ at'[d] = x /\ op'[d] = o /\ key'[d] = k /\ tags'[d] = ts /\ load' = load
        /\ covered'[d] = Covered(x, W) /\ pc'[d] = IF Covered(x, W) = {} THEN "write" ELSE "after"
        /\ withdrawn' = withdrawn \cup (W \cap {inflight[x][j] : j \in Keys})
    BY <1>5 DEF Change, Asked, Withdraw, Goto, CacheTypeOK
  <2>2. c \in W /\ at[c] = x
    BY <1>2, <2>1 DEF CoveredBy, Matching
  <2>3. CASE load[c] = "loaded" /\ c \notin withdrawn
    <3>1. inflight[at[c]][key[c]] = c /\ key[c] \in Keys
      BY <2>3 DEF Table, Underway, CacheTypeOK
    <3> QED
      BY <2>1, <2>2, <2>3, <3>1
  <2>4. CASE load[c] = "storing"
    BY <2>1, <2>2, <2>4 DEF Covered, Writing
  <2> QED
    BY <1>2, <2>1, <2>3, <2>4
<1> QED
  BY <1>4, <1>5, ChangesKeep

-----------------------------------------------------------------------------
(* Freshness *)

LEMMA CoveredLoads ==
  ASSUME NEW c \in Calls, NEW d \in Calls, at[c] = at[d],
         \/ op[d] = "clear"
         \/ op[d] \in {"set", "delete"} /\ key[c] = key[d]
         \/ op[d] = "invalidateTag" /\ tags[d] \subseteq tags[c]
  PROVE  CoveredBy(c, d)
<1>1. CASE op[d] = "clear"
  BY <1>1 DEF CoveredBy, Matching
<1>2. CASE op[d] \in {"set", "delete"} /\ key[c] = key[d]
  BY <1>2 DEF CoveredBy, Matching
<1>3. CASE op[d] = "invalidateTag" /\ tags[d] \subseteq tags[c]
  BY <1>3 DEF CoveredBy, Matching
<1> QED
  BY <1>1, <1>2, <1>3

(* Floors move only as a change is answered. *)
LEMMA FloorsMove ==
  ASSUME CacheTypeOK, [CacheNext]_cacheVars
  PROVE  \/ UNCHANGED <<keyFloor, tagFloor>>
         \/ \E d \in Calls : /\ pc[d] = "write" /\ Effect(d) /\ Promise(d)
                            /\ UNCHANGED <<fencing, source, callVars, version, loadVars>>
<1>1. ASSUME NEW c \in Calls, Begins(c) PROVE UNCHANGED <<keyFloor, tagFloor>>
  BY <1>1 DEF Begins, Wrap, Change, floors
<1>2. ASSUME NEW c \in Calls, GoesOn(c), ~Write(c) PROVE UNCHANGED <<keyFloor, tagFloor>>
  BY <1>2 DEF GoesOn, Get, Miss, Stale, Served, Fence, Read, Throw, Return, Store, Send,
     floors
<1>3. ASSUME NEW c \in Calls, Write(c)
      PROVE  \/ UNCHANGED <<keyFloor, tagFloor>>
             \/ /\ pc[c] = "write" /\ Effect(c) /\ Promise(c)
                /\ UNCHANGED <<fencing, source, callVars, version, loadVars>>
  BY <1>3 DEF Write, floors
<1>4. SourceChanges \/ TimePasses \/ UNCHANGED cacheVars => UNCHANGED <<keyFloor, tagFloor>>
  BY DEF SourceChanges, TimePasses, cacheVars, floors
<1> QED
  BY <1>1, <1>2, <1>3, <1>4, CacheSteps DEF GoesOn

(* What a load has just read is as new as anything that has been promised. *)
LEMMA ReadsAreFresh ==
  ASSUME CacheTypeOK, Operations, FloorsKnown, [CacheNext]_cacheVars, NEW c \in Calls,
         load[c] = "loading", load'[c] = "loaded", NEW x \in Caches
  PROVE  FreshFor(x, key[c], tags[c], version[c])'
<1>1. UNCHANGED <<key[c], tags[c]>> /\ version'[c] = source
  BY LoadsKeep
<1>2. UNCHANGED <<keyFloor, tagFloor>>
  BY FloorsMove DEF loadVars
<1>3. key[c] \in Keys /\ tags[c] \subseteq Tags /\ source \in Nat
      /\ \A k \in Keys : keyFloor[x][k] \in Nat /\ \A t \in Tags : tagFloor[x][t] \in Nat
  BY DEF CacheTypeOK, Version
<1> QED
  BY <1>1, <1>2, <1>3 DEF FloorsKnown, FreshFor

LEMMA HomeFreshNext ==
  /\ CacheTypeOK /\ Operations /\ Table /\ FloorsKnown /\ Newer /\ HomeFresh
  /\ [CacheNext]_cacheVars
  => HomeFresh'
<1> SUFFICES ASSUME CacheTypeOK, Operations, Table, FloorsKnown, Newer, HomeFresh,
                    [CacheNext]_cacheVars, NEW c \in Calls, MayStore(c)'
             PROVE  FreshFor(at[c], key[c], tags[c], version[c])'
  BY DEF HomeFresh
<1>1. load[c] # "none"
  BY LoadsBegin DEF MayStore
<1>2. /\ UNCHANGED <<at[c], key[c], tags[c]>> /\ withdrawn \subseteq withdrawn'
      /\ \/ version'[c] = version[c] /\ (load[c] = "loading" => load'[c] # "loaded")
         \/ load[c] = "loading" /\ load'[c] = "loaded" /\ version'[c] = source
      /\ load'[c] = "storing" => load[c] = "storing" \/ (load[c] = "loaded" /\ Storable(c))
      /\ load'[c] = "loaded" => load[c] \in {"loading", "loaded"}
  BY <1>1, LoadsKeep
<1>3. at[c] \in Caches /\ key[c] \in Keys /\ tags[c] \subseteq Tags
  BY DEF CacheTypeOK
<1>4. CASE load[c] = "loading" /\ load'[c] = "loaded"
  <2>1. \A x \in Caches : FreshFor(x, key[c], tags[c], version[c])'
    BY <1>4, ReadsAreFresh
  <2> QED
    BY <1>2, <1>3, <2>1
<1>5. CASE ~(load[c] = "loading" /\ load'[c] = "loaded")
  <2>1. MayStore(c) /\ version'[c] = version[c]
    BY <1>2, <1>5 DEF MayStore, Storable
  <2>2. FreshFor(at[c], key[c], tags[c], version[c])
    BY <2>1 DEF HomeFresh
  <2>3. CASE UNCHANGED <<keyFloor, tagFloor>>
    BY <1>2, <2>1, <2>2, <2>3 DEF FreshFor
  <2>4. ASSUME NEW d \in Calls, pc[d] = "write", Promise(d)
        PROVE  FreshFor(at[c], key[c], tags[c], version[c])'
    <3>1. CoveredBy(c, d) => version[c] >= version[d]
      BY <2>1, <2>4 DEF Newer, Pending, MayStore
    <3>2. op[d] \in Changes
          /\ (op[d] = "invalidateTag" => \A t \in tags[d] : tags[d] = {t})
      BY <2>4 DEF Operations, Pending
    <3>3. version[c] >= keyFloor'[at[c]][key[c]]
      <4>1. CASE keyFloor'[at[c]][key[c]] = keyFloor[at[c]][key[c]]
        BY <2>2, <4>1 DEF FreshFor
      <4>2. CASE /\ at[c] = at[d] /\ keyFloor'[at[c]][key[c]] = version[d]
                 /\ op[d] = "clear" \/ (op[d] \in {"set", "delete"} /\ key[c] = key[d])
        BY <3>1, <4>2, CoveredLoads
      <4> QED
        BY <1>3, <2>4, <4>1, <4>2, PromiseOf
    <3>4. ASSUME NEW t \in tags[c] PROVE version[c] >= tagFloor'[at[c]][t]
      <4>1. CASE tagFloor'[at[c]][t] = tagFloor[at[c]][t]
        BY <2>2, <4>1 DEF FreshFor
      <4>2. CASE /\ at[c] = at[d] /\ tagFloor'[at[c]][t] = version[d]
                 /\ op[d] = "invalidateTag" /\ t \in tags[d]
        <5>1. tags[d] \subseteq tags[c]
          BY <3>2, <4>2
        <5> QED
          BY <3>1, <4>2, <5>1, CoveredLoads
      <4> QED
        BY <1>3, <2>4, <4>1, <4>2, PromiseOf
    <3> QED
      BY <1>2, <2>1, <3>3, <3>4 DEF FreshFor
  <2> QED
    BY <2>3, <2>4, FloorsMove
<1> QED
  BY <1>4, <1>5

(* What a change does to the store outruns the tokens of the loads whose floors
   it raises. *)
LEMMA EffectOutruns ==
  ASSUME CacheTypeOK, Operations, NEW d \in Calls, pc[d] = "write", Effect(d), Promise(d),
         NEW x \in Caches, NEW k \in Keys, NEW ts \in SUBSET Tags, NEW v \in Version,
         NEW n \in 0..epoch, FreshFor(x, k, ts, v)
  PROVE  Outrun(k, ts, n)' \/ FreshFor(x, k, ts, v)'
<1>1. op[d] \in Changes /\ tags[d] \subseteq Tags /\ key[d] \in Keys /\ StoreTypeOK
      /\ (op[d] = "invalidateTag" => \A t \in tags[d] : tags[d] = {t})
  BY DEF Operations, Pending, CacheTypeOK
<1>2. CASE op[d] = "clear" \/ (op[d] \in {"set", "delete"} /\ key[d] = k)
  <2>1. StoreClear \/ KeyChanges(k)
    BY <1>2 DEF Effect, StoreSet, StoreDelete
  <2> QED
    BY <1>1, <2>1, ChangesOutrun
<1>3. CASE op[d] = "invalidateTag" /\ \E t \in tags[d] : t \in ts
  <2>1. PICK t \in ts : StoreInvalidate(t)
    BY <1>1, <1>3 DEF Effect
  <2> QED
    BY <1>1, <2>1, ChangesOutrun
<1>4. CASE /\ ~(op[d] = "clear" \/ (op[d] \in {"set", "delete"} /\ key[d] = k))
           /\ ~(op[d] = "invalidateTag" /\ \E t \in tags[d] : t \in ts)
  <2>1. keyFloor'[x][k] = keyFloor[x][k] /\ \A t \in ts : tagFloor'[x][t] = tagFloor[x][t]
    BY <1>4, PromiseOf
  <2> QED
    BY <2>1 DEF FreshFor
<1> QED
  BY <1>2, <1>3, <1>4

LEMMA FencingStays ==
  ASSUME CacheTypeOK, [CacheNext]_cacheVars
  PROVE  fencing' = fencing
<1>1. ASSUME NEW c \in Calls, Begins(c) PROVE fencing' = fencing
  BY <1>1 DEF Begins, Wrap, Change
<1>2. ASSUME NEW c \in Calls, GoesOn(c) PROVE fencing' = fencing
  BY <1>2 DEF GoesOn, Get, Miss, Stale, Served, Fence, Read, Throw, Return, Store, Send,
     Write
<1>3. SourceChanges \/ TimePasses \/ UNCHANGED cacheVars => fencing' = fencing
  BY DEF SourceChanges, TimePasses, cacheVars
<1> QED
  BY <1>1, <1>2, <1>3, CacheSteps

LEMMA OutrunOrFreshNext ==
  /\ CacheTypeOK /\ Operations /\ FloorsKnown /\ OutrunOrFresh /\ [CacheNext]_cacheVars
  => OutrunOrFresh'
<1> SUFFICES ASSUME CacheTypeOK, Operations, FloorsKnown, OutrunOrFresh,
                    [CacheNext]_cacheVars,
                    fencing', NEW c \in Calls, load'[c] \in {"loaded", "storing"},
                    c \notin unstorable'
             PROVE  (\/ Outrun(key[c], tags[c], token[c])
                     \/ \A x \in Caches : FreshFor(x, key[c], tags[c], version[c]))'
  BY DEF OutrunOrFresh
<1>1. load[c] # "none"
  BY LoadsBegin
<1>2. /\ UNCHANGED <<key[c], tags[c]>> /\ unstorable \subseteq unstorable'
      /\ \/ version'[c] = version[c] /\ (load[c] = "loading" => load'[c] # "loaded")
         \/ load[c] = "loading" /\ load'[c] = "loaded" /\ version'[c] = source
      /\ load'[c] = "storing" => load[c] = "storing" \/ (load[c] = "loaded" /\ Storable(c))
      /\ load'[c] = "loaded" => load[c] \in {"loading", "loaded"}
      /\ load[c] = "fence" \/ token'[c] = token[c]
  BY <1>1, LoadsKeep
<1>3. key[c] \in Keys /\ tags[c] \in SUBSET Tags /\ version[c] \in Version
      /\ token[c] \in 0..epoch /\ StoreTypeOK
  BY DEF CacheTypeOK
<1>4. CASE load[c] = "loading" /\ load'[c] = "loaded"
  BY <1>4, ReadsAreFresh
<1>5. CASE ~(load[c] = "loading" /\ load'[c] = "loaded")
  <2>1. load[c] \in {"loaded", "storing"} /\ version'[c] = version[c] /\ c \notin unstorable
        /\ token'[c] = token[c]
    BY <1>2, <1>5
  <2>2. fencing
    BY FencingStays
  <2>3. CASE Outrun(key[c], tags[c], token[c])
    <3>1. Outrun(key[c], tags[c], token[c])'
      BY <1>2, <1>3, <2>1, <2>3, StepsStore, StoreMoves DEF Outrun
    <3> QED
      BY <3>1
  <2>4. CASE \A x \in Caches : FreshFor(x, key[c], tags[c], version[c])
    <3>1. CASE UNCHANGED <<keyFloor, tagFloor>>
      BY <1>2, <2>1, <2>4, <3>1 DEF FreshFor
    <3>2. ASSUME NEW d \in Calls, pc[d] = "write", Effect(d), Promise(d)
          PROVE  \/ Outrun(key[c], tags[c], token[c])'
                 \/ \A x \in Caches : FreshFor(x, key[c], tags[c], version[c])'
      BY <1>2, <1>3, <2>1, <2>4, <3>2, EffectOutruns DEF Outrun, FreshFor
    <3> QED
      BY <3>1, <3>2, FloorsMove
  <2> QED
    BY <2>1, <2>2, <2>3, <2>4 DEF OutrunOrFresh
<1> QED
  BY <1>4, <1>5

(* What a change does to the rows: those it covers go, and what set() writes
   is no load's. *)
LEMMA EffectRows ==
  ASSUME CacheTypeOK, Operations, NEW d \in Calls, pc[d] = "write", Effect(d),
         NEW k \in Keys,
         row'[k] # NoRow, row'[k].loaded
  PROVE  /\ row'[k] = row[k]
         /\ op[d] # "clear" /\ (op[d] \in {"set", "delete"} => key[d] # k)
         /\ op[d] = "invalidateTag" => tags[d] \cap row[k].tags = {}
<1>1. row \in [Keys -> Row \cup {NoRow}] /\ key[d] \in Keys
      /\ (op[d] = "invalidateTag" => \A t \in tags[d] : tags[d] = {t})
  BY DEF CacheTypeOK, StoreTypeOK, Operations
<1>2. CASE op[d] = "set" /\ StoreSet(key[d], Given(d))
  BY <1>1, <1>2 DEF StoreSet, Given
<1>3. CASE op[d] = "delete" /\ StoreDelete(key[d])
  BY <1>1, <1>3 DEF StoreDelete
<1>4. ASSUME op[d] = "invalidateTag", NEW t \in tags[d], StoreInvalidate(t)
      PROVE  row'[k] = row[k] /\ tags[d] \cap row[k].tags = {}
  BY <1>1, <1>4 DEF StoreInvalidate, Tagged
<1>5. CASE op[d] = "clear" /\ StoreClear
  BY <1>5 DEF StoreClear
<1> QED
  BY <1>2, <1>3, <1>4, <1>5 DEF Effect

(* A load that the store takes is as new as what any cache has promised. *)
LEMMA StoredIsFresh ==
  ASSUME CacheTypeOK, Table, FloorsKnown, HomeFresh, OutrunOrFresh, NEW c \in Calls,
         load[c] = "storing", fencing => ~Outrun(key[c], tags[c], token[c]), NEW x \in Caches
  PROVE  FreshFor(x, key[c], tags[c], version[c])
<1>1. key[c] \in Keys /\ tags[c] \subseteq Tags /\ version[c] \in Nat
  BY DEF CacheTypeOK, Version
<1>2. CASE fencing
  BY <1>2 DEF OutrunOrFresh, Table
<1>3. CASE ~fencing /\ x = Home
  BY <1>3 DEF HomeFresh, MayStore, FloorsKnown
<1>4. CASE ~fencing /\ x # Home
  BY <1>1, <1>4 DEF FloorsKnown, FreshFor
<1> QED
  BY <1>2, <1>3, <1>4

(* What is in the store after a step: what was there, perhaps stale, or a load
   that has just been taken, or nothing that a load has written. *)
LEMMA RowsMove ==
  ASSUME CacheTypeOK, [CacheNext]_cacheVars, NEW k \in Keys, row'[k] # NoRow, row'[k].loaded
  PROVE  \/ /\ row[k] # NoRow /\ row[k].loaded
            /\ row'[k].version = row[k].version /\ row'[k].tags = row[k].tags
         \/ \E c \in Calls : /\ load[c] = "storing" /\ key[c] = k
                             /\ fencing => ~Outrun(key[c], tags[c], token[c])
                             /\ row'[k] = Loaded(c) /\ UNCHANGED <<keyFloor, tagFloor>>
         \/ \E d \in Calls : pc[d] = "write" /\ Effect(d)
<1>1. row \in [Keys -> Row \cup {NoRow}] /\ \A c \in Calls : key[c] \in Keys
  BY DEF CacheTypeOK, StoreTypeOK
<1>2. ASSUME NEW c \in Calls, Begins(c) PROVE row' = row
  BY <1>2 DEF Begins, Wrap, Change, storeVars
<1>3. ASSUME NEW c \in Calls, GoesOn(c), ~Store(c), ~Write(c) PROVE row' = row
  BY <1>3 DEF GoesOn, Get, Miss, Stale, Served, Fence, Read, Throw, Return, Send, storeVars
<1>4. ASSUME NEW c \in Calls, Store(c), row'[k] # row[k]
      PROVE  /\ load[c] = "storing" /\ key[c] = k
             /\ fencing => ~Outrun(key[c], tags[c], token[c])
             /\ row'[k] = Loaded(c) /\ UNCHANGED <<keyFloor, tagFloor>>
  <2>1. Put(c)
    BY <1>4 DEF Store, storeVars
  <2>2. StoreSet(key[c], Loaded(c)) /\ (fencing => ~Outrun(key[c], tags[c], token[c]))
    BY <1>4, <2>1 DEF Put, StoreSetIfFence, Loaded, storeVars
  <2> QED
    BY <1>1, <1>4, <2>2 DEF StoreSet, Store, floors
<1>5. ASSUME NEW c \in Calls, Write(c), row'[k] # row[k] PROVE pc[c] = "write" /\ Effect(c)
  BY <1>5 DEF Write, storeVars
<1>6. ASSUME NEW j \in Keys, Age(j)
      PROVE  row'[k].version = row[k].version /\ row'[k].tags = row[k].tags
             /\ row[k] # NoRow /\ row[k].loaded
  <2>1. CASE row' = [row EXCEPT ![j] = NoRow]
    BY <1>1, <2>1
  <2>2. CASE row' = [row EXCEPT ![j].stale = TRUE] /\ j = k
    <3>1. row[k] \in Row /\ row'[k] = [row[k] EXCEPT !.stale = TRUE]
      BY <1>1, <1>6, <2>2 DEF Age
    <3> QED
      BY <1>6, <2>2, <3>1 DEF Row, Age
  <2>3. CASE row' = [row EXCEPT ![j].stale = TRUE] /\ j # k
    BY <1>1, <2>3
  <2> QED
    BY <1>6, <2>1, <2>2, <2>3 DEF Age
<1>7. TimePasses => \E j \in Keys : Age(j)
  BY DEF TimePasses
<1>8. SourceChanges \/ UNCHANGED cacheVars => row' = row
  BY DEF SourceChanges, cacheVars, storeVars
<1> QED
  BY <1>2, <1>3, <1>4, <1>5, <1>6, <1>7, <1>8, CacheSteps

LEMMA LoadsStayFreshNext ==
  /\ CacheTypeOK /\ Operations /\ Table /\ FloorsKnown /\ HomeFresh /\ OutrunOrFresh
  /\ LoadsStayFresh /\ [CacheNext]_cacheVars
  => LoadsStayFresh'
<1> SUFFICES ASSUME CacheTypeOK, Operations, Table, FloorsKnown, HomeFresh, OutrunOrFresh,
                    LoadsStayFresh, [CacheNext]_cacheVars,
                    NEW k \in Keys, row'[k] # NoRow, row'[k].loaded, NEW x \in Caches
             PROVE  FreshFor(x, k, row[k].tags, row[k].version)'
  BY DEF LoadsStayFresh
<1>1. row[k] \in Row \cup {NoRow}
  BY DEF CacheTypeOK, StoreTypeOK
<1>2. ASSUME row[k] # NoRow, row[k].loaded, row'[k].version = row[k].version,
             row'[k].tags = row[k].tags, UNCHANGED <<keyFloor, tagFloor>>
      PROVE  FreshFor(x, k, row[k].tags, row[k].version)'
  BY <1>2 DEF LoadsStayFresh, FreshFor
<1>3. ASSUME NEW d \in Calls, pc[d] = "write", Effect(d),
             Promise(d) \/ UNCHANGED <<keyFloor, tagFloor>>
      PROVE  FreshFor(x, k, row[k].tags, row[k].version)'
  <2>1. /\ row'[k] = row[k] /\ op[d] # "clear"
        /\ (op[d] \in {"set", "delete"} => key[d] # k)
        /\ op[d] = "invalidateTag" => tags[d] \cap row[k].tags = {}
    BY <1>3, EffectRows
  <2>2. row[k].tags \subseteq Tags
    BY <1>1, <2>1 DEF Row
  <2>3. CASE Promise(d)
    <3>1. keyFloor'[x][k] = keyFloor[x][k]
          /\ \A t \in row[k].tags : tagFloor'[x][t] = tagFloor[x][t]
      BY <2>1, <2>2, <2>3, PromiseOf
    <3> QED
      BY <2>1, <3>1 DEF LoadsStayFresh, FreshFor
  <2> QED
    BY <1>2, <1>3, <2>1, <2>3
<1>4. ASSUME NEW c \in Calls, load[c] = "storing", key[c] = k,
             fencing => ~Outrun(key[c], tags[c], token[c]),
             row'[k] = Loaded(c), UNCHANGED <<keyFloor, tagFloor>>
      PROVE  FreshFor(x, k, row[k].tags, row[k].version)'
  BY <1>4, StoredIsFresh DEF FreshFor, Loaded
<1>5. ASSUME NEW d \in Calls, pc[d] = "write", Effect(d)
      PROVE  FreshFor(x, k, row[k].tags, row[k].version)'
  <2>1. CASE UNCHANGED <<keyFloor, tagFloor>>
    BY <1>3, <1>5, <2>1
  <2>2. ASSUME NEW e \in Calls, pc[e] = "write", Effect(e), Promise(e)
        PROVE  FreshFor(x, k, row[k].tags, row[k].version)'
    BY <1>3, <2>2
  <2> QED
    BY <2>1, <2>2, FloorsMove
<1>6. CASE UNCHANGED <<keyFloor, tagFloor>>
  BY <1>2, <1>4, <1>5, <1>6, RowsMove
<1>7. ASSUME NEW d \in Calls, pc[d] = "write", Effect(d), Promise(d)
      PROVE  FreshFor(x, k, row[k].tags, row[k].version)'
  BY <1>3, <1>7
<1> QED
  BY <1>6, <1>7, FloorsMove

-----------------------------------------------------------------------------
LEMMA CacheInvInit == CacheInit => CacheInv
<1> SUFFICES ASSUME CacheInit PROVE CacheInv
  OBVIOUS
<1>1. CacheTypeOK
  BY CacheTypeInit
<1>2. /\ pc = [c \in Calls |-> "idle"] /\ op = [c \in Calls |-> "none"]
      /\ at = [c \in Calls |-> Home] /\ load = [c \in Calls |-> "none"]
      /\ version = [c \in Calls |-> 0] /\ source = 0 /\ withdrawn = {}
      /\ inflight = [x \in Caches |-> [k \in Keys |-> NoCall]]
      /\ keyFloor = [x \in Caches |-> [k \in Keys |-> 0]]
      /\ tagFloor = [x \in Caches |-> [t \in Tags |-> 0]]
      /\ row = [k \in Keys |-> NoRow]
  BY DEF CacheInit, StoreInit
<1>3. Operations /\ Table
  BY <1>2 DEF Operations, Pending, Table, Underway
<1>4. FloorsKnown
  BY <1>2 DEF FloorsKnown
<1>5. Newer /\ HomeFresh /\ OutrunOrFresh /\ LoadsStayFresh
  BY <1>2 DEF Newer, Pending, HomeFresh, MayStore, OutrunOrFresh, LoadsStayFresh
<1> QED
  BY <1>1, <1>3, <1>4, <1>5 DEF CacheInv

LEMMA CacheInvNext == CacheInv /\ [CacheNext]_cacheVars => CacheInv'
BY CacheTypeNext, OperationsNext, TableNext, FloorsNext, NewerNext, HomeFreshNext,
   OutrunOrFreshNext, LoadsStayFreshNext
DEF CacheInv

LEMMA CacheInvariant == CacheSpec => []CacheInv
<1>1. CacheInit => CacheInv
  BY CacheInvInit
<1>2. CacheInv /\ [CacheNext]_cacheVars => CacheInv'
  BY CacheInvNext
<1> QED
  BY <1>1, <1>2, PTL DEF CacheSpec

(* Type correctness of the store, of the calls and of the loads' table. *)
THEOREM CacheTypeCorrect == CacheSpec => []CacheTypeOK
<1>1. CacheInv => CacheTypeOK
  BY DEF CacheInv
<1> QED
  BY <1>1, CacheInvariant, PTL

(* No load stores a value older than what an answered change covers: the
   withdrawn ones are not stored, those on their way are waited for, and with
   a fence the store refuses those of other caches, whatever it has forgotten
   of the changes. *)
THEOREM StoredLoadsAreFresh == CacheSpec => []LoadsStayFresh
<1>1. CacheInv => LoadsStayFresh
  BY DEF CacheInv
<1> QED
  BY <1>1, CacheInvariant, PTL

(* A load that wrap() may join has read nothing older than what its cache has
   answered. *)
THEOREM JoinedLoadsAreFresh == CacheSpec => []JoinsAreFresh
<1>1. CacheInv => JoinsAreFresh
  <2> SUFFICES ASSUME CacheInv, NEW x \in Caches, NEW k \in Keys,
                      inflight[x][k] # NoCall, load[inflight[x][k]] \in {"loaded", "storing"}
               PROVE  FreshFor(x, k, tags[inflight[x][k]], version[inflight[x][k]])
    BY DEF JoinsAreFresh
  <2> DEFINE f == inflight[x][k]
  <2>1. f \in Calls /\ at[f] = x /\ key[f] = k /\ f \notin withdrawn
    BY DEF CacheInv, CacheTypeOK, Table
  <2> QED
    BY <2>1 DEF CacheInv, HomeFresh, MayStore
<1> QED
  BY <1>1, CacheInvariant, PTL

-----------------------------------------------------------------------------
(* THE QUERY CLIENT: its definitions *)

AllMine(x) == \A i \in DOMAIN x.pages : x.pages[i].mine

(* What is new of x if new, and of the present visitor if mine. *)
Pure(x, new, mine) == (new => AllNew(x)) /\ (mine => AllMine(x))

Sound(e, new, mine) ==
  /\ e \in Entry
  /\ \A i, j \in DOMAIN e.flights :
       e.flights[i].current /\ e.flights[j].current => i = j
  /\ \A i \in DOMAIN e.flights : e.flights[i].current =>
       e.flights[i].seen = "now" /\ Pure(e.flights[i], new, mine)
  /\ Current(e) => e.fetching
  /\ e.fetching /\ ~Current(e) => e.invalidated
  /\ Pure(e, new /\ CountsAsFresh(e), mine)

Waiting(e) == (e.fetching <=> Current(e)) /\ (e.status = "pending" => Current(e))
Kept(e, new, mine) == Sound(e, new, mine) /\ (e.mounted => Waiting(e))

-----------------------------------------------------------------------------
(* Sequences *)

(* A function over the indices of a sequence is a sequence of its length. *)
LEMMA MappedSeq ==
  ASSUME NEW S, NEW s \in Seq(S), NEW T, NEW t \in [DOMAIN s -> T]
  PROVE  t \in Seq(T) /\ Len(t) = Len(s) /\ DOMAIN t = 1..Len(s)
<1>1. Len(s) \in Nat /\ DOMAIN s = 1..Len(s)
  BY LenProperties
<1> QED
  BY <1>1

(* What is left of a sequence when one element is taken out of it. *)
LEMMA RemovedAt ==
  ASSUME NEW S, NEW s \in Seq(S), NEW i \in DOMAIN s
  PROVE  /\ RemoveAt(s, i) \in Seq(S)
         /\ DOMAIN RemoveAt(s, i) = 1..(Len(s) - 1)
         /\ Len(s) \in Nat /\ DOMAIN s = 1..Len(s)
         /\ \A j \in 1..(Len(s) - 1) :
              RemoveAt(s, i)[j] = s[IF j < i THEN j ELSE j + 1]
<1> DEFINE a == SubSeq(s, 1, i - 1)
           b == SubSeq(s, i + 1, Len(s))
<1>1. Len(s) \in Nat /\ DOMAIN s = 1..Len(s) /\ i \in 1..Len(s)
      /\ \A j \in 1..Len(s) : s[j] \in S
  BY LenProperties, ElementOfSeq
<1>2. a \in Seq(S) /\ Len(a) = i - 1 /\ \A j \in 1..(i - 1) : a[j] = s[j]
  BY <1>1, SubSeqProperties
<1>3. b \in Seq(S) /\ Len(b) = Len(s) - i
      /\ \A j \in 1..(Len(s) - i) : b[j] = s[i + j]
  BY <1>1, SubSeqProperties
<1> HIDE DEF a, b
<1>4. /\ a \o b \in Seq(S) /\ Len(a \o b) = Len(s) - 1
      /\ \A j \in 1..(Len(s) - 1) :
           (a \o b)[j] = IF j <= i - 1 THEN a[j] ELSE b[j - (i - 1)]
  <2>1. Len(a) + Len(b) = Len(s) - 1 /\ Len(a) = i - 1
    BY <1>1, <1>2, <1>3
  <2>2. /\ a \o b \in Seq(S) /\ Len(a \o b) = Len(a) + Len(b)
        /\ \A j \in 1..(Len(a) + Len(b)) :
             (a \o b)[j] = IF j <= Len(a) THEN a[j] ELSE b[j - Len(a)]
    BY ONLY <1>2, <1>3, ConcatProperties
  <2> QED
    BY <2>1, <2>2
<1>5. \A j \in 1..(Len(s) - 1) : (a \o b)[j] = s[IF j < i THEN j ELSE j + 1]
  <2> SUFFICES ASSUME NEW j \in 1..(Len(s) - 1)
               PROVE  (a \o b)[j] = s[IF j < i THEN j ELSE j + 1]
    OBVIOUS
  <2>1. CASE j < i
    BY <1>1, <1>2, <1>4, <2>1
  <2>2. CASE ~(j < i)
    <3>1. j - (i - 1) \in 1..(Len(s) - i) /\ i + (j - (i - 1)) = j + 1
      BY <1>1, <2>2
    <3>2. (a \o b)[j] = b[j - (i - 1)]
      BY <1>1, <1>4, <2>2
    <3>3. b[j - (i - 1)] = s[i + (j - (i - 1))]
      BY <1>3, <3>1
    <3> QED
      BY <2>2, <3>1, <3>2, <3>3
  <2> QED
    BY <2>1, <2>2
<1> QED
  BY <1>1, <1>4, <1>5, LenProperties DEF RemoveAt, a, b

(* A sequence of new pages. *)
LEMMA NewPages ==
  /\ <<NewPage>> \in Seq(Page)
  /\ \A i \in DOMAIN <<NewPage>> : <<NewPage>>[i].new /\ <<NewPage>>[i].mine
  /\ <<OldPage>> \in Seq(Page)
  /\ NewPage \in Page
BY DEF Page, NewPage, OldPage

-----------------------------------------------------------------------------
(* What the parts of an operation do to an entry *)

(* run(): afterwards a fetch that may publish is in flight. *)
LEMMA LoadIsSound ==
  ASSUME NEW new \in BOOLEAN, NEW mine \in BOOLEAN,
         NEW e, Sound(e, new, mine),
         NEW pages \in Seq(Page),
         \A i \in DOMAIN pages : (new => pages[i].new) /\ (mine => pages[i].mine),
         NEW forChange \in BOOLEAN, NEW waiting \in Nat, NEW counted \in Nat
  PROVE  LET d == Load(e, pages, forChange, waiting, counted) IN
         Sound(d, new, mine) /\ Current(d) /\ d.fetching /\ d.mounted = e.mounted
<1> DEFINE d == Load(e, pages, forChange, waiting, counted)
           n == Len(e.flights)
<1>1. /\ e \in Entry /\ n \in Nat /\ DOMAIN e.flights = 1..n
      /\ e.flights \in Seq(Flight)
      /\ \A i \in 1..n : e.flights[i] \in Flight
  BY LenProperties, ElementOfSeq DEF Sound, Entry
<1>2. CASE Current(e)
  <2> DEFINE F == [i \in DOMAIN e.flights |-> IF e.flights[i].current
                     THEN Awaited(e.flights[i], waiting, counted) ELSE e.flights[i]]
  <2>1. \A i \in 1..n :
          /\ F[i] \in Flight /\ F[i].current = e.flights[i].current
          /\ F[i].seen = e.flights[i].seen /\ F[i].pages = e.flights[i].pages
    BY <1>1 DEF Awaited, Larger, Flight
  <2>2. F \in Seq(Flight) /\ DOMAIN F = 1..n
    BY <1>1, <2>1, MappedSeq
  <2>3. d = [e EXCEPT !.flights = F]
    BY <1>2 DEF Load, Each
  <2> HIDE DEF F, d
  <2>4. /\ d \in Entry /\ d.flights = F /\ d.fetching = e.fetching
        /\ d.mounted = e.mounted /\ d.invalidated = e.invalidated
        /\ d.status = e.status /\ d.pages = e.pages
    BY <1>1, <2>2, <2>3 DEF Entry
  <2>5. Current(d)
    BY <1>1, <1>2, <2>1, <2>2, <2>4 DEF Current
  <2>6. Sound(d, new, mine) /\ d.fetching
    BY <1>1, <1>2, <2>1, <2>2, <2>4, <2>5
    DEF Sound, Pure, AllNew, AllMine, CountsAsFresh
  <2> QED
    BY <2>4, <2>5, <2>6 DEF d
<1>3. CASE ~Current(e)
  <2> DEFINE G == [i \in DOMAIN e.flights |-> [e.flights[i] EXCEPT !.slot = FALSE]]
             f == [pages |-> pages, current |-> TRUE, slot |-> TRUE, seen |-> "now",
                   forChange |-> forChange, waiting |-> waiting, counted |-> counted]
             H == Append(G, f)
  <2>1. \A i \in 1..n : G[i] \in Flight /\ ~G[i].current
    BY <1>1, <1>3 DEF Flight, Current
  <2>2. G \in Seq(Flight) /\ Len(G) = n
    <3>1. G \in [DOMAIN e.flights -> Flight]
      BY <1>1, <2>1
    <3> QED
      BY <1>1, <3>1, MappedSeq
  <2>3. f \in Flight /\ f.current /\ f.seen = "now" /\ Pure(f, new, mine)
    BY DEF Flight, Pure, AllNew, AllMine
  <2>4. d = [e EXCEPT !.fetching = TRUE, !.flights = H]
    BY <1>3 DEF Load, Start, Each
  <2> HIDE DEF G, f, d
  <2>5. /\ H \in Seq(Flight) /\ DOMAIN H = 1..(n + 1)
        /\ \A i \in 1..n : H[i] = G[i]
        /\ H[n + 1] = f
    BY <1>1, <2>2, <2>3, AppendProperties, LenProperties
  <2> HIDE DEF H
  <2>6. /\ d \in Entry /\ d.flights = H /\ d.fetching
        /\ d.mounted = e.mounted /\ d.invalidated = e.invalidated
        /\ d.status = e.status /\ d.pages = e.pages
    BY <1>1, <2>4, <2>5 DEF Entry
  <2>7. \A i \in 1..(n + 1) : H[i].current => i = n + 1
    BY <1>1, <2>1, <2>5
  <2>8. Current(d)
    BY <1>1, <2>3, <2>5, <2>6 DEF Current
  <2>9. Sound(d, new, mine)
    BY <1>1, <2>3, <2>5, <2>6, <2>7, <2>8 DEF Sound, Pure, AllNew, AllMine, CountsAsFresh
  <2> QED
    BY <2>6, <2>8, <2>9 DEF d
<1> QED
  BY <1>2, <1>3

(* reload(): as run(), of the pages there are. *)
LEMMA ReloadIsKept ==
  ASSUME NEW new \in BOOLEAN, NEW mine \in BOOLEAN,
         NEW e, Sound(e, new, mine),
         NEW forChange \in BOOLEAN, NEW waiting \in Nat, NEW counted \in Nat
  PROVE  LET d == Reload(e, forChange, waiting, counted) IN
         Kept(d, new, mine) /\ d.mounted = e.mounted
<1> DEFINE R == [i \in DOMAIN e.pages |-> NewPage]
           P == IF e.pages = <<>> THEN <<NewPage>> ELSE R
<1>1. R \in [DOMAIN e.pages -> Page] /\ e.pages \in Seq(Page)
  BY NewPages DEF Sound, Entry
<1>2. P \in Seq(Page) /\ \A i \in DOMAIN P : P[i].new /\ P[i].mine
  <2>1. R \in Seq(Page)
    BY <1>1, MappedSeq
  <2>2. \A i \in DOMAIN R : R[i].new /\ R[i].mine
    BY DEF NewPage
  <2> HIDE DEF R
  <2> QED
    BY <2>1, <2>2, NewPages
<1>3. Reload(e, forChange, waiting, counted) = Load(e, P, forChange, waiting, counted)
  BY DEF Reload, Each
<1> HIDE DEF P
<1>4. LET d == Load(e, P, forChange, waiting, counted) IN
      Sound(d, new, mine) /\ Current(d) /\ d.fetching /\ d.mounted = e.mounted
  BY <1>2, LoadIsSound
<1> QED
  BY <1>3, <1>4 DEF Kept, Waiting

(* fetch() *)
LEMMA FetchIsKept ==
  ASSUME NEW new \in BOOLEAN, NEW mine \in BOOLEAN, NEW e, Sound(e, new, mine)
  PROVE  Kept(Fetched(e), new, mine)
<1> DEFINE P == <<NewPage>>
<1>1. P \in Seq(Page) /\ \A i \in DOMAIN P : P[i].new /\ P[i].mine
  BY NewPages
<1>2. Fetched(e) = Load(e, P, FALSE, 0, 0)
  BY DEF Fetched
<1> HIDE DEF P
<1>3. \A forChange \in BOOLEAN, waiting, counted \in Nat :
        LET d == Load(e, P, forChange, waiting, counted) IN
        Sound(d, new, mine) /\ Current(d) /\ d.fetching /\ d.mounted = e.mounted
  BY <1>1, LoadIsSound
<1>4. LET d == Load(e, P, FALSE, 0, 0) IN
      Sound(d, new, mine) /\ Current(d) /\ d.fetching /\ d.mounted = e.mounted
  BY <1>3
<1> QED
  BY <1>2, <1>4 DEF Kept, Waiting

(* What forgets the visitor leaves nothing of them, and no fetch of theirs
   that may publish. *)
LEMMA EmptiedIsSound ==
  ASSUME NEW new \in BOOLEAN, NEW mine \in BOOLEAN, NEW e \in Entry,
         NEW wasFinal \in BOOLEAN, NEW last \in BOOLEAN
  PROVE  LET d == Emptied(e, wasFinal, last) IN
         /\ Sound(d, new, mine) /\ d.mounted = e.mounted
         /\ DOMAIN d.flights = DOMAIN e.flights
<1> DEFINE d == Emptied(e, wasFinal, last)
           F == [i \in DOMAIN e.flights |-> Outdated(e.flights[i], wasFinal, last)]
<1>1. /\ e.flights \in Seq(Flight)
      /\ \A i \in DOMAIN e.flights : e.flights[i] \in Flight
  BY LenProperties, ElementOfSeq DEF Entry
<1>2. \A i \in DOMAIN e.flights : F[i] \in Flight /\ ~F[i].current
  BY <1>1, NewPages DEF Outdated, Superseded, Flight
<1>3. F \in Seq(Flight) /\ DOMAIN F = DOMAIN e.flights
  <2>1. F \in [DOMAIN e.flights -> Flight]
    BY <1>2
  <2> QED
    BY <1>1, <2>1, MappedSeq
<1>4. d = [e EXCEPT !.status = "pending", !.pages = <<>>, !.fetching = FALSE,
            !.answered = FALSE, !.invalidated = TRUE, !.flights = F]
  BY DEF Emptied, Each
<1> HIDE DEF d, F
<1>5. /\ d \in Entry /\ d.flights = F /\ ~d.fetching /\ d.pages = <<>>
      /\ d.mounted = e.mounted /\ d.invalidated
  BY <1>3, <1>4, EmptySeq DEF Entry
<1>6. Sound(d, new, mine)
  BY <1>2, <1>3, <1>5 DEF Sound, Current, Pure, AllNew, AllMine
<1> QED
  BY <1>3, <1>5, <1>6 DEF d

(* Invalidation and a write: no fetch in flight may publish any more. *)
LEMMA SupersededFlights ==
  ASSUME NEW s \in Seq(Flight)
  PROVE  /\ Each(s, Superseded) \in Seq(Flight)
         /\ \A i \in DOMAIN Each(s, Superseded) : ~Each(s, Superseded)[i].current
<1> DEFINE F == [i \in DOMAIN s |-> Superseded(s[i])]
<1>1. \A i \in DOMAIN s : s[i] \in Flight
  BY LenProperties, ElementOfSeq
<1>2. \A i \in DOMAIN s : F[i] \in Flight /\ ~F[i].current
  BY <1>1, NewPages DEF Superseded, Flight
<1>3. F \in [DOMAIN s -> Flight] /\ DOMAIN F = DOMAIN s
  BY <1>2
<1>4. F \in Seq(Flight)
  BY <1>3, MappedSeq
<1>5. Each(s, Superseded) = F
  BY DEF Each
<1> HIDE DEF F
<1> QED
  BY <1>2, <1>3, <1>4, <1>5

Written(e) ==
  [e EXCEPT !.status = "success", !.pages = <<NewPage>>, !.fetching = FALSE,
            !.invalidated = FALSE, !.flights = Each(@, Superseded)]

LEMMA WriteIsKept ==
  ASSUME NEW new \in BOOLEAN, NEW mine \in BOOLEAN, NEW e \in Entry
  PROVE  Kept(Written(e), new, mine)
<1> DEFINE d == Written(e)
           F == Each(e.flights, Superseded)
<1>1. F \in Seq(Flight) /\ \A i \in DOMAIN F : ~F[i].current
  BY SupersededFlights DEF Entry
<1>2. d = [e EXCEPT !.status = "success", !.pages = <<NewPage>>, !.fetching = FALSE,
                    !.invalidated = FALSE, !.flights = F]
  BY DEF Written
<1> HIDE DEF F, d
<1>3. /\ d \in Entry /\ d.flights = F /\ ~d.fetching /\ d.pages = <<NewPage>>
      /\ d.status = "success"
  BY <1>1, <1>2, NewPages DEF Entry
<1>4. AllNew(d) /\ AllMine(d)
  BY <1>3, NewPages DEF AllNew, AllMine
<1>5. ~Current(d)
  BY <1>1, <1>3 DEF Current
<1>6. Kept(d, new, mine)
  BY <1>1, <1>3, <1>4, <1>5 DEF Kept, Sound, Waiting, Pure
<1> QED
  BY <1>6 DEF d

LEMMA InvalidatedIsSound ==
  ASSUME NEW new \in BOOLEAN, NEW mine \in BOOLEAN, NEW e, Sound(e, new, mine)
  PROVE  Sound(Invalidated(e), new, mine)
<1> DEFINE d == Invalidated(e)
           F == Each(e.flights, Superseded)
           P == [i \in DOMAIN e.pages |-> [e.pages[i] EXCEPT !.new = FALSE]]
<1>0. e \in Entry /\ e.pages \in Seq(Page) /\ \A i \in DOMAIN e.pages : e.pages[i] \in Page
  BY LenProperties, ElementOfSeq DEF Sound, Entry
<1>1. F \in Seq(Flight) /\ \A i \in DOMAIN F : ~F[i].current
  BY <1>0, SupersededFlights DEF Entry
<1>2. \A i \in DOMAIN e.pages : P[i] \in Page /\ P[i].mine = e.pages[i].mine
  BY <1>0 DEF Page
<1>3. P \in Seq(Page) /\ DOMAIN P = DOMAIN e.pages
  <2>1. P \in [DOMAIN e.pages -> Page]
    BY <1>2
  <2> QED
    BY <1>0, <2>1, MappedSeq
<1>4. d = [e EXCEPT !.invalidated = TRUE, !.pages = P, !.flights = F]
  BY DEF Invalidated, Old, Each
<1> HIDE DEF F, P, d
<1>5. d \in Entry /\ d.flights = F /\ d.invalidated /\ d.pages = P
  BY <1>0, <1>1, <1>3, <1>4 DEF Entry
<1>6. mine => AllMine(d)
  BY <1>2, <1>3, <1>5 DEF AllMine, Sound, Pure
<1>7. Sound(d, new, mine)
  BY <1>1, <1>5, <1>6 DEF Sound, Current, Pure, CountsAsFresh
<1> QED
  BY <1>7 DEF d

(* A fetch leaves; the others are what they were. *)
LEMMA WithoutOne ==
  ASSUME NEW new \in BOOLEAN, NEW mine \in BOOLEAN, NEW e, Sound(e, new, mine),
         NEW i \in DOMAIN e.flights
  PROVE  LET d == Without(e, i) IN
         /\ d \in Entry
         /\ \A j \in DOMAIN d.flights : \E k \in DOMAIN e.flights \ {i} :
              d.flights[j] = e.flights[k]
         /\ e.flights[i].current => ~Current(d)
         /\ ~e.flights[i].current => (Current(d) <=> Current(e)) /\ Sound(d, new, mine)
         /\ d.fetching = e.fetching /\ d.status = e.status /\ d.pages = e.pages
         /\ d.invalidated = e.invalidated /\ d.mounted = e.mounted
         /\ d.answered = e.answered
<1> DEFINE d == Without(e, i)
           R == RemoveAt(e.flights, i)
           n == Len(e.flights)
           pos(j) == IF j < i THEN j ELSE j + 1
<1>1. e \in Entry /\ e.flights \in Seq(Flight)
  BY DEF Sound, Entry
<1>2. /\ R \in Seq(Flight) /\ DOMAIN R = 1..(n - 1)
      /\ n \in Nat /\ DOMAIN e.flights = 1..n /\ i \in 1..n
      /\ \A j \in 1..(n - 1) : R[j] = e.flights[pos(j)]
  BY <1>1, RemovedAt
<1>3. d = [e EXCEPT !.flights = R]
  BY DEF Without
<1> HIDE DEF R, d
<1>4. /\ d \in Entry /\ d.flights = R
      /\ d.fetching = e.fetching /\ d.status = e.status /\ d.pages = e.pages
      /\ d.invalidated = e.invalidated /\ d.mounted = e.mounted
      /\ d.answered = e.answered
  BY <1>1, <1>2, <1>3 DEF Entry
<1>5. \A j \in 1..(n - 1) : pos(j) \in (1..n) \ {i}
  BY <1>2
<1>6. \A j, k \in 1..(n - 1) : pos(j) = pos(k) => j = k
  BY <1>2
<1>7. \A k \in (1..n) \ {i} : \E j \in 1..(n - 1) : pos(j) = k
  <2> SUFFICES ASSUME NEW k \in (1..n) \ {i} PROVE \E j \in 1..(n - 1) : pos(j) = k
    OBVIOUS
  <2>1. CASE k < i
    <3>1. k \in 1..(n - 1) /\ pos(k) = k
      BY <1>2, <2>1
    <3> QED
      BY <3>1
  <2>2. CASE ~(k < i)
    <3>1. k - 1 \in 1..(n - 1) /\ pos(k - 1) = k
      BY <1>2, <2>2
    <3> QED
      BY <3>1
  <2> QED
    BY <2>1, <2>2
<1> HIDE DEF pos
<1>8. \A j \in DOMAIN R : \E k \in DOMAIN e.flights \ {i} : R[j] = e.flights[k]
  BY <1>2, <1>5
<1>9. ASSUME e.flights[i].current PROVE ~Current(d)
  BY <1>2, <1>4, <1>8, <1>9 DEF Current, Sound
<1>10. ASSUME ~e.flights[i].current
       PROVE  (Current(d) <=> Current(e)) /\ Sound(d, new, mine)
  <2>1. Current(d) => Current(e)
    BY ONLY <1>4, <1>8 DEF Current
  <2>2. ASSUME Current(e) PROVE Current(d)
    <3> PICK k \in DOMAIN e.flights : e.flights[k].current
      BY <2>2 DEF Current
    <3>1. k \in (1..n) \ {i}
      BY <1>2, <1>10
    <3>2. PICK j \in 1..(n - 1) : pos(j) = k
      BY <1>7, <3>1
    <3> QED
      BY <1>2, <1>4, <3>2 DEF Current
  <2>3. \A j, k \in DOMAIN R : R[j].current /\ R[k].current => j = k
    <3> SUFFICES ASSUME NEW j \in 1..(n - 1), NEW k \in 1..(n - 1),
                        R[j].current, R[k].current
                 PROVE  j = k
      BY <1>2
    <3>1. pos(j) \in 1..n /\ pos(k) \in 1..n /\ R[j] = e.flights[pos(j)]
          /\ R[k] = e.flights[pos(k)]
      BY <1>2, <1>5
    <3>2. pos(j) = pos(k)
      BY <1>2, <3>1 DEF Sound
    <3> QED
      BY <1>6, <3>2
  <2>4. \A j \in DOMAIN R : R[j].current =>
          R[j].seen = "now" /\ Pure(R[j], new, mine)
    BY <1>8 DEF Sound
  <2>5. Pure(d, new /\ CountsAsFresh(d), mine)
    BY <1>4 DEF Sound, Pure, AllNew, AllMine, CountsAsFresh
  <2> QED
    BY <1>4, <2>1, <2>2, <2>3, <2>4, <2>5 DEF Sound
<1> QED
  BY <1>4, <1>8, <1>9, <1>10 DEF d

(* The calls that wait for a fetch that is rejected may load again. *)
LEMMA RejectedIsSound ==
  ASSUME NEW new \in BOOLEAN, NEW mine \in BOOLEAN, NEW e, Sound(e, new, mine),
         NEW q, NEW f \in Flight
  PROVE  /\ Sound(Rejected(q, e, f), new, mine)
         /\ Kept(e, new, mine) => Kept(Rejected(q, e, f), new, mine)
<1> DEFINE w == Heard(f.waiting)
           n == Heard(f.counted)
<1>1. w \in Nat /\ n \in Nat
  BY DEF Flight, Heard
<1>2. Rejected(q, e, f) = e \/ Rejected(q, e, f) = Reload(e, TRUE, w, n)
  BY DEF Rejected
<1> HIDE DEF w, n
<1>3. Kept(Reload(e, TRUE, w, n), new, mine)
  BY <1>1, ReloadIsKept
<1> QED
  BY <1>2, <1>3 DEF Kept

(* A fetch lands, on an entry that was Sound or Kept. *)
LEMMA SettledIsSound ==
  ASSUME NEW new \in BOOLEAN, NEW mine \in BOOLEAN, NEW e, Sound(e, new, mine),
         NEW q, NEW i \in DOMAIN e.flights, NEW ok \in BOOLEAN
  PROVE  /\ Sound(Settled(q, e, i, ok), new, mine)
         /\ Kept(e, new, mine) => Kept(Settled(q, e, i, ok), new, mine)
<1> DEFINE f == e.flights[i]
           W == Without(e, i)
<1>1. f \in Flight
  BY LenProperties, ElementOfSeq DEF Sound, Entry
<1>2. /\ W \in Entry
      /\ \A j \in DOMAIN W.flights : \E k \in DOMAIN e.flights \ {i} :
           W.flights[j] = e.flights[k]
      /\ f.current => ~Current(W)
      /\ ~f.current => (Current(W) <=> Current(e)) /\ Sound(W, new, mine)
      /\ W.fetching = e.fetching /\ W.status = e.status /\ W.pages = e.pages
      /\ W.invalidated = e.invalidated /\ W.mounted = e.mounted
      /\ W.answered = e.answered
  BY WithoutOne
<1>3. ASSUME ~f.current
      PROVE  Sound(W, new, mine) /\ (Kept(e, new, mine) => Kept(W, new, mine))
  BY <1>2, <1>3 DEF Kept, Waiting
<1>4. CASE f.seen # "now"
  <2>1. ~f.current
    BY <1>4 DEF Sound
  <2> DEFINE w == Through(f.waiting, ok)
             n == IF f.forChange \/ f.counted > 0 THEN Through(f.counted, ok) ELSE 0
  <2>2. w \in Nat /\ n \in Nat
    BY <1>1 DEF Flight, Through, Tries
  <2>3. Settled(q, e, i, ok) = W \/ Settled(q, e, i, ok) = Reload(W, TRUE, w, n)
    BY <1>4 DEF Settled, Again
  <2> HIDE DEF w, n
  <2>4. Kept(Reload(W, TRUE, w, n), new, mine)
    BY <1>3, <2>1, <2>2, ReloadIsKept
  <2> QED
    BY <1>3, <2>1, <2>3, <2>4 DEF Kept
<1>5. CASE f.seen = "now" /\ ~f.current
  <2>1. Settled(q, e, i, ok) = W \/ Settled(q, e, i, ok) = Rejected(q, W, f)
    BY <1>5 DEF Settled
  <2>2. Sound(W, new, mine) /\ (Kept(e, new, mine) => Kept(W, new, mine))
    BY <1>3, <1>5
  <2> HIDE DEF W, f
  <2> QED
    BY <1>1, <2>1, <2>2, RejectedIsSound
<1>6. CASE f.seen = "now" /\ f.current /\ ok
  <2> DEFINE d == Published(e, i)
  <2>1. Settled(q, e, i, ok) = d
    BY <1>6 DEF Settled
  <2>2. d = [W EXCEPT !.status = "success", !.pages = f.pages, !.fetching = FALSE,
                      !.answered = TRUE, !.invalidated = FALSE]
    BY DEF Published
  <2>3. f.pages \in Seq(Page) /\ Pure(f, new, mine)
    BY <1>1, <1>6 DEF Flight, Sound
  <2> HIDE DEF W, d
  <2>4. /\ d \in Entry /\ d.flights = W.flights /\ ~d.fetching /\ d.pages = f.pages
        /\ d.status = "success"
    BY <1>2, <2>2, <2>3 DEF Entry
  <2>5. \A j \in DOMAIN d.flights : ~d.flights[j].current
    BY <1>2, <1>6, <2>4 DEF Current
  <2>6. Pure(d, new, mine)
    BY <2>3, <2>4 DEF Pure, AllNew, AllMine
  <2>7. Kept(d, new, mine)
    BY <2>4, <2>5, <2>6 DEF Kept, Sound, Waiting, Current, Pure
  <2> QED
    BY <2>1, <2>7 DEF Kept
<1>7. CASE f.seen = "now" /\ f.current /\ ~ok
  <2> DEFINE d == Failed(e, i)
  <2>1. Settled(q, e, i, ok) = Rejected(q, d, f)
    BY <1>7 DEF Settled
  <2>2. d = [W EXCEPT !.status = "error", !.fetching = FALSE, !.answered = TRUE]
    BY DEF Failed
  <2> HIDE DEF W, d
  <2>4. /\ d \in Entry /\ d.flights = W.flights /\ ~d.fetching /\ d.pages = e.pages
        /\ d.status = "error"
    BY <1>2, <2>2 DEF Entry
  <2>5. \A j \in DOMAIN d.flights : ~d.flights[j].current
    BY <1>2, <1>7, <2>4 DEF Current
  <2>6. mine => AllMine(d)
    BY <2>4 DEF AllMine, Sound, Pure
  <2>7. Kept(d, new, mine)
    BY <2>4, <2>5, <2>6 DEF Kept, Sound, Waiting, Current, Pure, CountsAsFresh
  <2>8. Kept(Rejected(q, d, f), new, mine)
    BY <1>1, <2>7, RejectedIsSound DEF Kept
  <2> QED
    BY <2>1, <2>8 DEF Kept
<1> QED
  BY <1>4, <1>5, <1>6, <1>7

(* The next page of a paged query. *)
LEMMA WithPageIsSound ==
  ASSUME NEW mine \in BOOLEAN, NEW e, Sound(e, FALSE, mine)
  PROVE  /\ Sound(WithPage(e), FALSE, mine)
         /\ Kept(e, FALSE, mine) => Kept(WithPage(e), FALSE, mine)
<1> DEFINE P == Append(e.pages, NewPage)
           n == Len(e.pages)
<1>1. e.pages \in Seq(Page)
  BY DEF Sound, Entry
<1>2. /\ P \in Seq(Page) /\ DOMAIN P = 1..(n + 1) /\ n \in Nat
      /\ \A i \in 1..n : P[i] = e.pages[i]
      /\ P[n + 1] = NewPage /\ DOMAIN e.pages = 1..n
  BY <1>1, NewPages, AppendProperties, LenProperties
<1> HIDE DEF P
<1>3. \A i \in DOMAIN P : (FALSE => P[i].new) /\ (mine => P[i].mine)
  BY <1>2 DEF Sound, Pure, AllMine, NewPage
<1>4. Kept(Load(e, P, FALSE, 0, 0), FALSE, mine)
  BY <1>2, <1>3, LoadIsSound DEF Kept, Waiting
<1>5. Kept(Fetched(e), FALSE, mine)
  BY FetchIsKept
<1>6. WithPage(e) = Fetched(e) \/ WithPage(e) = e \/ WithPage(e) = Load(e, P, FALSE, 0, 0)
  BY DEF WithPage, P
<1> QED
  BY <1>4, <1>5, <1>6 DEF Kept

(* What is taken for the present visitor's, or no longer is: nothing else
   about an entry changes. *)
LEMMA AttributedIsKept ==
  ASSUME NEW es, NEW mine \in BOOLEAN, NEW q \in Queries,
         NEW new \in BOOLEAN, Kept(es[q], new, FALSE)
  PROVE  LET d == Attributed(es, mine)[q] IN
         /\ Kept(d, new, mine) /\ Kept(d, new, FALSE)
         /\ DOMAIN d.flights = DOMAIN es[q].flights
<1> DEFINE e == es[q]
           Marked(pages) == [i \in DOMAIN pages |-> [pages[i] EXCEPT !.mine = mine]]
           Fl(s) == [i \in DOMAIN s |-> IF s[i].current
                       THEN [s[i] EXCEPT !.pages = Marked(s[i].pages)] ELSE s[i]]
           d == [e EXCEPT !.pages = Marked(e.pages), !.flights = Fl(e.flights)]
           F == Fl(e.flights)
<1>1. Attributed(es, mine)[q] = d
  BY DEF Attributed, Each
<1>2. e \in Entry /\ e.pages \in Seq(Page) /\ e.flights \in Seq(Flight)
  BY DEF Kept, Sound, Entry
<1>3. ASSUME NEW pages \in Seq(Page)
      PROVE  /\ Marked(pages) \in Seq(Page) /\ DOMAIN Marked(pages) = DOMAIN pages
             /\ \A i \in DOMAIN pages : Marked(pages)[i].new = pages[i].new
             /\ \A i \in DOMAIN pages : Marked(pages)[i].mine = mine
  <2>1. \A i \in DOMAIN pages : pages[i] \in Page
    BY LenProperties, ElementOfSeq
  <2>2. Marked(pages) \in [DOMAIN pages -> Page]
    BY <2>1 DEF Page
  <2>3. \A i \in DOMAIN pages : /\ Marked(pages)[i].new = pages[i].new
                                /\ Marked(pages)[i].mine = mine
    BY <2>1 DEF Page
  <2> HIDE DEF Marked
  <2> QED
    BY <2>2, <2>3, MappedSeq
<1> HIDE DEF Marked
<1>4. /\ F \in Seq(Flight) /\ DOMAIN F = DOMAIN e.flights
      /\ \A i \in DOMAIN e.flights :
           /\ F[i].current = e.flights[i].current /\ F[i].seen = e.flights[i].seen
           /\ e.flights[i].current => F[i].pages = Marked(e.flights[i].pages)
           /\ e.flights[i].pages \in Seq(Page)
  <2>1. \A i \in DOMAIN e.flights : e.flights[i] \in Flight
    BY <1>2, LenProperties, ElementOfSeq
  <2>2. \A i \in DOMAIN e.flights :
          e.flights[i].pages \in Seq(Page) /\ Marked(e.flights[i].pages) \in Seq(Page)
    BY <1>3, <2>1 DEF Flight
  <2>3. \A i \in DOMAIN e.flights :
          /\ F[i] \in Flight
          /\ F[i].current = e.flights[i].current /\ F[i].seen = e.flights[i].seen
          /\ e.flights[i].current => F[i].pages = Marked(e.flights[i].pages)
    BY <2>1, <2>2 DEF Flight
  <2>4. F \in [DOMAIN e.flights -> Flight]
    BY <2>3
  <2> HIDE DEF F
  <2> QED
    BY <1>2, <2>2, <2>3, <2>4, MappedSeq
<1>5. /\ d \in Entry /\ d.flights = F /\ d.pages = Marked(e.pages)
      /\ d.fetching = e.fetching /\ d.status = e.status /\ d.mounted = e.mounted
      /\ d.invalidated = e.invalidated
  <2> HIDE DEF F, Fl
  <2>1. Fl(e.flights) \in Seq(Flight) /\ Marked(e.pages) \in Seq(Page) /\ F = Fl(e.flights)
    BY <1>2, <1>3, <1>4 DEF F
  <2> QED
    BY <1>2, <2>1 DEF Entry
<1> HIDE DEF d, F, Fl
<1>6. Current(d) <=> Current(e)
  <2>1. Current(d) => Current(e)
    BY <1>4, <1>5 DEF Current
  <2>2. Current(e) => Current(d)
    BY <1>4, <1>5 DEF Current
  <2> QED
    BY <2>1, <2>2
<1>7. \A i \in DOMAIN F : F[i].current => F[i].seen = "now" /\ Pure(F[i], new, mine)
  <2> SUFFICES ASSUME NEW i \in DOMAIN F, F[i].current
               PROVE  F[i].seen = "now" /\ Pure(F[i], new, mine)
    OBVIOUS
  <2>1. e.flights[i].seen = "now" /\ (new => AllNew(e.flights[i]))
    BY <1>4 DEF Kept, Sound, Pure
  <2>2. F[i].pages = Marked(e.flights[i].pages) /\ e.flights[i].pages \in Seq(Page)
    BY <1>4
  <2>3. (new => AllNew(F[i])) /\ (mine => AllMine(F[i]))
    BY <1>3, <2>1, <2>2 DEF AllNew, AllMine
  <2> QED
    BY <1>4, <2>1, <2>3 DEF Pure
<1>8. Pure(d, new /\ CountsAsFresh(d), mine)
  <2>1. (new /\ CountsAsFresh(e)) => AllNew(e)
    BY DEF Kept, Sound, Pure
  <2>2. AllNew(e) => AllNew(d)
    BY <1>2, <1>3, <1>5 DEF AllNew
  <2>3. mine => AllMine(d)
    BY <1>2, <1>3, <1>5 DEF AllMine
  <2> QED
    BY <1>5, <2>1, <2>2, <2>3 DEF Pure, CountsAsFresh
<1>9. \A i, j \in DOMAIN F : F[i].current /\ F[j].current => i = j
  BY <1>4 DEF Kept, Sound
<1>10. Sound(d, new, mine) /\ Sound(d, new, FALSE)
  BY <1>5, <1>6, <1>7, <1>8, <1>9 DEF Kept, Sound, Pure
<1>11. Waiting(e) => Waiting(d)
  BY <1>5, <1>6 DEF Waiting
<1>12. Kept(d, new, mine) /\ Kept(d, new, FALSE)
  BY <1>5, <1>10, <1>11 DEF Kept
<1> QED
  BY <1>1, <1>4, <1>5, <1>12

-----------------------------------------------------------------------------
(* The client: what holds of every entry, by the kind of its query and
   whether the client has heard of the present visitor. *)

Applies(c, q, new, mine) ==
  (new => q \in Plain) /\ (mine => c.heard)

ClientSound(c) ==
  /\ c \in Client
  /\ \A q \in Queries, new, mine \in BOOLEAN :
       Applies(c, q, new, mine) => Sound(c.entries[q], new, mine)

ClientKept(c) ==
  /\ c \in Client
  /\ \A q \in Queries, new, mine \in BOOLEAN :
       Applies(c, q, new, mine) => Kept(c.entries[q], new, mine)

Inv == ClientKept(client)

(* An operation on the entry of q keeps what it was. *)
Keeps(q, e, d) ==
  \A new, mine \in BOOLEAN : (new => q \in Plain) =>
    /\ Sound(e, new, mine) => Sound(d, new, mine)
    /\ Kept(e, new, mine) => Kept(d, new, mine)

LEMMA BecomesNext ==
  ASSUME NEW c \in Client, Becomes(c)
  PROVE  client' = c
BY DEF Becomes, client, Client

(* The reloads of the mounted queries make every entry Kept. *)
LEMMA TellIsKept ==
  ASSUME NEW c, ClientSound(c), NEW forChange \in BOOLEAN
  PROVE  ClientKept(Tell(c, forChange))
<1> DEFINE E == [q \in Queries |-> IF c.entries[q].mounted
                   THEN Reload(c.entries[q], forChange, 0, 0) ELSE c.entries[q]]
           d == Tell(c, forChange)
<1>1. \A q \in Queries : E[q] \in Entry
  <2> SUFFICES ASSUME NEW q \in Queries PROVE E[q] \in Entry
    OBVIOUS
  <2>1. Sound(c.entries[q], FALSE, FALSE)
    BY DEF ClientSound, Applies
  <2>2. Kept(Reload(c.entries[q], forChange, 0, 0), FALSE, FALSE)
    BY <2>1, ReloadIsKept
  <2> QED
    BY <2>1, <2>2 DEF Kept, Sound
<1>2. d = [c EXCEPT !.entries = E]
  BY DEF Tell
<1>3. ASSUME NEW q \in Queries, NEW new \in BOOLEAN, NEW mine \in BOOLEAN,
             Applies(c, q, new, mine)
      PROVE  Kept(E[q], new, mine)
  <2>1. Sound(c.entries[q], new, mine)
    BY <1>3 DEF ClientSound
  <2>2. Kept(Reload(c.entries[q], forChange, 0, 0), new, mine)
    BY <2>1, ReloadIsKept
  <2> QED
    BY <2>1, <2>2 DEF Kept
<1> HIDE DEF E, d
<1>4. /\ d \in Client /\ d.entries = E /\ d.heard = c.heard
  <2>1. E \in [Queries -> Entry]
    <3>1. E = [q \in Queries |-> E[q]]
      BY DEF E
    <3> QED
      BY <1>1, <3>1
  <2> QED
    BY <1>2, <2>1 DEF ClientSound, Client
<1>5. ClientKept(d)
  BY <1>3, <1>4 DEF ClientKept, Applies
<1> QED
  BY <1>5 DEF d

(* Forgetting the visitor leaves every entry Sound. *)
LEMMA ForgetIsSound ==
  ASSUME NEW c \in Client, NEW last \in BOOLEAN
  PROVE  /\ ClientSound(Forget(c, last))
         /\ \A q \in Queries : DOMAIN Forget(c, last).entries[q].flights
                                 = DOMAIN c.entries[q].flights
<1> DEFINE E == [q \in Queries |-> Emptied(c.entries[q], c.final, last)]
           d == Forget(c, last)
<1>1. ASSUME NEW q \in Queries, NEW new \in BOOLEAN, NEW mine \in BOOLEAN
      PROVE  Sound(E[q], new, mine) /\ DOMAIN E[q].flights = DOMAIN c.entries[q].flights
  <2>1. c.entries[q] \in Entry /\ c.final \in BOOLEAN
    BY DEF Client
  <2> QED
    BY <2>1, EmptiedIsSound
<1>2. \A q \in Queries : E[q] \in Entry
  BY <1>1 DEF Sound
<1>3. d = [entries |-> E, heard |-> TRUE, final |-> last]
  BY DEF Forget
<1>4. E \in [Queries -> Entry]
  BY <1>2
<1> HIDE DEF E, d
<1>5. d \in Client /\ d.entries = E
  BY <1>3, <1>4 DEF Client
<1>6. ClientSound(d) /\ \A q \in Queries :
        DOMAIN d.entries[q].flights = DOMAIN c.entries[q].flights
  BY <1>1, <1>5 DEF ClientSound
<1> QED
  BY <1>6 DEF d

(* An epoch is taken for the present visitor's. *)
LEMMA TakenIsKept ==
  ASSUME Inv
  PROVE  /\ ClientKept(Taken(client)) /\ ClientSound(Taken(client))
         /\ \A q \in Queries : DOMAIN Taken(client).entries[q].flights
                                 = DOMAIN entries[q].flights
<1> DEFINE d == Taken(client)
           E == Attributed(entries, TRUE)
<1>1. client \in Client /\ client.entries = entries /\ client.final = final
  BY DEF Inv, ClientKept, client
<1>2. ASSUME NEW q \in Queries, NEW new \in BOOLEAN, new => q \in Plain
      PROVE  /\ Kept(E[q], new, TRUE) /\ Kept(E[q], new, FALSE)
             /\ DOMAIN E[q].flights = DOMAIN entries[q].flights
  <2>1. Kept(entries[q], new, FALSE)
    BY <1>1, <1>2 DEF Inv, ClientKept, Applies
  <2> QED
    BY <2>1, AttributedIsKept
<1>3. d \in Client /\ d.entries = E /\ d.heard
  <2>1. \A q \in Queries : E[q] \in Entry
    BY <1>2 DEF Kept, Sound
  <2>2. E = [q \in Queries |-> E[q]]
    BY DEF Attributed
  <2> HIDE DEF E
  <2>3. E \in [Queries -> Entry]
    BY <2>1, <2>2
  <2>4. d = [client EXCEPT !.heard = TRUE, !.entries = E]
    BY <1>1 DEF Taken, E
  <2> HIDE DEF d
  <2> QED
    BY <1>1, <2>3, <2>4 DEF Client
<1> HIDE DEF d, E
<1>4. \A q \in Queries, new, mine \in BOOLEAN :
        Applies(d, q, new, mine) => Kept(d.entries[q], new, mine)
  BY <1>2, <1>3 DEF Applies
<1>5. ClientKept(d) /\ ClientSound(d)
  BY <1>3, <1>4 DEF ClientKept, ClientSound, Kept
<1>6. \A q \in Queries : DOMAIN d.entries[q].flights = DOMAIN entries[q].flights
  BY <1>2, <1>3
<1> QED
  BY <1>5, <1>6 DEF d

(* checkEpoch: what a read finds. *)
LEMMA CheckedIsSound ==
  ASSUME Inv
  PROVE  /\ ClientSound(Checked(client))
         /\ ~Forgets(client) => ClientKept(Checked(client))
         /\ \A q \in Queries : DOMAIN Checked(client).entries[q].flights
                                 = DOMAIN entries[q].flights
<1>1. client \in Client /\ client.entries = entries /\ client.heard = heard
  BY DEF Inv, ClientKept, client
<1>2. ClientKept(client) /\ ClientSound(client)
  BY DEF Inv, ClientKept, ClientSound, Kept
<1>3. CASE heard
  BY <1>1, <1>2, <1>3 DEF Checked, Forgets
<1>4. CASE ~heard /\ Forgets(client)
  <2>1. Checked(client) = Forget(client, Reloading(client))
    BY <1>1, <1>4 DEF Checked
  <2>2. Reloading(client) \in BOOLEAN
    BY DEF Reloading
  <2> QED
    BY <1>1, <1>4, <2>1, <2>2, ForgetIsSound
<1>5. CASE ~heard /\ ~Forgets(client)
  <2>1. Checked(client) = Taken(client)
    BY <1>1, <1>5 DEF Checked
  <2> QED
    BY <1>5, <2>1, TakenIsKept
<1> QED
  BY <1>3, <1>4, <1>5

(* One entry changes by an operation that keeps what it was. *)
LEMMA WithEntry ==
  ASSUME NEW c, ClientSound(c), NEW q \in Queries, NEW d, Keeps(q, c.entries[q], d)
  PROVE  LET D == [c EXCEPT !.entries[q] = d] IN
         ClientSound(D) /\ (ClientKept(c) => ClientKept(D))
<1> DEFINE D == [c EXCEPT !.entries[q] = d]
<1>1. c \in Client /\ c.entries \in [Queries -> Entry]
  BY DEF ClientSound, Client
<1>2. d \in Entry
  <2>1. Applies(c, q, FALSE, FALSE)
    BY DEF Applies
  <2>2. Sound(c.entries[q], FALSE, FALSE)
    BY <2>1 DEF ClientSound
  <2> QED
    BY <2>2 DEF Keeps, Sound
<1>3. /\ D \in Client /\ D.heard = c.heard
      /\ D.entries = [c.entries EXCEPT ![q] = d]
  BY <1>1, <1>2 DEF Client
<1> HIDE DEF D
<1>4. D.entries[q] = d /\ \A k \in Queries \ {q} : D.entries[k] = c.entries[k]
  BY <1>1, <1>3
<1>5. \A k \in Queries, new, mine \in BOOLEAN :
        Applies(D, k, new, mine) <=> Applies(c, k, new, mine)
  BY <1>3 DEF Applies
<1>6. ClientSound(D)
  <2> SUFFICES ASSUME NEW k \in Queries, NEW new \in BOOLEAN, NEW mine \in BOOLEAN,
                      Applies(c, k, new, mine)
               PROVE  Sound(D.entries[k], new, mine)
    BY <1>3, <1>5 DEF ClientSound
  <2>1. Sound(c.entries[k], new, mine)
    BY DEF ClientSound
  <2> QED
    BY <1>4, <2>1 DEF Keeps, Applies
<1>7. ASSUME ClientKept(c) PROVE ClientKept(D)
  <2> SUFFICES ASSUME NEW k \in Queries, NEW new \in BOOLEAN, NEW mine \in BOOLEAN,
                      Applies(c, k, new, mine)
               PROVE  Kept(D.entries[k], new, mine)
    BY <1>3, <1>5 DEF ClientKept
  <2>1. Kept(c.entries[k], new, mine)
    BY <1>7 DEF ClientKept
  <2> QED
    BY <1>4, <2>1 DEF Keeps, Applies
<1> QED
  BY <1>6, <1>7 DEF D

(* A read with the operation it does, and the microtask that follows. *)
LEMMA ReadKeepsInv ==
  ASSUME Inv, NEW q \in Queries, NEW d, Keeps(q, Checked(client).entries[q], d),
         LET c == [Checked(client) EXCEPT !.entries[q] = d] IN
         Becomes(IF Forgets(client) THEN Tell(c, TRUE) ELSE c)
  PROVE  Inv'
<1> DEFINE c == [Checked(client) EXCEPT !.entries[q] = d]
           n == IF Forgets(client) THEN Tell(c, TRUE) ELSE c
<1>1. ClientSound(c) /\ (~Forgets(client) => ClientKept(c))
  BY CheckedIsSound, WithEntry
<1> HIDE DEF c
<1>2. Forgets(client) => ClientKept(Tell(c, TRUE))
  BY <1>1, TellIsKept
<1>3. ClientKept(n) /\ Becomes(n)
  BY <1>1, <1>2 DEF c
<1> HIDE DEF n
<1>4. client' = n
  BY <1>3, BecomesNext DEF ClientKept
<1> QED
  BY <1>3, <1>4 DEF Inv

-----------------------------------------------------------------------------
(* The steps *)

LEMMA InitInv == Init => Inv
<1> SUFFICES ASSUME Init PROVE Inv
  OBVIOUS
<1>1. \A q \in Queries : /\ entries[q] \in Entry /\ entries[q].flights = <<>>
                         /\ entries[q].pages = <<>> /\ ~entries[q].fetching
                         /\ ~entries[q].mounted
  BY EmptySeq DEF Init, Entry
<1>2. client \in Client /\ client.entries = entries
  BY <1>1 DEF Init, client, Client
<1>3. \A q \in Queries, new, mine \in BOOLEAN : Kept(entries[q], new, mine)
  BY <1>1 DEF Kept, Sound, Current, Pure, AllNew, AllMine
<1> QED
  BY <1>2, <1>3 DEF Inv, ClientKept

(* A component mounts: its query is fetched unless it may count as fresh. *)
LEMMA MountKeeps ==
  ASSUME NEW q, NEW e, NEW d,
         LET m == [e EXCEPT !.mounted = TRUE] IN
         d = Fetched(m) \/ (MayBeFresh(e) /\ d = m)
  PROVE  Keeps(q, e, d)
<1> DEFINE m == [e EXCEPT !.mounted = TRUE]
<1> SUFFICES ASSUME NEW new \in BOOLEAN, NEW mine \in BOOLEAN, Sound(e, new, mine)
             PROVE  Kept(d, new, mine)
  BY DEF Keeps, Kept
<1>1. /\ m \in Entry /\ m.flights = e.flights /\ m.fetching = e.fetching
      /\ m.pages = e.pages /\ m.status = e.status /\ m.invalidated = e.invalidated
  BY DEF Sound, Entry
<1> HIDE DEF m
<1>2. Sound(m, new, mine) /\ (Current(m) <=> Current(e))
  BY <1>1 DEF Sound, Current, Pure, AllNew, AllMine, CountsAsFresh
<1>3. CASE d = Fetched(m)
  BY <1>2, <1>3, FetchIsKept
<1>4. CASE MayBeFresh(e) /\ d = m
  BY <1>1, <1>2, <1>4 DEF Kept, Sound, Waiting, MayBeFresh
<1> QED
  BY <1>3, <1>4 DEF m

(* A call of the application. *)
LEMMA CallKeepsInv == Inv /\ ClientCalls => Inv'
<1> SUFFICES ASSUME Inv, ClientCalls PROVE Inv'
  OBVIOUS
<1>1. ASSUME NEW q \in Queries, ReadQuery(q) PROVE Inv'
  <2>1. Keeps(q, Checked(client).entries[q], Checked(client).entries[q])
    BY DEF Keeps
  <2> QED
    BY <1>1, <2>1, ReadKeepsInv DEF ReadQuery, Reads
<1>2. ASSUME NEW q \in Queries, Fetch(q) PROVE Inv'
  <2> DEFINE e == Checked(client).entries[q]
  <2>1. Keeps(q, e, Fetched(e)) /\ Keeps(q, e, e)
    BY FetchIsKept DEF Keeps, Kept
  <2>2. Keeps(q, e, IF MayBeFresh(e) THEN e ELSE Fetched(e))
    BY <2>1
  <2> QED
    BY <1>2, <2>1, <2>2, ReadKeepsInv DEF Fetch, Reads
<1>3. ASSUME NEW q \in Queries, Refetch(q) PROVE Inv'
  <2> DEFINE e == Checked(client).entries[q]
  <2>1. Keeps(q, e, Reload(e, FALSE, 0, 0))
    BY ReloadIsKept DEF Keeps, Kept
  <2> QED
    BY <1>3, <2>1, ReadKeepsInv DEF Refetch, Reads
<1>4. ASSUME NEW q \in Queries, FetchPage(q) PROVE Inv'
  <2> DEFINE e == Checked(client).entries[q]
  <2>1. q \notin Plain
    BY <1>4, KindsAssumption DEF FetchPage
  <2>2. Keeps(q, e, WithPage(e))
    BY <2>1, WithPageIsSound DEF Keeps, Kept
  <2> QED
    BY <1>4, <2>2, ReadKeepsInv DEF FetchPage, Reads
<1>5. ASSUME NEW q \in Queries, SetQueryData(q) PROVE Inv'
  <2> DEFINE e == Checked(client).entries[q]
  <2>1. Keeps(q, e, Written(e))
    BY WriteIsKept DEF Keeps, Kept, Sound
  <2> QED
    BY <1>5, <2>1, ReadKeepsInv DEF SetQueryData, Reads, Written
<1>6. ASSUME NEW q \in Queries, Invalidate(q) PROVE Inv'
  <2> DEFINE e == Checked(client).entries[q]
             i == Invalidated(e)
             d == IF i.mounted THEN Reload(i, FALSE, 0, 0) ELSE i
  <2>1. Keeps(q, e, d)
    <3> SUFFICES ASSUME NEW new \in BOOLEAN, NEW mine \in BOOLEAN, Sound(e, new, mine)
                 PROVE  Kept(d, new, mine)
      BY DEF Keeps, Kept
    <3>1. Sound(i, new, mine)
      BY InvalidatedIsSound
    <3> QED
      BY <3>1, ReloadIsKept DEF Kept
  <2> QED
    BY <1>6, <2>1, ReadKeepsInv DEF Invalidate, Reads
<1>7. ASSUME ClearClient PROVE Inv'
  <2>1. client \in Client
    BY DEF Inv, ClientKept
  <2>2. ClientKept(Tell(Forget(client, FALSE), FALSE))
    BY <2>1, ForgetIsSound, TellIsKept
  <2>3. client' = Tell(Forget(client, FALSE), FALSE)
    BY <1>7, <2>2, BecomesNext DEF ClearClient, ClientKept
  <2> QED
    BY <2>2, <2>3 DEF Inv
<1>8. ASSUME NEW q \in Queries, Mount(q) PROVE Inv'
  <2> DEFINE e == Checked(client).entries[q]
             m == [e EXCEPT !.mounted = TRUE]
  <2>1. Keeps(q, e, Fetched(m))
    BY MountKeeps
  <2>2. Keeps(q, e, IF MayBeFresh(e) THEN m ELSE Fetched(m))
    BY <2>1, MountKeeps
  <2> QED
    BY <1>8, <2>1, <2>2, ReadKeepsInv DEF Mount, Reads
<1>9. ASSUME NEW q \in Queries, Unmount(q) PROVE Inv'
  <2> DEFINE d == [entries[q] EXCEPT !.mounted = FALSE]
             c == [client EXCEPT !.entries[q] = d]
  <2>1. client \in Client /\ client.entries = entries /\ entries \in [Queries -> Entry]
    BY DEF Inv, ClientKept, client, Client
  <2>2. Keeps(q, entries[q], d)
    <3> SUFFICES ASSUME NEW new \in BOOLEAN, NEW mine \in BOOLEAN,
                        Sound(entries[q], new, mine)
                 PROVE  Kept(d, new, mine)
      BY DEF Keeps, Kept
    <3>1. /\ d \in Entry /\ d.flights = entries[q].flights /\ ~d.mounted
          /\ d.fetching = entries[q].fetching /\ d.pages = entries[q].pages
          /\ d.status = entries[q].status /\ d.invalidated = entries[q].invalidated
      BY DEF Sound, Entry
    <3> HIDE DEF d
    <3> QED
      BY <3>1 DEF Kept, Sound, Current, Pure, AllNew, AllMine, CountsAsFresh
  <2>3. ClientSound(client)
    BY DEF Inv, ClientKept, ClientSound, Kept
  <2>4. ClientKept(c)
    BY <2>1, <2>2, <2>3, WithEntry DEF Inv
  <2>5. client' = c
    <3>1. entries' = [entries EXCEPT ![q] = d]
      BY <1>9, <2>1 DEF Unmount
    <3>2. UNCHANGED <<heard, final>>
      BY <1>9 DEF Unmount
    <3> HIDE DEF d
    <3> QED
      BY <3>1, <3>2 DEF client
  <2> QED
    BY <2>4, <2>5 DEF Inv
<1> QED
  BY <1>1, <1>2, <1>3, <1>4, <1>5, <1>6, <1>7, <1>8, <1>9 DEF ClientCalls

(* A fetch lands. *)
LEMMA LandKeepsInv ==
  ASSUME Inv, NEW q \in Queries, NEW i \in DOMAIN entries[q].flights,
         NEW ok \in BOOLEAN, Land(q, i, ok)
  PROVE  Inv'
<1> DEFINE takes == Takes(entries[q].flights[i])
           t == Taken(client)
<1>1. ASSUME NEW e, DOMAIN e.flights = DOMAIN entries[q].flights
      PROVE  Keeps(q, e, Settled(q, e, i, ok))
  BY <1>1, SettledIsSound DEF Keeps, Kept
<1>2. CASE ~takes
  <2> DEFINE e == Checked(client).entries[q]
  <2>1. Keeps(q, e, Settled(q, e, i, ok))
    BY <1>1, CheckedIsSound
  <2> QED
    BY <1>2, <2>1, ReadKeepsInv DEF Land
<1>3. CASE takes
  <2> DEFINE d == [t EXCEPT !.entries[q] = Settled(q, t.entries[q], i, ok)]
  <2>1. /\ ClientKept(t) /\ ClientSound(t)
        /\ DOMAIN t.entries[q].flights = DOMAIN entries[q].flights
    BY TakenIsKept
  <2>2. Keeps(q, t.entries[q], Settled(q, t.entries[q], i, ok))
    BY <1>1, <2>1
  <2>3. Becomes(d)
    BY <1>3 DEF Land
  <2> HIDE DEF t
  <2>4. ClientKept(d)
    BY <2>1, <2>2, WithEntry
  <2> HIDE DEF d
  <2>5. client' = d
    BY <2>3, <2>4, BecomesNext DEF ClientKept
  <2> QED
    BY <2>4, <2>5 DEF Inv
<1> QED
  BY <1>2, <1>3

(* The cookie rotates: what was read for the last visitor is not for this
   one, but nobody has heard of this one yet. *)
LEMMA ChangeEpochKeepsInv == Inv /\ ChangeEpoch => Inv'
<1> SUFFICES ASSUME Inv, ChangeEpoch PROVE Inv'
  OBVIOUS
<1>1. final \in BOOLEAN /\ client.entries = entries
  BY DEF Inv, ClientKept, client, Client
<1>2. entries' = Attributed(entries, FALSE) /\ heard' = FALSE /\ final' = final
  BY DEF ChangeEpoch
<1>3. \A q \in Queries, new \in BOOLEAN :
        (new => q \in Plain) => Kept(entries'[q], new, FALSE)
  <2> SUFFICES ASSUME NEW q \in Queries, NEW new \in BOOLEAN, new => q \in Plain
               PROVE  Kept(Attributed(entries, FALSE)[q], new, FALSE)
    BY <1>2
  <2>1. Kept(entries[q], new, FALSE)
    BY <1>1 DEF Inv, ClientKept, Applies
  <2> QED
    BY <2>1, AttributedIsKept
<1>4. client' \in Client /\ client'.entries = entries' /\ client'.heard = FALSE
  <2>1. \A q \in Queries : entries'[q] \in Entry
    BY <1>3 DEF Kept, Sound
  <2>2. entries' = [q \in Queries |-> entries'[q]]
    BY <1>2 DEF Attributed
  <2>3. entries' \in [Queries -> Entry]
    BY <2>1, <2>2
  <2> QED
    BY <1>1, <1>2, <2>3 DEF client, Client
<1> QED
  BY <1>3, <1>4 DEF Inv, ClientKept, Applies

(* Every step keeps every entry. *)
LEMMA NextInv == Inv /\ [Next]_vars => Inv'
<1> SUFFICES ASSUME Inv, [Next]_vars PROVE Inv'
  OBVIOUS
<1>1. CASE UNCHANGED vars
  BY <1>1 DEF vars, client, Inv
<1> QED
  BY <1>1, CallKeepsInv, LandKeepsInv, ChangeEpochKeepsInv DEF Next, Lands

(* Every entry of the cache, every fetch in flight and every page keeps its
   type. *)
THEOREM ClientTypeCorrect == Spec => []TypeOK
<1>1. Inv => TypeOK
  BY DEF Inv, ClientKept, TypeOK
<1> QED
  BY <1>1, InitInv, NextInv, PTL DEF Spec

(* A plain query that counts as fresh was asked for after its last
   invalidation, whatever fetches were in flight. *)
THEOREM AlwaysFreshAfterInvalidation == Spec => []FreshAfterInvalidation
<1>1. Inv => FreshAfterInvalidation
  <2> SUFFICES ASSUME Inv, NEW q \in Plain, CountsAsFresh(entries[q])
               PROVE  AllNew(entries[q])
    BY DEF FreshAfterInvalidation
  <2>1. Kept(entries[q], TRUE, FALSE)
    BY DEF Inv, ClientKept, Applies, Queries, client
  <2> QED
    BY <2>1 DEF Kept, Sound, Pure
<1> QED
  BY <1>1, InitInv, NextInv, PTL DEF Spec

(* Nothing that was read for an earlier visitor is shown to this one. *)
THEOREM ShownIsAlwaysTheirs == Spec => []ShownIsTheirs
<1>1. Inv => ShownIsTheirs
  <2> SUFFICES ASSUME Inv, heard, NEW q \in Queries
               PROVE  AllMine(entries[q])
    BY DEF ShownIsTheirs, AllMine
  <2>1. Kept(entries[q], FALSE, TRUE)
    BY DEF Inv, ClientKept, Applies, client
  <2> QED
    BY <2>1 DEF Kept, Sound, Pure
<1> QED
  BY <1>1, InitInv, NextInv, PTL DEF Spec

(* A mounted query never waits for nothing: while it is pending or says it
   is fetching, a fetch that may publish is in flight. *)
THEOREM MountedIsAlwaysLoaded == Spec => []MountedIsLoaded
<1>1. Inv => MountedIsLoaded
  <2> SUFFICES ASSUME Inv, NEW q \in Queries, entries[q].mounted
               PROVE  Waiting(entries[q])
    BY DEF MountedIsLoaded, Waiting
  <2>1. Kept(entries[q], FALSE, FALSE)
    BY DEF Inv, ClientKept, Applies, client
  <2> QED
    BY <2>1 DEF Kept
<1> QED
  BY <1>1, InitInv, NextInv, PTL DEF Spec
=============================================================================
