----------------------------- MODULE MemoryCache -----------------------------
(***************************************************************************)
(* The store behind a cache: MemoryCache (packages/cache/src/              *)
(* memory-cache.ts), with the epochs by which setIfFence() tells what has  *)
(* changed since fence().  Each operation is one step of whoever sends it. *)
(*                                                                         *)
(* A row holds the version of the data its value was made from.  Time is   *)
(* a choice: a row turns stale and expires when it pleases.  maxEntries is *)
(* 0, so nothing is evicted for room.                                      *)
(***************************************************************************)
EXTENDS Integers, FiniteSets

CONSTANTS
  Keys, Tags,
  NoRow,     \* the row of a key that has none
  MaxSource, \* bound: changes of the data
  MaxTracked \* MAX_TRACKED_CHANGES

ASSUME KeysAssumption == IsFiniteSet(Keys) /\ IsFiniteSet(Tags)
ASSUME TrackedAssumption == MaxTracked \in Nat \ {0}
ASSUME SourceAssumption == MaxSource \in Nat

VARIABLES
  row,         \* rows
  epoch,       \* epoch
  keyChanged,  \* keyChanges: the epoch of a key's latest change, 0 if not tracked
  tagChanged,  \* tagChanges
  clearedAt,   \* clearedAt
  forgottenAt  \* forgottenAt

storeVars == <<row, epoch, keyChanged, tagChanged, clearedAt, forgottenAt>>

Version == 0..MaxSource

Row == [version : Version, tags : SUBSET Tags, stale : BOOLEAN, loaded : BOOLEAN]

ASSUME NoRowAssumption == NoRow \notin Row

StoreTypeOK ==
  /\ row \in [Keys -> Row \cup {NoRow}]
  /\ epoch \in Nat
  /\ keyChanged \in [Keys -> 0..epoch]
  /\ tagChanged \in [Tags -> 0..epoch]
  /\ clearedAt \in 0..epoch
  /\ forgottenAt \in 0..epoch

StoreInit ==
  /\ row = [k \in Keys |-> NoRow]
  /\ epoch = 0
  /\ keyChanged = [k \in Keys |-> 0]
  /\ tagChanged = [t \in Tags |-> 0]
  /\ clearedAt = 0
  /\ forgottenAt = 0

-----------------------------------------------------------------------------
(* The names with a change on record, the new one included, and the oldest
   of them if they are too many. *)
Tracked(changed, x) == {y \in DOMAIN changed : y = x \/ changed[y] > 0}

TooOld(changed, x) ==
  IF Cardinality(Tracked(changed, x)) > MaxTracked
  THEN {y \in Tracked(changed, x) \ {x} :
          \A z \in Tracked(changed, x) \ {x} : changed[y] <= changed[z]}
  ELSE {}

(* record() *)
Record(changed, x) ==
  [y \in DOMAIN changed |-> IF y = x THEN epoch + 1
                            ELSE IF y \in TooOld(changed, x) THEN 0 ELSE changed[y]]

(* Mutant: what was forgotten is not remembered. *)
ForgottenNever(changed, x) == forgottenAt
Forgotten(changed, x) ==
  IF \E y \in TooOld(changed, x) : changed[y] > forgottenAt
  THEN CHOOSE e \in {changed[y] : y \in TooOld(changed, x)} : e > forgottenAt
  ELSE forgottenAt

KeyChanges(k) ==
  /\ epoch' = epoch + 1
  /\ keyChanged' = Record(keyChanged, k)
  /\ forgottenAt' = Forgotten(keyChanged, k)
  /\ UNCHANGED <<tagChanged, clearedAt>>

StoreSet(k, r) ==
  /\ row' = [row EXCEPT ![k] = r]
  /\ KeyChanges(k)

StoreDelete(k) ==
  /\ row' = [row EXCEPT ![k] = NoRow]
  /\ KeyChanges(k)

Tagged(t) == {k \in Keys : row[k] # NoRow /\ t \in row[k].tags}

StoreInvalidate(t) ==
  /\ row' = [k \in Keys |-> IF k \in Tagged(t) THEN NoRow ELSE row[k]]
  /\ epoch' = epoch + 1
  /\ tagChanged' = Record(tagChanged, t)
  /\ forgottenAt' = Forgotten(tagChanged, t)
  /\ UNCHANGED <<keyChanged, clearedAt>>

StoreClear ==
  /\ row' = [k \in Keys |-> NoRow]
  /\ epoch' = epoch + 1
  /\ keyChanged' = [k \in Keys |-> 0]
  /\ tagChanged' = [t \in Tags |-> 0]
  /\ clearedAt' = epoch + 1
  /\ UNCHANGED forgottenAt

StoreFence == epoch

(* What setIfFence() compares. *)
Outrun(k, ts, token) ==
  \/ token < clearedAt \/ token < forgottenAt
  \/ keyChanged[k] > token
  \/ \E t \in ts : tagChanged[t] > token

StoreSetIfFence(k, r, token) ==
  IF Outrun(k, r.tags, token) THEN UNCHANGED storeVars ELSE StoreSet(k, r)

(* staleAt passes; expiresAt does. *)
Age(k) ==
  /\ row[k] # NoRow
  /\ \/ ~row[k].stale /\ row' = [row EXCEPT ![k].stale = TRUE]
     \/ row' = [row EXCEPT ![k] = NoRow]
  /\ UNCHANGED <<epoch, keyChanged, tagChanged, clearedAt, forgottenAt>>
=============================================================================
