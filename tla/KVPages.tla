------------------------------ MODULE KVPages ------------------------------
(***************************************************************************)
(* KVCacheStore (packages/web/src/isr.ts): rendered pages in a key-value   *)
(* namespace that its locations read late, and purges that leave a page    *)
(* and move an epoch it was stored under.  There is one page, which has    *)
(* one tag.                                                                *)
(*                                                                         *)
(* A purge's epoch is kept as its place in the order of kvClock(), 0 if    *)
(* there was none: the locations' clocks agree, and tell two moments       *)
(* apart.  `covers` is history: the version of the data that the purge     *)
(* promises whoever knows of it.                                           *)
(***************************************************************************)
EXTENDS Naturals

CONSTANTS
  Locations, \* processes of the app, each with its view of the namespace
  MaxChanges,
  NoPage,
  NoOne      \* the caller of a call nobody waits for any more

ASSUME ChangesAssumption == MaxChanges \in Nat

VARIABLES
  kv,       \* what the namespace holds under each name
  view,     \* what each location reads there
  calls,    \* calls of the store on their way, and who waits for them
  clock,    \* kvClock(): the purges so far
  overtaken \* history: an epoch has been put over a later one

pagesVars == <<kv, view, calls, clock, overtaken>>

Version == 0..MaxChanges
Names == {"page", "path", "tag"}
Epoch == [at : Nat, covers : Version]
Page == [made : Version, path : Nat, tag : Nat] \cup {NoPage}

ASSUME NoPageAssumption == NoPage \notin [made : Version, path : Nat, tag : Nat]

Namespace == [page : Page, path : Epoch, tag : Epoch]

PagesTypeOK ==
  /\ kv \in Namespace
  /\ view \in [Locations -> Namespace]
  /\ clock \in Nat
  /\ overtaken \in BOOLEAN

NeverPurged == [at |-> 0, covers |-> 0]

(* The page may have been stored before anything was purged. *)
PagesInit ==
  /\ kv \in [page : {NoPage, [made |-> 0, path |-> 0, tag |-> 0]},
            path : {NeverPurged}, tag : {NeverPurged}]
  /\ view = [l \in Locations |-> kv]
  /\ calls = {}
  /\ clock = 0
  /\ overtaken = FALSE

-----------------------------------------------------------------------------
(* get(): the page and the epoch of its path are read together, the epoch of
   its tag after them. *)
PathCurrent(v) == v.page # NoPage /\ v.page.path = v.path.at

Readable(v) == PathCurrent(v) /\ v.page.tag = v.tag.at

-----------------------------------------------------------------------------
(* Calls on their way *)

Waits(x) == \E c \in calls : c.by = x

(* set(): a render that began before a purge known here is not stored. *)

(* Mutant: it is, under the epoch of that purge. *)
TooLateNever(c) == FALSE
TooLate(c) == view[c.at].path.at > c.fence \/ view[c.at].tag.at > c.fence

ReadEpochs(c) ==
  LET here == view[c.at]
      put == [do |-> "put", by |-> c.by, at |-> c.at, name |-> "page",
              value |-> [made |-> c.made, path |-> here.path.at, tag |-> here.tag.at]]
  IN /\ c.do = "set"
     /\ calls' = (calls \ {c}) \cup (IF TooLate(c) THEN {} ELSE {put})
     /\ UNCHANGED <<kv, view, clock, overtaken>>

PutLands(c) ==
  /\ c.do = "put"
  /\ kv' = [kv EXCEPT ![c.name] = c.value]
  /\ view' = [view EXCEPT ![c.at][c.name] = c.value]
  /\ calls' = calls \ {c}
  /\ overtaken' = (overtaken \/ (c.name # "page" /\ c.value.at < kv[c.name].at))
  /\ UNCHANGED clock

Serve == \E c \in calls : ReadEpochs(c) \/ PutLands(c)

(* What was put under a name reaches a location. *)
Spread(l, n) ==
  /\ view[l][n] # kv[n]
  /\ view' = [view EXCEPT ![l][n] = kv[n]]
  /\ UNCHANGED <<kv, calls, clock, overtaken>>

(* delete() and invalidateTag() *)
Purge(x, l, name, covers) ==
  /\ clock' = clock + 1
  /\ calls' = calls \cup {[do |-> "put", by |-> x, at |-> l, name |-> name,
                           value |-> [at |-> clock + 1, covers |-> covers]]}
  /\ UNCHANGED <<kv, view, overtaken>>

StoreCall(x, l, made, fence) ==
  /\ calls' = calls \cup {[do |-> "set", by |-> x, at |-> l, made |-> made, fence |-> fence]}
  /\ UNCHANGED <<kv, view, clock, overtaken>>

(* x learns that its call failed, by a rejection or as storeTimeoutMs runs
   out: the call is lost, or goes on with nobody waiting for it. *)
Fails(x) ==
  /\ Waits(x)
  /\ LET lost == {c \in calls : c.by = x}
         left == {[c EXCEPT !.by = NoOne] : c \in lost}
     IN calls' \in {calls \ lost, (calls \ lost) \cup left}
  /\ UNCHANGED <<kv, view, clock, overtaken>>
=============================================================================
