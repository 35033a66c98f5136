----------------------------- MODULE PageCache -----------------------------
(***************************************************************************)
(* The page cache that withISR() puts in front of an app (packages/web/    *)
(* src/isr.ts).  Each location answers its requests from the store, or     *)
(* renders, once for all who miss together; a stale page is served while   *)
(* another is rendered behind it.                                          *)
(*                                                                         *)
(* A page is the version of the data it was rendered from.  Whether a      *)
(* stored page is fresh, whether a memo has run out and whether a render   *)
(* fails are choices.  The requests are anonymous GETs of the one page.    *)
(***************************************************************************)
EXTENDS KVPages

CONSTANTS
  Empty, Off,  \* the data cache when it holds nothing, and when there is none
  Apps,        \* how the app may answer for each version of the data, and
               \* whether its loaders have a data cache
  MaxRequests, \* bound: requests, numbered as they arrive
  Home,        \* the location the requests come to
  MaxTroubles  \* bound: calls that fail, and requests that come elsewhere

ASSUME AppsAssumption ==
  Apps \subseteq [answers : [Version -> {"page", "private", "gone"}], cached : BOOLEAN]
ASSUME HomeAssumption == Home \in Locations
ASSUME RequestsAssumption == MaxRequests \in Nat
ASSUME TroublesAssumption == MaxTroubles \in Nat

VARIABLES
  data,    \* the version of the data
  kind,    \* how the app answers for each version
  loaded,  \* the loaders' data cache: its version, Empty, or Off
  cold,    \* coldRenders: who renders a missing page at a location
  memo,    \* uncacheable: locations that go past the store
  pc,      \* requests, and the regeneration of each location
  at,      \* the location of a request
  made,    \* the page a request or a regeneration has in hand
  tag,     \* the epoch of its tag, of a page read from the store
  fence,   \* when a render began
  owed,    \* history: what was promised where a request arrived
  troubles

cacheVars == <<data, kind, loaded, cold, memo, pc, at, made, tag, fence, owed, troubles>>

Requests == 1..MaxRequests
Renders == Requests \cup Locations

ASSUME MarkersAssumption == {Empty, Off} \cap Version = {} /\ Empty # Off
ASSUME RendersAssumption == Requests \cap Locations = {} /\ NoOne \notin Renders

CacheTypeOK ==
  /\ PagesTypeOK
  /\ data \in Version
  /\ kind \in {app.answers : app \in Apps}
  /\ loaded \in Version \cup {Empty, Off}
  /\ cold \in [Locations -> Requests \cup {NoOne}]
  /\ memo \subseteq Locations
  /\ pc \in [Renders -> {"idle", "get", "tag", "wait", "render", "store", "done"}]
  /\ at \in [Requests -> Locations \cup {NoOne}]
  /\ made \in [Renders -> Version]
  /\ tag \in [Requests -> Nat]
  /\ fence \in [Renders -> Nat]
  /\ owed \in [Requests -> Version]
  /\ troubles \in 0..MaxTroubles

CacheInit ==
  /\ PagesInit
  /\ data = 0
  /\ \E app \in Apps :
       /\ kind = app.answers
       /\ loaded = IF app.cached THEN Empty ELSE Off
  /\ kv.page # NoPage => kind[0] = "page"
  /\ cold = [l \in Locations |-> NoOne]
  /\ memo = {}
  /\ pc = [x \in Renders |-> "idle"]
  /\ at = [r \in Requests |-> NoOne]
  /\ made = [x \in Renders |-> 0]
  /\ tag = [r \in Requests |-> 0]
  /\ fence = [x \in Renders |-> 0]
  /\ owed = [r \in Requests |-> 0]
  /\ troubles = 0

At(x) == IF x \in Locations THEN x ELSE at[x]

(* What a loader reads. *)
Visible == IF loaded \in Version THEN loaded ELSE data

(* What the purges a location knows of promise. *)
Promised(l) ==
  LET a == view[l].path.covers
      b == view[l].tag.covers
  IN IF a > b THEN a ELSE b

Trouble == troubles < MaxTroubles /\ troubles' = troubles + 1

-----------------------------------------------------------------------------
(* X go to pc `to`; renders take their fence as they begin. *)
Go(X, to) ==
  /\ pc' = [x \in Renders |-> IF x \in X THEN to ELSE pc[x]]
  /\ fence' = [x \in Renders |-> IF x \notin X THEN fence[x]
                                 ELSE IF to = "render" THEN clock ELSE 0]

(* The requests X are answered, and forgotten. *)
Answered(X) ==
  /\ at' = [r \in Requests |-> IF r \in X THEN NoOne ELSE at[r]]
  /\ made' = [x \in Renders |-> IF x \in X THEN 0 ELSE made[x]]
  /\ owed' = [r \in Requests |-> IF r \in X THEN 0 ELSE owed[r]]

(* handler(): a memo that has not run out sends the request past the store. *)
Arrive(r, l) ==
  /\ pc[r] = "idle"
  /\ \A q \in Requests : q < r => pc[q] # "idle"
  /\ at' = [at EXCEPT ![r] = l]
  /\ IF l = Home THEN UNCHANGED troubles ELSE Trouble
  /\ owed' = [owed EXCEPT ![r] = Promised(l)]
  /\ \/ l \in memo /\ Go({r}, "render") /\ UNCHANGED memo
     \/ Go({r}, "get") /\ memo' = memo \ {l}
  /\ UNCHANGED <<pagesVars, data, kind, loaded, cold, made, tag>>

(* renderCold(): the first to miss renders, the others wait for it. *)
RenderCold(r) ==
  LET l == at[r]
  IN IF cold[l] = NoOne THEN Go({r}, "render") /\ cold' = [cold EXCEPT ![l] = r]
                        ELSE Go({r}, "wait") /\ UNCHANGED cold

Get(r) ==
  LET here == view[at[r]]
  IN /\ pc[r] = "get"
     /\ IF PathCurrent(here)
        THEN /\ Go({r}, "tag")
             /\ made' = [made EXCEPT ![r] = here.page.made]
             /\ tag' = [tag EXCEPT ![r] = here.page.tag]
             /\ UNCHANGED cold
        ELSE RenderCold(r) /\ UNCHANGED <<made, tag>>
     /\ UNCHANGED <<pagesVars, data, kind, loaded, memo, at, owed, troubles>>

(* A hit that is stale has the page rendered again, unless it is being so. *)
Hit(r) ==
  LET l == at[r]
  IN /\ Answered({r})
     /\ \/ Go({r}, "done")
        \/ /\ pc' = [pc EXCEPT ![r] = "done", ![l] = IF @ = "idle" THEN "render" ELSE @]
           /\ fence' = [fence EXCEPT ![l] = IF pc[l] = "idle" THEN clock ELSE @]

GetTag(r) ==
  /\ pc[r] = "tag"
  /\ tag' = [tag EXCEPT ![r] = 0]
  /\ IF tag[r] = view[at[r]].tag.at
     THEN Hit(r) /\ UNCHANGED cold
     ELSE /\ RenderCold(r)
          /\ made' = [made EXCEPT ![r] = 0]
          /\ UNCHANGED <<at, owed>>
  /\ UNCHANGED <<pagesVars, data, kind, loaded, memo, troubles>>

(* A get() that rejects, or takes too long, is a miss. *)
GetFails(r) ==
  /\ pc[r] \in {"get", "tag"}
  /\ Trouble
  /\ tag' = [tag EXCEPT ![r] = 0]
  /\ made' = [made EXCEPT ![r] = 0]
  /\ RenderCold(r)
  /\ UNCHANGED <<pagesVars, data, kind, loaded, memo, at, owed>>

-----------------------------------------------------------------------------
(* render() and regenerate() *)

(* Those who wait for r's render. *)
Waiting(r) == {q \in Requests : pc[q] = "wait" /\ cold[at[r]] = r /\ at[q] = at[r]}

(* Those of them who are left to render for themselves: all of them, if the
   page may not be shared. *)

(* Mutant: they are not told. *)
OnTheirOwnNever(r, shared) == {}
OnTheirOwn(r, shared) == IF shared THEN {} ELSE Waiting(r)

(* r answers with the page it has, which those who wait are handed too. *)
Ends(r, shared) ==
  LET done == {r} \cup (IF shared THEN Waiting(r) ELSE {})
      again == OnTheirOwn(r, shared)
  IN /\ pc' = [x \in Renders |-> IF x \in done THEN "done"
                                 ELSE IF x \in again THEN "render" ELSE pc[x]]
     /\ fence' = [x \in Renders |-> IF x \in done THEN 0
                                    ELSE IF x \in again THEN clock ELSE fence[x]]
     /\ cold' = [l \in Locations |-> IF cold[l] = r THEN NoOne ELSE cold[l]]
     /\ Answered(done)

(* The app answers with a page that may be stored. *)
Shareable(x) ==
  /\ kind[Visible] = "page"
  /\ StoreCall(x, At(x), Visible, fence[x])
  /\ memo' = IF x \in Requests THEN memo \ {at[x]} ELSE memo
  /\ made' = [made EXCEPT ![x] = Visible]
  /\ Go({x}, "store")
  /\ UNCHANGED <<cold, at, owed>>

(* It answers with one that may not, which is remembered if it says so... *)
Withheld(r) ==
  /\ r \in Requests
  /\ kind[Visible] # "page"
  /\ memo' = IF kind[Visible] = "private" THEN memo \cup {at[r]} ELSE memo
  /\ Ends(r, FALSE)
  /\ UNCHANGED pagesVars

(* ... and which withdraws the stored one. *)
Withdrawn(l) ==
  /\ l \in Locations
  /\ kind[Visible] # "page"
  /\ Purge(l, l, "path", Visible)
  /\ Go({l}, "store")
  /\ UNCHANGED <<cold, memo, at, made, owed>>

Render(x) ==
  /\ pc[x] = "render"
  /\ loaded' = IF loaded = Empty THEN data ELSE loaded
  /\ Shareable(x) \/ Withheld(x) \/ Withdrawn(x)
  /\ UNCHANGED <<data, kind, tag, troubles>>

(* The app fails, or answers with an error. *)
RenderFails(x) ==
  /\ pc[x] = "render"
  /\ \/ x \in Requests /\ Ends(x, FALSE)
     \/ x \in Locations /\ Go({x}, "idle") /\ UNCHANGED <<cold, at, made, owed>>
  /\ UNCHANGED <<pagesVars, data, kind, loaded, memo, tag, troubles>>

(* The store has the page, or has not: it is answered either way. *)
Stored(x) ==
  /\ pc[x] = "store"
  /\ ~Waits(x)
  /\ \/ x \in Requests /\ Ends(x, TRUE)
     \/ /\ x \in Locations
        /\ Go({x}, "idle")
        /\ made' = [made EXCEPT ![x] = 0]
        /\ UNCHANGED <<cold, at, owed>>
  /\ UNCHANGED <<pagesVars, data, kind, loaded, memo, tag, troubles>>

StoreFails(x) ==
  /\ pc[x] = "store"
  /\ Trouble
  /\ Fails(x)
  /\ UNCHANGED <<data, kind, loaded, cold, memo, pc, at, made, tag, fence, owed>>

-----------------------------------------------------------------------------
Answering(r) == Get(r) \/ GetTag(r) \/ Render(r) \/ RenderFails(r) \/ Stored(r)

CacheNext ==
  \/ \E r \in Requests :
       \/ \E l \in Locations : Arrive(r, l)
       \/ Answering(r) \/ GetFails(r) \/ StoreFails(r)
  \/ \E l \in Locations : Render(l) \/ RenderFails(l) \/ Stored(l) \/ StoreFails(l)
  \/ /\ Serve \/ \E l \in Locations, n \in Names : Spread(l, n)
     /\ UNCHANGED cacheVars
=============================================================================
