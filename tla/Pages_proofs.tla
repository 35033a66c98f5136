---------------------------- MODULE Pages_proofs ----------------------------
(***************************************************************************)
(* Proofs about what keeps a page true to the data: the Invalidation       *)
(* pipeline over the page cache, for any requests, operations, locations,  *)
(* changes and faults, and LiveRefresh, for any finite set of keys, any    *)
(* processes, any size of their histories and any number of faults.  Spec, *)
(* Init and Next are LiveRefresh's.                                        *)
(*                                                                         *)
(* Invalidation: an epoch, wherever it is (in the store, in a location's   *)
(* view of it, in a call on its way), seals a version of the data: no page *)
(* older than the version is read under it, nor will be one that a render  *)
(* has yet to store (SealedAt).  A purge's new epoch seals every version   *)
(* there is, for its `at` is later than the fence of any render begun      *)
(* (Clocked), and a seal is never broken (SealedStays).  So an operation   *)
(* past its page stages has sealed its change under each name it purged    *)
(* (OperationsSeal), and a request that arrives was promised no more than  *)
(* the epochs it will compare with seal (RequestsOwed).                    *)
(***************************************************************************)
EXTENDS Invalidation, LiveRefresh, FiniteSetTheorems, SequenceTheorems,
        WellFoundedInduction, TLAPS

-----------------------------------------------------------------------------
(* THE PAGES: their definitions *)

Callers == UNION {Renders, Writers, {NoOne}}
EpochNames == {"path", "tag"}
RealPage == [made : Version, path : Nat, tag : Nat]
SetCall == [do : {"set"}, by : Callers, at : Locations, made : Version, fence : Nat]
PagePut == [do : {"put"}, by : Callers, at : Locations, name : {"page"}, value : RealPage]
EpochPut == [do : {"put"}, by : Callers, at : Locations, name : EpochNames, value : Epoch]

(* An operation that has begun and is not over. *)
InProgress(w) == stage[w] \in Stages \cup {"failed"}

(* Whoever is served or runs is at a location, and a run that has failed knows
   its stage. *)
Placed ==
  /\ \A r \in Requests : at[r] \in Locations <=> pc[r] \notin {"idle", "done"}
  /\ \A w \in Writers : InProgress(w) => place[w] \in Locations
  /\ \A w \in Writers : stage[w] = "failed" => failed[w] # "none"

(* The types, and what a call on its way carries. *)
PipelineTypes ==
  /\ PipelineTypeOK
  /\ calls \subseteq SetCall \cup PagePut \cup EpochPut
  /\ Placed

-----------------------------------------------------------------------------
(* The stages of a run. *)
LEMMA RunStages ==
  ASSUME NEW w, NEW l, NEW T, NEW v
  PROVE  /\ RunFrom(1, w, l, T, v) <=>
              IF "tag" \in T /\ loaded # Off THEN To(w, "data") ELSE RunFrom(2, w, l, T, v)
         /\ RunFrom(2, w, l, T, v) <=>
              PurgeBy(IF "path" \in T THEN "path" ELSE "tag", w, l, T, v)
         /\ RunFrom(3, w, l, T, v) <=> To(w, "publish")
         /\ RunFrom(4, w, l, T, v) <=> To(w, "cdn")
<1>1. /\ Order[1] = "data" /\ Order[2] = "pages" /\ Order[3] = "publish" /\ Order[4] = "cdn"
      /\ 1 + 1 = 2
  BY DEF Order
<1>2. RunFrom(2, w, l, T, v) <=> PurgeBy(IF "path" \in T THEN "path" ELSE "tag", w, l, T, v)
  BY <1>1 DEF RunFrom, HasWork
<1>3. RunFrom(3, w, l, T, v) <=> To(w, "publish")
  BY <1>1 DEF RunFrom, HasWork
<1>4. RunFrom(4, w, l, T, v) <=> To(w, "cdn")
  BY <1>1 DEF RunFrom, HasWork
<1>5. CASE "tag" \in T /\ loaded # Off
  BY <1>1, <1>2, <1>3, <1>4, <1>5 DEF RunFrom, HasWork
<1>6. CASE ~("tag" \in T /\ loaded # Off)
  BY <1>1, <1>2, <1>3, <1>4, <1>6 DEF RunFrom, HasWork
<1> QED
  BY <1>5, <1>6

(* The stages by number. *)
LEMMA StagePlaces ==
  /\ Place("data") = 1 /\ Place("pages") = 2 /\ Place("publish") = 3 /\ Place("cdn") = 4
<1>1. DOMAIN Order = 1..4
  BY DEF Order
<1>2. /\ Order[1] = "data" /\ Order[2] = "pages" /\ Order[3] = "publish" /\ Order[4] = "cdn"
  BY DEF Order
<1>3. \A i \in 1..4 : i = 1 \/ i = 2 \/ i = 3 \/ i = 4
  OBVIOUS
<1> QED
  BY <1>1, <1>2, <1>3 DEF Place

(* Where a run that goes on goes. *)
LEMMA GoesOnTo ==
  ASSUME NEW w
  PROVE  /\ GoOn(w, "data") <=> RunFrom(2, w, place[w], targets[w], change[w])
         /\ GoOn(w, "pages") <=> To(w, "publish")
         /\ GoOn(w, "publish") <=> To(w, "cdn")
<1>1. 1 + 1 = 2 /\ 2 + 1 = 3 /\ 3 + 1 = 4
  OBVIOUS
<1> QED
  BY <1>1, StagePlaces, RunStages DEF GoOn

LEMMA VisibleType ==
  ASSUME PipelineTypeOK
  PROVE  Visible \in Version
  BY DEF PipelineTypeOK, CacheTypeOK, Visible

LEMMA CoversType ==
  ASSUME PipelineTypeOK, NEW T, NEW v \in Version
  PROVE  Covers(T, v) \in Version
  BY DEF PipelineTypeOK, CacheTypeOK, Covers

-----------------------------------------------------------------------------
(* What a step may do. *)

(* What a request, a render and an operation may do. *)
Asks(r) ==
  \/ \E l \in Locations : Arrive(r, l)
  \/ Get(r) \/ GetTag(r) \/ GetFails(r)

EndsRender(x) == Render(x) \/ RenderFails(x) \/ Stored(x) \/ StoreFails(x)

Moves(w) == (\E l \in Locations, T \in Targets : Act(w, l, T)) \/ Running(w)

LEMMA PipelineSteps ==
  ASSUME [PipelineNext]_pipelineVars
  PROVE  \/ \E r \in Requests : UNCHANGED opVars /\ Asks(r)
         \/ \E x \in Renders : UNCHANGED opVars /\ EndsRender(x)
         \/ UNCHANGED <<opVars, cacheVars>> /\ (Serve \/ \E l \in Locations, n \in Names : Spread(l, n))
         \/ \E w \in Writers : Moves(w)
         \/ UNCHANGED pipelineVars
<1>1. CASE UNCHANGED opVars /\ CacheNext
  BY <1>1 DEF CacheNext, Answering, Renders, Asks, EndsRender
<1>2. CASE \E w \in Writers : Moves(w)
  BY <1>2
<1>3. CASE UNCHANGED pipelineVars
  BY <1>3
<1> QED
  BY <1>1, <1>2, <1>3 DEF PipelineNext, Moves

(* A purge: what it promises is what an operation promises, or a render has
   read. *)
PurgesFor(w) ==
  \E l \in Locations, n \in EpochNames, v \in Version :
    /\ v = Covers(targets'[w], change'[w])
    /\ stage' = [stage EXCEPT ![w] = n]
    /\ Purge(w, l, n, v)

(* A render that finds itself withheld purges what its fence let in. *)
Withdraws ==
  \E x \in Renders, l \in Locations, n \in EpochNames :
    Visible \in Version /\ Purge(x, l, n, Visible)

Purges == Withdraws \/ \E w \in Writers : PurgesFor(w)

(* A render sends its page to the store under the fence it read. *)
Stores ==
  \E x \in Renders :
    pc[x] = "render" /\ At(x) \in Locations /\ StoreCall(x, At(x), Visible, fence[x])

(* What any step does to the page cache. *)
PageStep ==
  \/ UNCHANGED pagesVars
  \/ Stores \/ Purges
  \/ Serve \/ \E l \in Locations, n \in Names : Spread(l, n)
  \/ \E x \in Renders \cup Writers : Fails(x)

LEMMA AtRender ==
  ASSUME PipelineTypes, NEW x \in Renders, pc[x] \notin {"idle", "done"}
  PROVE  At(x) \in Locations
  BY DEF PipelineTypes, Placed, At, Renders

LEMMA PurgeBySteps ==
  ASSUME PipelineTypeOK, NEW w \in Writers, NEW l \in Locations, NEW n \in EpochNames,
         NEW T, NEW v \in Version, PurgeBy(n, w, l, T, v), targets'[w] = T, change'[w] = v
  PROVE  PurgesFor(w)
<1>1. Covers(T, v) \in Version
  BY CoversType
<1> QED
  BY <1>1 DEF PurgeBy, PurgesFor

LEMMA FirstRuns ==
  ASSUME PipelineTypeOK, NEW w \in Writers, NEW l \in Locations,
         NEW T \in Targets \cup {{}}, NEW v \in Version,
         RunFrom(1, w, l, T, v) \/ RunFrom(2, w, l, T, v), targets'[w] = T, change'[w] = v
  PROVE  UNCHANGED pagesVars \/ PurgesFor(w)
<1>1. CASE To(w, "data")
  BY <1>1 DEF To
<1>2. CASE RunFrom(2, w, l, T, v)
  <2>1. PurgeBy(IF "path" \in T THEN "path" ELSE "tag", w, l, T, v)
    BY <1>2, RunStages
  <2> QED
    BY <2>1, PurgeBySteps DEF EpochNames
<1> QED
  BY <1>1, <1>2, RunStages

LEMMA WriterPages ==
  ASSUME PipelineTypes, NEW w \in Writers, Moves(w)
  PROVE  UNCHANGED pagesVars \/ PurgesFor(w) \/ Fails(w)
<1>0. /\ targets[w] \in Targets \cup {{}} /\ change[w] \in Version
      /\ failed[w] \in {"none", "data", "pages", "publish", "cdn"} /\ data \in Version
      /\ change \in [Writers -> Version] /\ targets \in [Writers -> Targets \cup {{}}]
      /\ InProgress(w) => place[w] \in Locations
      /\ stage[w] = "failed" => failed[w] # "none"
  BY DEF PipelineTypes, PipelineTypeOK, CacheTypeOK, Placed
<1> USE DEF PipelineTypes
<1>1. ASSUME NEW l \in Locations, NEW T \in Targets, Act(w, l,
             T) PROVE UNCHANGED pagesVars \/ PurgesFor(w)
  <2>1. data + 1 \in Version
    BY <1>0, <1>1, ChangesAssumption DEF Act, Version
  <2>2. /\ RunFrom(1, w, l, T, data + 1) /\ targets'[w] = T /\ change'[w] = data + 1
    BY <1>0, <1>1 DEF Act
  <2> QED
    BY <2>1, <2>2, FirstRuns
<1>2. CASE ClearsData(w)
  <2>1. RunFrom(2, w, place[w], targets[w], change[w]) /\ UNCHANGED <<targets, change>>
    BY <1>2, GoesOnTo DEF ClearsData
  <2> QED
    BY <1>0, <1>2, <2>1, FirstRuns DEF ClearsData, InProgress, Stages
<1>3. CASE PurgedPath(w)
  <2>1. CASE PurgeBy("tag", w, place[w], targets[w], change[w])
    BY <1>0, <1>3, <2>1, PurgeBySteps DEF PurgedPath, InProgress, Stages, EpochNames
  <2>2. CASE GoOn(w, "pages")
    BY <2>2, GoesOnTo DEF To
  <2> QED
    BY <1>3, <2>1, <2>2 DEF PurgedPath
<1>4. CASE PurgedTag(w) \/ Publishes(w) \/ PublishFails(w)
  BY <1>4, GoesOnTo DEF PurgedTag, Publishes, PublishFails, To
<1>5. CASE PurgesCdn(w) \/ DataFails(w) \/ CdnFails(w) \/ GiveUp(w)
  BY <1>5 DEF PurgesCdn, DataFails, CdnFails, GiveUp
<1>6. CASE PurgeFails(w)
  BY <1>6 DEF PurgeFails
<1>7. CASE Retry(w)
  <2>1. /\ RunFrom(Place(failed[w]), w, place[w], targets[w], change[w])
        /\ UNCHANGED <<targets, change>> /\ place[w] \in Locations
        /\ failed[w] \in {"data", "pages", "publish", "cdn"}
    BY <1>0, <1>7 DEF Retry, InProgress
  <2>2. CASE failed[w] \in {"data", "pages"}
    BY <1>0, <2>1, <2>2, StagePlaces, FirstRuns
  <2>3. CASE failed[w] \in {"publish", "cdn"}
    BY <2>1, <2>3, StagePlaces, RunStages DEF To
  <2> QED
    BY <2>1, <2>2, <2>3
<1> QED
  BY <1>1, <1>2, <1>3, <1>4, <1>5, <1>6, <1>7 DEF Moves, Running

LEMMA PageSteps ==
  ASSUME PipelineTypes, [PipelineNext]_pipelineVars
  PROVE  PageStep
<1>1. ASSUME NEW r \in Requests, Asks(r) PROVE UNCHANGED pagesVars
  BY <1>1 DEF Asks, Arrive, Get, GetTag, GetFails
<1>2. ASSUME NEW x \in Renders, UNCHANGED opVars, EndsRender(x) PROVE PageStep
  <2>1. CASE Render(x)
    <3>1. CASE Shareable(x)
      BY <2>1, <3>1, AtRender DEF Render, Shareable, PageStep, Stores
    <3>2. CASE Withheld(x)
      BY <3>2 DEF Withheld, PageStep
    <3>3. CASE Withdrawn(x)
      BY <1>2, <2>1, <3>3, VisibleType DEF PipelineTypes, Render, Withdrawn, PageStep,
         Purges, Withdraws, EpochNames
    <3> QED
      BY <2>1, <3>1, <3>2, <3>3 DEF Render
  <2>2. CASE RenderFails(x) \/ Stored(x)
    BY <2>2 DEF RenderFails, Stored, PageStep
  <2>3. CASE StoreFails(x)
    BY <2>3 DEF StoreFails, PageStep
  <2> QED
    BY <1>2, <2>1, <2>2, <2>3 DEF EndsRender
<1>3. ASSUME NEW w \in Writers, Moves(w) PROVE PageStep
  BY <1>3, WriterPages DEF PageStep, Purges
<1>4. CASE UNCHANGED pipelineVars
  BY <1>4 DEF pipelineVars, PageStep
<1> QED
  BY <1>1, <1>2, <1>3, <1>4, PipelineSteps DEF PageStep

-----------------------------------------------------------------------------
(* The pages, and the calls on their way. *)

(* The pages on their way to be stored. *)
SetCalls == {c \in calls : c.do = "set"}

(* The pages there are: stored, in a view, or in a put on its way. *)
StoredPages ==
  {p \in RealPage :
     \/ p = kv.page
     \/ \E l \in Locations : p = view[l].page
     \/ \E c \in calls : c.do = "put" /\ c.name = "page" /\ p = c.value}

(* The epochs of a name there are, likewise. *)
Epochs(n) ==
  {e \in Epoch :
     \/ e = kv[n]
     \/ \E l \in Locations : e = view[l][n]
     \/ \E c \in calls : c.do = "put" /\ c.name = n /\ e = c.value}

PagesKnown == PagesTypeOK /\ calls \subseteq SetCall \cup PagePut \cup EpochPut

(* A new epoch, and what it promises to cover. *)
NewEpoch(n, e) ==
  /\ e.at = clock + 1 /\ clock' = clock + 1
  /\ SetCalls' = SetCalls /\ StoredPages' = StoredPages
  /\ \/ e.covers = Visible
     \/ \E w \in Writers : /\ stage' = [stage EXCEPT ![w] = n]
                           /\ e.covers = Covers(targets'[w], change'[w])

(* A step stores only pages that were on their way, sends only what a render
   has read, and makes a new epoch only by a purge. *)
PagesMove ==
  /\ PagesKnown'
  /\ clock' \in {clock, clock + 1}
  /\ \A p \in StoredPages' :
       p \in StoredPages \/ \E c \in SetCalls : p.made = c.made /\ p.path <= c.fence /\ p.tag <= c.fence
  /\ \A c \in SetCalls' :
       \/ \E d \in SetCalls : c.made = d.made /\ c.fence = d.fence
       \/ c.made = Visible /\ \E x \in Renders : c.fence = fence[x]
  /\ \A n \in EpochNames : \A e \in Epochs(n)' :
       e \in Epochs(n) \/ NewEpoch(n, e)

(* Unless one is overtaken, an epoch grows in the store, and a view moves only
   to what is there. *)
EpochsMove ==
  /\ overtaken => overtaken'
  /\ \A n \in EpochNames :
       /\ ~overtaken' => kv'[n].at >= kv[n].at
       /\ \A l \in Locations : view'[l][n] \in {view[l][n], kv'[n]}

LEMMA KnownPages ==
  ASSUME PagesKnown
  PROVE  /\ kv.page \in RealPage \cup {NoPage} /\ NoPage \notin RealPage
         /\ \A n \in EpochNames : kv[n] \in Epoch /\ \A l \in Locations : view[l][n] \in Epoch
         /\ \A l \in Locations : view[l].page \in RealPage \cup {NoPage}
         /\ \A c \in calls : /\ c.at \in Locations
                             /\ c.do = "set" => c \in SetCall
                             /\ c.do = "put" /\ c.name = "page" => c \in PagePut
                             /\ c.do = "put" /\ c.name # "page" => c \in EpochPut
                             /\ c.do \in {"put", "set"}
<1> USE DEF PagesKnown, PagesTypeOK, Namespace, Page, RealPage, EpochNames
<1>1. kv.page \in RealPage \cup {NoPage} /\ NoPage \notin RealPage
  BY NoPageAssumption
<1>2. \A n \in EpochNames : kv[n] \in Epoch /\ \A l \in Locations : view[l][n] \in Epoch
  OBVIOUS
<1>3. \A l \in Locations : view[l].page \in RealPage \cup {NoPage}
  OBVIOUS
<1>4. \A c \in calls : /\ c.at \in Locations
                       /\ c.do = "set" => c \in SetCall
                       /\ c.do = "put" /\ c.name = "page" => c \in PagePut
                       /\ c.do = "put" /\ c.name # "page" => c \in EpochPut
                       /\ c.do \in {"put", "set"}
  BY DEF SetCall, PagePut, EpochPut
<1> QED
  BY <1>1, <1>2, <1>3, <1>4

LEMMA PagesStill ==
  ASSUME PagesKnown, UNCHANGED pagesVars
  PROVE  PagesMove /\ EpochsMove
<1>1. PagesKnown' /\ clock' = clock /\ StoredPages' = StoredPages /\ SetCalls' = SetCalls
  BY DEF PagesKnown, PagesTypeOK, pagesVars, StoredPages, SetCalls
<1>2. \A n \in EpochNames : Epochs(n)' = Epochs(n)
  BY DEF pagesVars, Epochs
<1>3. EpochsMove
  BY KnownPages DEF pagesVars, EpochsMove, Epoch
<1> QED
  BY <1>1, <1>2, <1>3 DEF PagesMove

LEMMA PagesStored ==
  ASSUME PagesKnown, Stores, Visible \in Version, fence \in [Renders -> Nat]
  PROVE  PagesMove /\ EpochsMove
<1>1. PICK x \in Renders : At(x) \in Locations /\ StoreCall(x, At(x), Visible, fence[x])
  BY DEF Stores
<1> DEFINE c == [do |-> "set", by |-> x, at |-> At(x), made |-> Visible, fence |-> fence[x]]
<1>2. c \in SetCall /\ c.do = "set" /\ c.made = Visible /\ c.fence = fence[x]
  BY <1>1 DEF SetCall, Callers
<1>3. calls' = calls \cup {c} /\ UNCHANGED <<kv, view, clock, overtaken>>
  BY <1>1 DEF StoreCall
<1> HIDE DEF c
<1>4. PagesKnown' /\ clock' = clock
  BY <1>2, <1>3 DEF PagesKnown, PagesTypeOK
<1>5. StoredPages' = StoredPages
  BY <1>2, <1>3 DEF StoredPages
<1>6. SetCalls' = SetCalls \cup {c}
  BY <1>2, <1>3 DEF SetCalls
<1>7. \A n \in EpochNames : Epochs(n)' = Epochs(n)
  BY <1>2, <1>3 DEF Epochs
<1>8. EpochsMove
  BY <1>3, KnownPages DEF EpochsMove, Epoch
<1> QED
  BY <1>2, <1>4, <1>5, <1>6, <1>7, <1>8 DEF PagesMove

LEMMA PagesPurged ==
  ASSUME PagesKnown, Purges
  PROVE  PagesMove /\ EpochsMove
<1>1. PICK l \in Locations, n \in EpochNames, v \in Version, x \in Renders \cup Writers :
        /\ Purge(x, l, n, v)
        /\ \/ v = Visible
           \/ \E w \in Writers : stage' = [stage EXCEPT ![w] = n] /\ v = Covers(targets'[w], change'[w])
  BY DEF Purges, PurgesFor, Withdraws
<1> DEFINE e == [at |-> clock + 1, covers |-> v]
           c == [do |-> "put", by |-> x, at |-> l, name |-> n, value |-> e]
<1>2. clock \in Nat /\ e \in Epoch /\ e.at = clock + 1 /\ e.covers = v
  BY DEF Epoch, PagesKnown, PagesTypeOK
<1>3. c.do = "put" /\ c.name = n /\ c.value = e /\ n # "page"
  BY DEF EpochNames
<1>4. calls' = calls \cup {c} /\ clock' = clock + 1 /\ UNCHANGED <<kv, view, overtaken>>
  BY <1>1 DEF Purge
<1> HIDE DEF e
<1>5. c \in EpochPut
  BY <1>2 DEF EpochPut, Callers
<1> HIDE DEF c
<1>6. PagesKnown'
  BY <1>2, <1>4, <1>5 DEF PagesKnown, PagesTypeOK
<1>7. StoredPages' = StoredPages
  BY <1>3, <1>4 DEF StoredPages
<1>8. SetCalls' = SetCalls
  BY <1>3, <1>4 DEF SetCalls
<1>9. \A m \in EpochNames : \A a \in Epochs(m)' : a \in Epochs(m) \/ (m = n /\ a = e)
  BY <1>3, <1>4 DEF Epochs
<1>10. EpochsMove
  BY <1>4, KnownPages DEF EpochsMove, Epoch
<1>11. NewEpoch(n, e)
  BY <1>1, <1>2, <1>4, <1>7, <1>8 DEF NewEpoch
<1> QED
  BY <1>2, <1>4, <1>6, <1>7, <1>8, <1>9, <1>10, <1>11 DEF PagesMove

LEMMA PagesRead ==
  ASSUME PagesKnown, NEW c \in calls, ReadEpochs(c)
  PROVE  PagesMove /\ EpochsMove
<1> DEFINE p == [made |-> c.made, path |-> view[c.at].path.at, tag |-> view[c.at].tag.at]
           put == [do |-> "put", by |-> c.by, at |-> c.at, name |-> "page", value |-> p]
<1>1. c \in SetCall /\ c \in SetCalls /\ c.at \in Locations /\ c.fence \in Nat
  BY KnownPages DEF ReadEpochs, SetCalls, SetCall
<1>2. view[c.at].path \in Epoch /\ view[c.at].tag \in Epoch
  BY <1>1, KnownPages DEF EpochNames
<1>3. /\ p \in RealPage /\ p.made = c.made
      /\ p.path = view[c.at].path.at /\ p.tag = view[c.at].tag.at
  BY <1>1, <1>2 DEF RealPage, SetCall, Epoch
<1>4. ~TooLate(c) => p.path <= c.fence /\ p.tag <= c.fence
  BY <1>1, <1>2, <1>3 DEF TooLate, Epoch
<1>5. /\ calls' = (calls \ {c}) \cup (IF TooLate(c) THEN {} ELSE {put})
      /\ UNCHANGED <<kv, view, clock, overtaken>>
  BY DEF ReadEpochs
<1> HIDE DEF p
<1>6. put \in PagePut /\ put.do = "put" /\ put.name = "page" /\ put.value = p
  BY <1>1, <1>3 DEF PagePut, SetCall
<1> HIDE DEF put
<1>7. PagesKnown'
  BY <1>5, <1>6 DEF PagesKnown, PagesTypeOK
<1>8. \A q \in StoredPages' : q \in StoredPages \/ (~TooLate(c) /\ q = p)
  BY <1>5, <1>6 DEF StoredPages
<1>9. SetCalls' \subseteq SetCalls
  BY <1>5, <1>6 DEF SetCalls
<1>10. \A n \in EpochNames : \A e \in Epochs(n)' : e \in Epochs(n)
  BY <1>5, <1>6 DEF Epochs, EpochNames
<1>11. EpochsMove
  BY <1>5, KnownPages DEF EpochsMove, Epoch
<1> QED
  BY <1>1, <1>3, <1>4, <1>5, <1>7, <1>8, <1>9, <1>10, <1>11 DEF PagesMove

LEMMA PagesPut ==
  ASSUME PagesKnown, NEW c \in calls, PutLands(c)
  PROVE  PagesMove /\ EpochsMove
<1>0. /\ kv \in Namespace /\ view \in [Locations -> Namespace] /\ c.at \in Locations
      /\ clock \in Nat /\ overtaken \in BOOLEAN
  BY KnownPages DEF PagesKnown, PagesTypeOK
<1>1. /\ kv' = [kv EXCEPT ![c.name] = c.value]
      /\ view' = [view EXCEPT ![c.at][c.name] = c.value]
      /\ calls' = calls \ {c} /\ clock' = clock /\ c.do = "put"
      /\ overtaken' = (overtaken \/ (c.name # "page" /\ c.value.at < kv[c.name].at))
  BY DEF PutLands
<1>2. CASE c.name = "page"
  <2>1. c \in PagePut /\ c.value \in RealPage
    BY <1>1, <1>2, KnownPages DEF PagePut
  <2>2. /\ kv' = [kv EXCEPT !.page = c.value]
        /\ view' = [view EXCEPT ![c.at].page = c.value]
        /\ overtaken' = overtaken
    BY <1>0, <1>1, <1>2
  <2>3. kv' \in Namespace /\ view' \in [Locations -> Namespace]
    BY <1>0, <2>1, <2>2 DEF Namespace, Page, RealPage
  <2>4. PagesKnown'
    BY <1>0, <1>1, <2>2, <2>3 DEF PagesKnown, PagesTypeOK
  <2>5. /\ kv'.page = c.value
        /\ \A l \in Locations : view'[l].page \in {view[l].page, c.value}
        /\ \A n \in EpochNames : kv'[n] = kv[n] /\ \A l \in Locations : view'[l][n] = view[l][n]
    BY <1>0, <2>2 DEF Namespace, EpochNames
  <2>6. \A p \in StoredPages' : p \in StoredPages
    BY <1>1, <1>2, <2>5 DEF StoredPages
  <2>7. SetCalls' = SetCalls
    BY <1>1 DEF SetCalls
  <2>8. \A n \in EpochNames : \A e \in Epochs(n)' : e \in Epochs(n)
    BY <1>1, <2>5 DEF Epochs
  <2>9. EpochsMove
    BY <2>2, <2>5, KnownPages DEF EpochsMove, Epoch
  <2> QED
    BY <1>1, <2>4, <2>6, <2>7, <2>8, <2>9 DEF PagesMove
<1>3. ASSUME NEW n \in EpochNames, c.name = n PROVE PagesMove /\ EpochsMove
  <2>1. c \in EpochPut /\ c.value \in Epoch
    BY <1>1, <1>3, KnownPages DEF EpochPut, EpochNames
  <2>2. /\ kv' = [kv EXCEPT ![n] = c.value] /\ view' = [view EXCEPT ![c.at][n] = c.value]
        /\ overtaken' = (overtaken \/ c.value.at < kv[n].at)
    BY <1>1, <1>3 DEF EpochNames
  <2>3. kv' \in Namespace /\ view' \in [Locations -> Namespace]
    <3>1. CASE n = "path"
      BY <1>0, <2>1, <2>2, <3>1 DEF Namespace
    <3>2. CASE n = "tag"
      BY <1>0, <2>1, <2>2, <3>2 DEF Namespace
    <3> QED
      BY <3>1, <3>2 DEF EpochNames
  <2>4. PagesKnown'
    BY <1>0, <1>1, <2>2, <2>3 DEF PagesKnown, PagesTypeOK
  <2>5. /\ kv'.page = kv.page /\ \A l \in Locations : view'[l].page = view[l].page
        /\ kv'[n] = c.value /\ \A l \in Locations : view'[l][n] \in {view[l][n], c.value}
        /\ \A m \in EpochNames : m # n =>
             kv'[m] = kv[m] /\ \A l \in Locations : view'[l][m] = view[l][m]
    <3>1. CASE n = "path"
      BY <1>0, <2>2, <3>1 DEF Namespace, EpochNames
    <3>2. CASE n = "tag"
      BY <1>0, <2>2, <3>2 DEF Namespace, EpochNames
    <3> QED
      BY <3>1, <3>2 DEF EpochNames
  <2>6. \A p \in StoredPages' : p \in StoredPages
    BY <1>1, <2>5 DEF StoredPages
  <2>7. SetCalls' = SetCalls
    BY <1>1 DEF SetCalls
  <2>8. \A m \in EpochNames : \A e \in Epochs(m)' : e \in Epochs(m)
    BY <1>1, <1>3, <2>5 DEF Epochs
  <2>9. EpochsMove
    <3>1. ASSUME NEW m \in EpochNames, m # n PROVE kv'[m].at >= kv[m].at
      <4>1. kv'[m] = kv[m]
        BY <2>5, <3>1
      <4>2. kv[m].at \in Nat
        BY KnownPages DEF Epoch
      <4> QED
        BY <4>1, <4>2
    <3>2. c.value.at \in Nat /\ kv[n].at \in Nat /\ kv'[n].at = c.value.at
      BY <2>1, <2>5, KnownPages DEF Epoch
    <3>3. \A m \in EpochNames : ~overtaken' => kv'[m].at >= kv[m].at
      <4>1. ~overtaken' => kv'[n].at >= kv[n].at
        <5>1. ~overtaken' => ~(c.value.at < kv[n].at)
          BY <2>2
        <5> QED
          BY <3>2, <5>1
      <4> QED
        BY <3>1, <4>1
    <3>4. \A m \in EpochNames, l \in Locations : view'[l][m] \in {view[l][m], kv'[m]}
      BY <2>5
    <3> QED
      BY <2>2, <3>3, <3>4 DEF EpochsMove
  <2> QED
    BY <1>1, <2>4, <2>6, <2>7, <2>8, <2>9 DEF PagesMove
<1> QED
  <2>1. c.name \in {"page", "path", "tag"}
    BY <1>1, KnownPages DEF PagesKnown, PagePut, EpochPut, SetCall, EpochNames
  <2> QED
    BY <1>2, <1>3, <2>1 DEF EpochNames

LEMMA PagesSpread ==
  ASSUME PagesKnown, NEW k \in Locations, NEW n \in Names, Spread(k, n)
  PROVE  PagesMove /\ EpochsMove
<1>0. /\ kv \in Namespace /\ view \in [Locations -> Namespace]
      /\ view' = [view EXCEPT ![k][n] = kv[n]] /\ UNCHANGED <<kv, calls, clock, overtaken>>
  BY DEF PagesKnown, PagesTypeOK, Spread
<1>1. /\ view' \in [Locations -> Namespace]
      /\ \A m \in Names, l \in Locations : view'[l][m] \in {view[l][m], kv[m]}
  <2>1. CASE n = "page"
    BY <1>0, <2>1 DEF Namespace, Names
  <2>2. CASE n = "path"
    BY <1>0, <2>2 DEF Namespace, Names
  <2>3. CASE n = "tag"
    BY <1>0, <2>3 DEF Namespace, Names
  <2> QED
    BY <2>1, <2>2, <2>3 DEF Names
<1>2. \A l \in Locations : view'[l].page \in {view[l].page, kv.page}
  BY <1>1 DEF Names
<1>3. PagesKnown' /\ clock' = clock
  BY <1>0, <1>1 DEF PagesKnown, PagesTypeOK
<1>4. \A p \in StoredPages' : p \in StoredPages
  BY <1>0, <1>2 DEF StoredPages
<1>5. SetCalls' = SetCalls
  BY <1>0 DEF SetCalls
<1>6. \A m \in EpochNames : \A e \in Epochs(m)' : e \in Epochs(m)
  BY <1>0, <1>1 DEF Epochs, EpochNames, Names
<1>7. EpochsMove
  BY <1>0, <1>1, KnownPages DEF EpochsMove, Epoch, EpochNames, Names
<1> QED
  BY <1>3, <1>4, <1>5, <1>6, <1>7 DEF PagesMove

(* A call that failed goes on for nobody, with what it puts. *)
LEMMA LeftCalls ==
  ASSUME PagesKnown, NEW c \in calls
  PROVE  LET d == [c EXCEPT !.by = NoOne]
         IN /\ d \in SetCall \cup PagePut \cup EpochPut
            /\ d.by = NoOne /\ d.do = c.do /\ d.at = c.at
            /\ c.do = "set" => d.made = c.made /\ d.fence = c.fence
            /\ c.do = "put" => d.name = c.name /\ d.value = c.value
<1> DEFINE d == [c EXCEPT !.by = NoOne]
<1>0. NoOne \in Callers
  BY DEF Callers
<1>1. CASE c \in SetCall
  <2>1. /\ d \in SetCall /\ d.by = NoOne /\ d.do = c.do /\ d.at = c.at /\ d.made = c.made
        /\ d.fence = c.fence
    BY <1>0, <1>1 DEF SetCall
  <2>2. c.do = "set"
    BY <1>1 DEF SetCall
  <2> QED
    BY <2>1, <2>2
<1>2. CASE c \in PagePut
  <2>1. /\ d \in PagePut /\ d.by = NoOne /\ d.do = c.do /\ d.at = c.at /\ d.name = c.name
        /\ d.value = c.value
    BY <1>0, <1>2 DEF PagePut
  <2>2. c.do = "put"
    BY <1>2 DEF PagePut
  <2> QED
    BY <2>1, <2>2
<1>3. CASE c \in EpochPut
  <2>1. /\ d \in EpochPut /\ d.by = NoOne /\ d.do = c.do /\ d.at = c.at /\ d.name = c.name
        /\ d.value = c.value
    BY <1>0, <1>3 DEF EpochPut
  <2>2. c.do = "put"
    BY <1>3 DEF EpochPut
  <2> QED
    BY <2>1, <2>2
<1> QED
  BY <1>1, <1>2, <1>3 DEF PagesKnown

(* The calls after one of x's has failed. *)
LEMMA FailedCalls ==
  ASSUME PagesKnown, NEW x, Fails(x)
  PROVE  /\ UNCHANGED <<kv, view, clock, overtaken>>
         /\ \A d \in calls' :
              \/ d \in calls /\ d.by # x
              \/ /\ d \in SetCall \cup PagePut \cup EpochPut /\ d.by = NoOne
                 /\ \E c \in calls : /\ c.by = x /\ d.do = c.do /\ d.at = c.at
                                     /\ c.do = "set" => d.made = c.made /\ d.fence = c.fence
                                     /\ c.do = "put" => d.name = c.name /\ d.value = c.value
<1> DEFINE lost == {c \in calls : c.by = x}
           left == {[c EXCEPT !.by = NoOne] : c \in lost}
<1>1. /\ calls' \in {calls \ lost, (calls \ lost) \cup left}
      /\ UNCHANGED <<kv, view, clock, overtaken>>
  BY DEF Fails
<1>2. ASSUME NEW d \in left
      PROVE  /\ d \in SetCall \cup PagePut \cup EpochPut /\ d.by = NoOne
             /\ \E c \in calls : /\ c.by = x /\ d.do = c.do /\ d.at = c.at
                                 /\ c.do = "set" => d.made = c.made /\ d.fence = c.fence
                                 /\ c.do = "put" => d.name = c.name /\ d.value = c.value
  <2>1. PICK c \in calls : c.by = x /\ d = [c EXCEPT !.by = NoOne]
    OBVIOUS
  <2> QED
    BY <2>1, LeftCalls
<1>3. \A d \in calls \ lost : d \in calls /\ d.by # x
  OBVIOUS
<1> HIDE DEF left, lost
<1> QED
  BY <1>1, <1>2, <1>3

LEMMA PagesFailed ==
  ASSUME PagesKnown, NEW x, Fails(x)
  PROVE  PagesMove /\ EpochsMove
<1>1. PagesKnown' /\ clock' = clock
  BY FailedCalls DEF PagesKnown, PagesTypeOK
<1>2. \A p \in StoredPages' : p \in StoredPages
  BY FailedCalls DEF StoredPages
<1>3. \A c \in SetCalls' : \E d \in SetCalls : c.made = d.made /\ c.fence = d.fence
  BY FailedCalls DEF SetCalls
<1>4. \A n \in EpochNames : \A e \in Epochs(n)' : e \in Epochs(n)
  BY FailedCalls DEF Epochs
<1>5. EpochsMove
  BY FailedCalls, KnownPages DEF EpochsMove, Epoch
<1> QED
  BY <1>1, <1>2, <1>3, <1>4, <1>5 DEF PagesMove

LEMMA PagesMoves ==
  ASSUME PipelineTypes, [PipelineNext]_pipelineVars
  PROVE  PagesMove /\ EpochsMove
<1>1. PagesKnown /\ Visible \in Version /\ fence \in [Renders -> Nat]
  BY VisibleType DEF PipelineTypes, PipelineTypeOK, CacheTypeOK, PagesKnown
<1> QED
  BY <1>1, PageSteps, PagesStill, PagesStored, PagesPurged, PagesRead, PagesPut,
     PagesSpread,
     PagesFailed DEF PageStep, Serve

-----------------------------------------------------------------------------
(* Types *)

(* PipelineTypes in parts. *)
AppTypes ==
  /\ data \in Version /\ kind \in {app.answers : app \in Apps}
  /\ loaded \in Version \cup {Empty, Off} /\ troubles \in 0..MaxTroubles

RequestTypes ==
  /\ cold \in [Locations -> Requests \cup {NoOne}]
  /\ memo \subseteq Locations
  /\ pc \in [Renders -> {"idle", "get", "tag", "wait", "render", "store", "done"}]
  /\ at \in [Requests -> Locations \cup {NoOne}]
  /\ made \in [Renders -> Version]
  /\ tag \in [Requests -> Nat]
  /\ fence \in [Renders -> Nat]
  /\ owed \in [Requests -> Version]

OpTypes ==
  /\ stage \in [Writers -> Stages \cup {"idle", "failed", "done", "abandoned"}]
  /\ place \in [Writers -> Locations \cup {NoOne}]
  /\ targets \in [Writers -> Targets \cup {{}}]
  /\ change \in [Writers -> Version]
  /\ failed \in [Writers -> {"none", "data", "pages", "publish", "cdn"}]
  /\ tries \in [Writers -> 0..MaxRetries]
  /\ told \subseteq Writers

RequestsPlaced == \A r \in Requests : at[r] \in Locations <=> pc[r] \notin {"idle", "done"}

OpsPlaced ==
  /\ \A w \in Writers : InProgress(w) => place[w] \in Locations
  /\ \A w \in Writers : stage[w] = "failed" => failed[w] # "none"

LEMMA TypesAre ==
  PipelineTypes <=> PagesKnown /\ AppTypes /\ RequestTypes /\ OpTypes /\ RequestsPlaced /\ OpsPlaced
<1>1. PagesKnown => \A c \in calls :
       /\ c.by \in UNION {Renders, Writers, {NoOne}} /\ c.at \in Locations
       /\ \/ c.do = "set" /\ c.made \in Version /\ c.fence \in Nat
          \/ c.do = "put" /\ c.name \in Names /\ c.value \in (IF c.name = "page" THEN Page ELSE Epoch)
  BY DEF PagesKnown, SetCall, PagePut, EpochPut, Callers, Names, EpochNames, Page, RealPage
<1> QED
  BY <1>1 DEF PipelineTypes, PipelineTypeOK, CacheTypeOK, PagesKnown, AppTypes,
     RequestTypes, OpTypes,
     RequestsPlaced, OpsPlaced, Placed

LEMMA GoTypes ==
  ASSUME RequestTypes, clock \in Nat, NEW X, NEW to, Go(X, to),
         to \in {"idle", "get", "tag", "wait", "render", "store", "done"}
  PROVE  /\ pc' \in [Renders -> {"idle", "get", "tag", "wait", "render", "store", "done"}]
         /\ fence' \in [Renders -> Nat]
         /\ \A x \in Renders : pc'[x] = IF x \in X THEN to ELSE pc[x]
  BY DEF RequestTypes, Go

LEMMA AnsweredTypes ==
  ASSUME RequestTypes, NEW X, Answered(X)
  PROVE  /\ at' \in [Requests -> Locations \cup {NoOne}]
         /\ made' \in [Renders -> Version]
         /\ owed' \in [Requests -> Version]
         /\ \A r \in Requests :
              IF r \in X THEN at'[r] = NoOne /\ owed'[r] = 0
                         ELSE at'[r] = at[r] /\ owed'[r] = owed[r] /\ made'[r] = made[r]
<1>1. 0 \in Version
  BY ChangesAssumption DEF Version
<1> QED
  BY <1>1 DEF RequestTypes, Answered, Renders

LEMMA RenderColdTypes ==
  ASSUME RequestTypes, clock \in Nat, NEW r \in Requests, at[r] \in Locations, RenderCold(r)
  PROVE  /\ pc' \in [Renders -> {"idle", "get", "tag", "wait", "render", "store", "done"}]
         /\ fence' \in [Renders -> Nat]
         /\ cold' \in [Locations -> Requests \cup {NoOne}]
         /\ \A x \in Renders : x # r => pc'[x] = pc[x]
         /\ \/ cold[at[r]] = NoOne /\ pc'[r] = "render" /\ cold' = [cold EXCEPT ![at[r]] = r]
            \/ cold[at[r]] # NoOne /\ pc'[r] = "wait" /\ cold' = cold
<1>1. CASE cold[at[r]] = NoOne
  <2>1. Go({r}, "render") /\ cold' = [cold EXCEPT ![at[r]] = r]
    BY <1>1 DEF RenderCold
  <2> QED
    BY <1>1, <2>1, GoTypes DEF RequestTypes, Renders
<1>2. CASE cold[at[r]] # NoOne
  <2>1. Go({r}, "wait") /\ cold' = cold
    BY <1>2 DEF RenderCold
  <2> QED
    BY <1>2, <2>1, GoTypes DEF RequestTypes, Renders
<1> QED
  BY <1>1, <1>2

LEMMA EndsTypes ==
  ASSUME RequestTypes, clock \in Nat, NEW r \in Requests, NEW shared \in BOOLEAN, Ends(r,
         shared)
  PROVE  /\ pc' \in [Renders -> {"idle", "get", "tag", "wait", "render", "store", "done"}]
         /\ fence' \in [Renders -> Nat]
         /\ cold' \in [Locations -> Requests \cup {NoOne}]
         /\ at' \in [Requests -> Locations \cup {NoOne}]
         /\ made' \in [Renders -> Version]
         /\ owed' \in [Requests -> Version]
         /\ pc'[r] = "done" /\ at'[r] = NoOne /\ owed'[r] = 0
         /\ \A q \in Requests : q # r =>
              IF q \in Waiting(r)
              THEN \/ shared /\ pc'[q] = "done" /\ at'[q] = NoOne /\ owed'[q] = 0
                   \/ ~shared /\ pc'[q] = "render" /\ at'[q] = at[q] /\ owed'[q] = owed[q] /\ made'[q] = made[q]
              ELSE pc'[q] = pc[q] /\ at'[q] = at[q] /\ owed'[q] = owed[q] /\ made'[q] = made[q]
         /\ \A l \in Locations : cold'[l] = IF cold[l] = r THEN NoOne ELSE cold[l]
<1> DEFINE done == {r} \cup (IF shared THEN Waiting(r) ELSE {})
           again == OnTheirOwn(r, shared)
<1>1. /\ pc' = [x \in Renders |-> IF x \in done THEN "done"
                                 ELSE IF x \in again THEN "render" ELSE pc[x]]
      /\ fence' = [x \in Renders |-> IF x \in done THEN 0
                                    ELSE IF x \in again THEN clock ELSE fence[x]]
      /\ cold' = [l \in Locations |-> IF cold[l] = r THEN NoOne ELSE cold[l]]
      /\ Answered(done)
  BY DEF Ends
<1>2. /\ r \in done
      /\ \A q \in Requests : q # r => /\ q \in done <=> shared /\ q \in Waiting(r)
                                      /\ q \in again <=> ~shared /\ q \in Waiting(r)
  BY DEF OnTheirOwn
<1> HIDE DEF done, again
<1>3. /\ pc' \in [Renders -> {"idle", "get", "tag", "wait", "render", "store", "done"}]
      /\ fence' \in [Renders -> Nat]
      /\ cold' \in [Locations -> Requests \cup {NoOne}]
  BY <1>1 DEF RequestTypes
<1>4. pc'[r] = "done" /\ at'[r] = NoOne /\ owed'[r] = 0
  BY <1>1, <1>2, AnsweredTypes DEF Renders
<1>5. ASSUME NEW q \in Requests, q # r
      PROVE  IF q \in Waiting(r)
              THEN \/ shared /\ pc'[q] = "done" /\ at'[q] = NoOne /\ owed'[q] = 0
                   \/ ~shared /\ pc'[q] = "render" /\ at'[q] = at[q] /\ owed'[q] = owed[q] /\ made'[q] = made[q]
              ELSE pc'[q] = pc[q] /\ at'[q] = at[q] /\ owed'[q] = owed[q] /\ made'[q] = made[q]
  <2>1. pc'[q] = IF q \in done THEN "done" ELSE IF q \in again THEN "render" ELSE pc[q]
    BY <1>1 DEF Renders
  <2> QED
    BY <1>1, <1>2, <1>5, <2>1, AnsweredTypes
<1>6. \A l \in Locations : cold'[l] = IF cold[l] = r THEN NoOne ELSE cold[l]
  BY <1>1
<1> QED
  BY <1>1, <1>3, <1>4, <1>5, <1>6, AnsweredTypes

(* What a step does to a request. *)
RequestStill(r) ==
  /\ pc'[r] = pc[r] /\ at'[r] = at[r] /\ made'[r] = made[r]
  /\ tag'[r] = tag[r] /\ owed'[r] = owed[r]

RequestBegins(r) ==
  /\ pc[r] = "idle" /\ pc'[r] \in {"get", "render"}
  /\ \E l \in Locations : at'[r] = l /\ owed'[r] = Promised(l)

RequestGoesOn(r) ==
  /\ at'[r] = at[r] /\ owed'[r] = owed[r]
  /\ \/ /\ pc[r] = "get" /\ pc'[r] = "tag" /\ PathCurrent(view[at[r]])
        /\ made'[r] = view[at[r]].page.made /\ tag'[r] = view[at[r]].page.tag
     \/ pc[r] \in {"get", "tag"} /\ pc'[r] \in {"render", "wait"}
     \/ pc[r] = "render" /\ pc'[r] = "store" /\ made'[r] = Visible
     \/ pc[r] = "wait" /\ pc'[r] = "render"

RequestFinishes(r) ==
  /\ pc[r] \in {"tag", "wait", "render", "store"}
  /\ pc[r] = "tag" => tag[r] = view[at[r]].tag.at
  /\ pc'[r] = "done" /\ at'[r] = NoOne /\ owed'[r] = 0

RequestStep(r) == RequestStill(r) \/ RequestBegins(r) \/ RequestGoesOn(r) \/ RequestFinishes(r)

LEMMA AsksSteps ==
  ASSUME PagesKnown, RequestTypes, RequestsPlaced, NEW r \in Requests, Asks(r)
  PROVE  RequestTypes' /\ \A q \in Requests : RequestStep(q)
<1>0. /\ clock \in Nat /\ Requests \subseteq Renders
      /\ pc[r] \notin {"idle", "done"} => at[r] \in Locations
  BY DEF PagesKnown, PagesTypeOK, Renders, RequestsPlaced
<1>0a. \A l \in Locations : view[l].path \in Epoch /\ view[l].tag \in Epoch
                             /\ view[l].page \in RealPage \cup {NoPage}
  BY KnownPages DEF EpochNames
<1>0b. 0 \in Version
  BY ChangesAssumption DEF Version
<1>1. ASSUME NEW l \in Locations, Arrive(r, l)
      PROVE  RequestTypes' /\ \A q \in Requests : RequestStep(q)
  <2>1. PICK to \in {"get", "render"} : Go({r}, to) /\ memo' \subseteq memo
    BY <1>1 DEF Arrive
  <2>2. Promised(l) \in Version
    BY <1>0a DEF Promised, Epoch
  <2>3. RequestTypes'
    BY <1>0, <1>1, <2>1, <2>2, GoTypes DEF Arrive, RequestTypes
  <2>4. RequestBegins(r)
    BY <1>0, <1>1, <2>1, GoTypes DEF Arrive, RequestBegins, RequestTypes
  <2>5. ASSUME NEW q \in Requests, q # r PROVE RequestStill(q)
    BY <1>0, <1>1, <2>1, <2>5, GoTypes DEF Arrive, RequestStill, RequestTypes
  <2> QED
    BY <2>3, <2>4, <2>5 DEF RequestStep
<1>2. CASE Get(r)
  <2>0. at[r] \in Locations /\ view[at[r]].page \in RealPage \cup {NoPage}
    BY <1>0, <1>0a, <1>2 DEF Get
  <2>1. CASE PathCurrent(view[at[r]])
    <3>1. /\ Go({r}, "tag") /\ cold' = cold
          /\ made' = [made EXCEPT ![r] = view[at[r]].page.made]
          /\ tag' = [tag EXCEPT ![r] = view[at[r]].page.tag]
      BY <1>2, <2>1 DEF Get
    <3>2. view[at[r]].page \in RealPage
      BY <2>0, <2>1 DEF PathCurrent
    <3>3. RequestTypes'
      BY <1>0, <1>2, <3>1, <3>2, GoTypes DEF Get, RequestTypes, RealPage
    <3>4. RequestGoesOn(r)
      BY <1>0, <1>2, <2>1, <3>1, GoTypes DEF Get, RequestGoesOn, RequestTypes
    <3>5. ASSUME NEW q \in Requests, q # r PROVE RequestStill(q)
      BY <1>0, <1>2, <3>1, <3>5, GoTypes DEF Get, RequestStill, RequestTypes
    <3> QED
      BY <3>3, <3>4, <3>5 DEF RequestStep
  <2>2. CASE ~PathCurrent(view[at[r]])
    <3>1. RenderCold(r) /\ UNCHANGED <<memo, at, owed, made, tag>>
      BY <1>2, <2>2 DEF Get
    <3>2. RequestTypes'
      BY <1>0, <2>0, <3>1, RenderColdTypes DEF RequestTypes
    <3>3. RequestGoesOn(r)
      BY <1>0, <1>2, <2>0, <3>1, RenderColdTypes DEF Get, RequestGoesOn
    <3>4. ASSUME NEW q \in Requests, q # r PROVE RequestStill(q)
      BY <1>0, <2>0, <3>1, <3>4, RenderColdTypes DEF RequestStill
    <3> QED
      BY <3>2, <3>3, <3>4 DEF RequestStep
  <2> QED
    BY <2>1, <2>2
<1>3. CASE GetTag(r)
  <2>0. at[r] \in Locations /\ at[r] # r
    BY <1>0, <1>3, RendersAssumption DEF GetTag
  <2>1. CASE tag[r] = view[at[r]].tag.at
    <3>1. /\ Hit(r) /\ UNCHANGED <<cold, memo>> /\ tag' = [tag EXCEPT ![r] = 0]
          /\ pc[r] = "tag"
      BY <1>3, <2>1 DEF GetTag
    <3>2. Answered({r})
      BY <3>1 DEF Hit
    <3>3. /\ pc' \in [Renders -> {"idle", "get", "tag", "wait", "render", "store", "done"}]
          /\ fence' \in [Renders -> Nat]
          /\ pc'[r] = "done"
          /\ \A q \in Requests : q # r => pc'[q] = pc[q]
      <4>1. CASE Go({r}, "done")
        BY <1>0, <4>1, GoTypes
      <4>2. CASE /\ pc' = [pc EXCEPT ![r] = "done", ![at[r]] = IF @ = "idle" THEN "render" ELSE @]
                 /\ fence' = [fence EXCEPT ![at[r]] = IF pc[at[r]] = "idle" THEN clock ELSE @]
        BY <1>0, <2>0, <4>2, RendersAssumption DEF RequestTypes, Renders
      <4> QED
        BY <3>1, <4>1, <4>2 DEF Hit
    <3>4. RequestTypes'
      BY <3>1, <3>2, <3>3, AnsweredTypes DEF RequestTypes
    <3>5. RequestFinishes(r)
      BY <2>1, <3>1, <3>2, <3>3, AnsweredTypes DEF RequestFinishes
    <3>6. ASSUME NEW q \in Requests, q # r PROVE RequestStill(q)
      BY <3>1, <3>2, <3>3, <3>6, AnsweredTypes DEF RequestStill, RequestTypes
    <3> QED
      BY <3>4, <3>5, <3>6 DEF RequestStep
  <2>2. CASE tag[r] # view[at[r]].tag.at
    <3>1. /\ RenderCold(r) /\ made' = [made EXCEPT ![r] = 0] /\ tag' = [tag EXCEPT ![r] = 0]
          /\ UNCHANGED <<memo, at, owed>> /\ pc[r] = "tag"
      BY <1>3, <2>2 DEF GetTag
    <3>2. RequestTypes'
      BY <1>0, <1>0b, <2>0, <3>1, RenderColdTypes DEF RequestTypes
    <3>3. RequestGoesOn(r)
      BY <1>0, <2>0, <3>1, RenderColdTypes DEF RequestGoesOn
    <3>4. ASSUME NEW q \in Requests, q # r PROVE RequestStill(q)
      BY <1>0, <2>0, <3>1, <3>4, RenderColdTypes DEF RequestStill, RequestTypes
    <3> QED
      BY <3>2, <3>3, <3>4 DEF RequestStep
  <2> QED
    BY <2>1, <2>2
<1>4. CASE GetFails(r)
  <2>0. at[r] \in Locations
    BY <1>0, <1>4 DEF GetFails
  <2>1. /\ RenderCold(r) /\ made' = [made EXCEPT ![r] = 0] /\ tag' = [tag EXCEPT ![r] = 0]
        /\ UNCHANGED <<memo, at, owed>> /\ pc[r] \in {"get", "tag"}
    BY <1>4 DEF GetFails
  <2>2. RequestTypes'
    BY <1>0, <1>0b, <2>0, <2>1, RenderColdTypes DEF RequestTypes
  <2>3. RequestGoesOn(r)
    BY <1>0, <2>0, <2>1, RenderColdTypes DEF RequestGoesOn
  <2>4. ASSUME NEW q \in Requests, q # r PROVE RequestStill(q)
    BY <1>0, <2>0, <2>1, <2>4, RenderColdTypes DEF RequestStill, RequestTypes
  <2> QED
    BY <2>2, <2>3, <2>4 DEF RequestStep
<1> QED
  BY <1>1, <1>2, <1>3, <1>4 DEF Asks

LEMMA EndsSteps ==
  ASSUME PagesKnown, RequestTypes, NEW r \in Requests, NEW shared \in BOOLEAN, Ends(r,
         shared),
         memo' \subseteq Locations, UNCHANGED tag, pc[r] \in {"render", "store"}
  PROVE  RequestTypes' /\ \A q \in Requests : RequestStep(q)
<1>0. clock \in Nat
  BY DEF PagesKnown, PagesTypeOK
<1>1. RequestTypes'
  BY <1>0, EndsTypes DEF RequestTypes
<1>2. RequestFinishes(r)
  BY <1>0, EndsTypes DEF RequestFinishes
<1>3. ASSUME NEW q \in Requests, q # r, q \in Waiting(r) PROVE RequestStep(q)
  <2>1. pc[q] = "wait"
    BY <1>3 DEF Waiting
  <2>2. \/ pc'[q] = "done" /\ at'[q] = NoOne /\ owed'[q] = 0
        \/ pc'[q] = "render" /\ at'[q] = at[q] /\ owed'[q] = owed[q]
    BY <1>0, <1>3, EndsTypes
  <2> QED
    BY <2>1, <2>2 DEF RequestStep, RequestFinishes, RequestGoesOn
<1>4. ASSUME NEW q \in Requests, q # r, q \notin Waiting(r) PROVE RequestStill(q)
  BY <1>0, <1>4, EndsTypes DEF RequestStill
<1> QED
  BY <1>1, <1>2, <1>3, <1>4 DEF RequestStep

LEMMA RendersSteps ==
  ASSUME PagesKnown, AppTypes, RequestTypes, RequestsPlaced, NEW x \in Renders,
         EndsRender(x)
  PROVE  RequestTypes' /\ \A q \in Requests : RequestStep(q)
<1>0. /\ clock \in Nat /\ Requests \subseteq Renders /\ Visible \in Version /\ 0 \in Version
      /\ x \notin Locations => x \in Requests
  BY ChangesAssumption DEF PagesKnown, PagesTypeOK, Renders, AppTypes, Visible, Version
<1>0a. x \in Requests /\ pc[x] \notin {"idle", "done"} => at[x] \in Locations
  BY DEF RequestsPlaced
<1>1. CASE Render(x)
  <2>0. pc[x] = "render" /\ UNCHANGED tag
    BY <1>1 DEF Render
  <2>1. CASE Shareable(x)
    <3>1. /\ Go({x}, "store") /\ made' = [made EXCEPT ![x] = Visible]
          /\ UNCHANGED <<cold, at, owed>>
          /\ memo' \subseteq memo
      BY <2>1 DEF Shareable
    <3>2. RequestTypes'
      BY <1>0, <2>0, <3>1, GoTypes DEF RequestTypes
    <3>3. ASSUME NEW q \in Requests, q = x PROVE RequestGoesOn(q)
      BY <1>0, <2>0, <3>1, <3>3, GoTypes DEF RequestGoesOn, RequestTypes
    <3>4. ASSUME NEW q \in Requests, q # x PROVE RequestStill(q)
      BY <1>0, <2>0, <3>1, <3>4, GoTypes DEF RequestStill, RequestTypes
    <3> QED
      BY <3>2, <3>3, <3>4 DEF RequestStep
  <2>2. CASE Withheld(x)
    <3>1. /\ x \in Requests /\ Ends(x, FALSE) /\ memo' \subseteq memo \cup {at[x]}
          /\ at[x] \in Locations
      BY <1>0a, <2>0, <2>2 DEF Withheld
    <3>2. memo' \subseteq Locations
      BY <3>1 DEF RequestTypes
    <3> QED
      BY <2>0, <3>1, <3>2, EndsSteps
  <2>3. CASE Withdrawn(x)
    <3>1. Go({x}, "store") /\ UNCHANGED <<cold, memo, at, made, owed>> /\ x \notin Requests
      BY <2>3, RendersAssumption DEF Withdrawn
    <3>2. RequestTypes'
      BY <1>0, <2>0, <3>1, GoTypes DEF RequestTypes
    <3>3. ASSUME NEW q \in Requests PROVE RequestStill(q)
      BY <1>0, <2>0, <3>1, <3>3, GoTypes DEF RequestStill, RequestTypes
    <3> QED
      BY <3>2, <3>3 DEF RequestStep
  <2> QED
    BY <1>1, <2>1, <2>2, <2>3 DEF Render
<1>2. CASE RenderFails(x) \/ Stored(x)
  <2>0. pc[x] \in {"render", "store"} /\ UNCHANGED <<tag, memo>>
    BY <1>2 DEF RenderFails, Stored
  <2>1. ASSUME x \in Requests, NEW shared \in BOOLEAN, Ends(x, shared)
        PROVE  RequestTypes' /\ \A q \in Requests : RequestStep(q)
    BY <2>0, <2>1, EndsSteps DEF RequestTypes
  <2>2. CASE x \in Locations /\ Go({x}, "idle") /\ UNCHANGED <<cold, at, owed>>
             /\ made' \in {made, [made EXCEPT ![x] = 0]}
    <3>1. x \notin Requests
      BY <2>2, RendersAssumption
    <3>2. RequestTypes'
      BY <1>0, <2>0, <2>2, <3>1, GoTypes DEF RequestTypes
    <3>3. ASSUME NEW q \in Requests PROVE RequestStill(q)
      BY <1>0, <2>0, <2>2, <3>1, <3>3, GoTypes DEF RequestStill, RequestTypes
    <3> QED
      BY <3>2, <3>3 DEF RequestStep
  <2> QED
    BY <1>2, <2>1, <2>2 DEF RenderFails, Stored
<1>3. CASE StoreFails(x)
  <2>1. UNCHANGED <<cold, memo, pc, at, made, tag, fence, owed>>
    BY <1>3 DEF StoreFails
  <2> QED
    BY <2>1 DEF RequestTypes, RequestStep, RequestStill
<1> QED
  BY <1>1, <1>2, <1>3 DEF EndsRender

LEMMA MovesStill ==
  ASSUME NEW w \in Writers, Moves(w)
  PROVE  UNCHANGED <<kind, cold, memo, pc, at, made, tag, fence, owed>>
<1>1. ASSUME NEW l \in Locations, NEW T \in Targets, Act(w, l, T)
      PROVE  UNCHANGED <<kind, cold, memo, pc, at, made, tag, fence, owed>>
  BY <1>1 DEF Act
<1>2. CASE ClearsData(w) \/ DataFails(w) \/ PurgeFails(w) \/ PublishFails(w) \/ CdnFails(w)
  BY <1>2 DEF ClearsData, DataFails, PurgeFails, PublishFails, CdnFails
<1>3. CASE PurgedPath(w) \/ PurgedTag(w) \/ Publishes(w) \/ PurgesCdn(w) \/ Retry(w) \/ GiveUp(w)
  BY <1>3 DEF PurgedPath, PurgedTag, Publishes, PurgesCdn, Retry, GiveUp, cacheVars
<1> QED
  BY <1>1, <1>2, <1>3 DEF Moves, Running

LEMMA RequestSteps ==
  ASSUME PipelineTypes, [PipelineNext]_pipelineVars
  PROVE  RequestTypes' /\ \A r \in Requests : RequestStep(r)
<1>0. PagesKnown /\ AppTypes /\ RequestTypes /\ RequestsPlaced
  BY TypesAre
<1>1. CASE UNCHANGED cacheVars
  BY <1>0, <1>1 DEF cacheVars, RequestTypes, RequestStep, RequestStill
<1>2. ASSUME NEW w \in Writers,
             Moves(w) PROVE RequestTypes' /\ \A r \in Requests : RequestStep(r)
  BY <1>0, <1>2, MovesStill DEF RequestTypes, RequestStep, RequestStill
<1> QED
  BY <1>0, <1>1, <1>2, PipelineSteps, AsksSteps, RendersSteps DEF pipelineVars

LEMMA RequestsPlacedNext ==
  ASSUME PipelineTypes, [PipelineNext]_pipelineVars
  PROVE  RequestsPlaced'
<1>1. RequestsPlaced /\ NoOne \notin Locations
  BY TypesAre, RendersAssumption DEF Renders
<1>2. ASSUME NEW r \in Requests PROVE at'[r] \in Locations <=> pc'[r] \notin {"idle",
             "done"}
  <2>1. at[r] \in Locations <=> pc[r] \notin {"idle", "done"}
    BY <1>1 DEF RequestsPlaced
  <2>2. CASE RequestStill(r)
    BY <2>1, <2>2 DEF RequestStill
  <2>3. CASE RequestBegins(r)
    BY <2>3 DEF RequestBegins
  <2>4. CASE RequestGoesOn(r)
    BY <2>1, <2>4 DEF RequestGoesOn
  <2>5. CASE RequestFinishes(r)
    BY <1>1, <2>5 DEF RequestFinishes
  <2> QED
    BY <2>2, <2>3, <2>4, <2>5, RequestSteps DEF RequestStep
<1> QED
  BY <1>2 DEF RequestsPlaced

(* The data, and the data cache. *)
(* What a step does to the data and the data cache. *)
DataStep ==
  \/ UNCHANGED <<data, loaded>>
  \/ data' = data /\ loaded = Empty /\ loaded' = data
  \/ data' = data /\ loaded # Off /\ loaded' = Empty
  \/ data < MaxChanges /\ data' = data + 1 /\ loaded' = loaded

OpsRun == \A w \in Writers : stage[w] = "data" => loaded # Off /\ "tag" \in targets[w]

LEMMA TroubleType ==
  ASSUME AppTypes, Trouble
  PROVE  troubles' \in 0..MaxTroubles
  BY TroublesAssumption DEF AppTypes, Trouble

LEMMA DataSteps ==
  ASSUME AppTypes, OpsRun, [PipelineNext]_pipelineVars
  PROVE  AppTypes' /\ DataStep
<1> DEFINE Kept == kind' = kind /\ troubles' \in 0..MaxTroubles
<1>1. ASSUME NEW r \in Requests, Asks(r) PROVE UNCHANGED <<data, loaded>> /\ Kept
  BY <1>1, TroubleType DEF Asks, Arrive, Get, GetTag, GetFails, AppTypes
<1>2. ASSUME NEW x \in Renders, EndsRender(x) PROVE DataStep /\ Kept
  <2>1. CASE Render(x)
    <3>1. data' = data /\ loaded' = IF loaded = Empty THEN data ELSE loaded
      BY <2>1 DEF Render
    <3> QED
      BY <2>1, <3>1 DEF Render, DataStep, AppTypes
  <2>2. CASE RenderFails(x) \/ Stored(x) \/ StoreFails(x)
    BY <2>2, TroubleType DEF RenderFails, Stored, StoreFails, DataStep, AppTypes
  <2> QED
    BY <1>2, <2>1, <2>2 DEF EndsRender
<1>3. ASSUME NEW w \in Writers, Moves(w) PROVE DataStep /\ Kept
  <2>1. CASE \E l \in Locations, T \in Targets : Act(w, l, T)
    BY <2>1 DEF Act, DataStep, AppTypes
  <2>2. CASE ClearsData(w)
    BY <2>2 DEF ClearsData, DataStep, AppTypes, OpsRun
  <2>3. CASE DataFails(w)
    BY <2>3, TroubleType DEF DataFails, DataStep, AppTypes, OpsRun
  <2>4. CASE PurgeFails(w) \/ PublishFails(w) \/ CdnFails(w)
    BY <2>4, TroubleType DEF PurgeFails, PublishFails, CdnFails, DataStep
  <2>5. CASE PurgedPath(w) \/ PurgedTag(w) \/ Publishes(w) \/ PurgesCdn(w) \/ Retry(w) \/ GiveUp(w)
    BY <2>5 DEF PurgedPath, PurgedTag, Publishes, PurgesCdn, Retry, GiveUp, cacheVars,
       DataStep, AppTypes
  <2> QED
    BY <1>3, <2>1, <2>2, <2>3, <2>4, <2>5 DEF Moves, Running
<1>4. ASSUME UNCHANGED cacheVars PROVE UNCHANGED <<data, loaded>> /\ Kept
  BY <1>4 DEF cacheVars, AppTypes
<1> HIDE DEF Kept
<1>5. DataStep /\ Kept
  BY <1>1, <1>2, <1>3, <1>4, PipelineSteps DEF pipelineVars, DataStep
<1>6. AppTypes'
  BY <1>5, ChangesAssumption DEF AppTypes, DataStep, Version, Kept
<1> QED
  BY <1>5, <1>6

-----------------------------------------------------------------------------
(* The operations *)

(* An operation that does not move. *)
OpStill(w) ==
  /\ stage'[w] = stage[w] /\ place'[w] = place[w] /\ targets'[w] = targets[w]
  /\ change'[w] = change[w] /\ failed'[w] = failed[w] /\ (w \in told' <=> w \in told)

(* A run that goes on: where to, and with what effect on the page cache. *)
RunsTo(s, i, w, l, T, v) ==
  /\ stage' = [stage EXCEPT ![w] = s]
  /\ stage' \in [Writers -> Stages \cup {"idle", "failed", "done", "abandoned"}]
  /\ s = "data" => i = 1 /\ "tag" \in T /\ loaded # Off
  /\ i = 1 /\ s # "data" => ~("tag" \in T /\ loaded # Off)
  /\ i \in {1, 2} => s \in {"data", "path", "tag"}
  /\ s = "path" => "path" \in T
  /\ s = "tag" => "path" \notin T
  /\ i = 3 => s = "publish"
  /\ i = 4 => s = "cdn"
  /\ s \in {"path", "tag"} => i \in {1, 2} /\ Purge(w, l, s, Covers(T, v))
  /\ s \notin {"path", "tag"} => UNCHANGED pagesVars

LEMMA RunsOn ==
  ASSUME OpTypes, NEW w \in Writers, NEW l, NEW T, NEW v, NEW i \in 1..4, RunFrom(i, w, l,
         T, v)
  PROVE  \E s \in Stages : RunsTo(s, i, w, l, T, v)
<1>1. i = 1 \/ i = 2 \/ i = 3 \/ i = 4
  OBVIOUS
<1>2. ASSUME NEW s \in Stages, To(w, s)
      PROVE  /\ stage' = [stage EXCEPT ![w] = s]
             /\ stage' \in [Writers -> Stages \cup {"idle", "failed", "done", "abandoned"}]
             /\ UNCHANGED pagesVars
  BY <1>2 DEF OpTypes, To
<1>3. ASSUME NEW s \in {"path", "tag"}, PurgeBy(s, w, l, T, v)
      PROVE  /\ stage' = [stage EXCEPT ![w] = s]
             /\ stage' \in [Writers -> Stages \cup {"idle", "failed", "done", "abandoned"}]
             /\ Purge(w, l, s, Covers(T, v))
  BY <1>3 DEF OpTypes, PurgeBy, Stages
<1>4. /\ "data" \in Stages /\ "path" \in Stages /\ "tag" \in Stages /\ "publish" \in Stages
      /\ "cdn" \in Stages
  BY DEF Stages
<1>5. CASE i = 3
  <2>1. To(w, "publish")
    BY <1>5, RunStages
  <2>2. RunsTo("publish", i, w, l, T, v)
    BY <1>2, <1>4, <1>5, <2>1 DEF RunsTo
  <2> QED
    BY <1>4, <2>2
<1>6. CASE i = 4
  <2>1. To(w, "cdn")
    BY <1>6, RunStages
  <2>2. RunsTo("cdn", i, w, l, T, v)
    BY <1>2, <1>4, <1>6, <2>1 DEF RunsTo
  <2> QED
    BY <1>4, <2>2
<1>7. CASE i = 1 /\ "tag" \in T /\ loaded # Off
  <2>1. To(w, "data")
    BY <1>7, RunStages
  <2>2. RunsTo("data", i, w, l, T, v)
    BY <1>2, <1>4, <1>7, <2>1 DEF RunsTo
  <2> QED
    BY <1>4, <2>2
<1>8. CASE i \in {1, 2} /\ ~(i = 1 /\ "tag" \in T /\ loaded # Off)
  <2>1. PurgeBy(IF "path" \in T THEN "path" ELSE "tag", w, l, T, v)
    BY <1>8, RunStages
  <2>2. CASE "path" \in T
    <3>1. PurgeBy("path", w, l, T, v)
      BY <2>1, <2>2
    <3>2. RunsTo("path", i, w, l, T, v)
      BY <1>3, <1>8, <2>2, <3>1 DEF RunsTo
    <3> QED
      BY <1>4, <3>2
  <2>3. CASE "path" \notin T
    <3>1. PurgeBy("tag", w, l, T, v)
      BY <2>1, <2>3
    <3>2. RunsTo("tag", i, w, l, T, v)
      BY <1>3, <1>8, <2>3, <3>1 DEF RunsTo
    <3> QED
      BY <1>4, <3>2
  <2> QED
    BY <2>2, <2>3
<1> QED
  BY <1>1, <1>5, <1>6, <1>7, <1>8

(* What an operation names and remembers, by its stage. *)
StageInv(w) ==
  /\ InProgress(w) => place[w] \in Locations
  /\ stage[w] = "idle" => w \notin told
  /\ stage[w] = "failed" => failed[w] # "none"
  /\ stage[w] \notin {"cdn", "failed"} => failed[w] = "none"
  /\ stage[w] = "cdn" => failed[w] \in {"none", "publish"}
  /\ stage[w] # "idle" => targets[w] \in Targets
  /\ stage[w] \in EpochNames => stage[w] \in targets[w]
  /\ stage[w] = "data" => loaded # Off /\ "tag" \in targets[w]

OpsSound == \A w \in Writers : StageInv(w)

(* The step of one operation. *)
OpMoves(w) ==
  /\ OpTypes' /\ StageInv(w)'
  /\ \A v \in Writers : v # w => OpStill(v)

LEMMA ActMoves ==
  ASSUME OpTypes, AppTypes, OpsSound, NEW w \in Writers, NEW l \in Locations,
         NEW T \in Targets, Act(w, l, T)
  PROVE  OpMoves(w)
<1>0. StageInv(w) /\ stage[w] = "idle" /\ failed[w] = "none" /\ w \notin told
  BY DEF OpsSound, Act, StageInv
<1>1. "path" \in T \/ "tag" \in T
  <2> DEFINE Both == {"path", "tag"}
  <2>1. T \in (SUBSET Both) \ {{}}
    BY TargetsAssumption
  <2>2. T \subseteq Both /\ T # {}
    BY <2>1
  <2> QED
    BY <2>1, <2>2
<1>2. data + 1 \in Version
  BY ChangesAssumption DEF Act, AppTypes, Version
<1>3. PICK s \in Stages : RunsTo(s, 1, w, l, T, data + 1)
  BY RunsOn DEF Act
<1>4. /\ stage' = [stage EXCEPT ![w] = s] /\ place' = [place EXCEPT ![w] = l]
      /\ targets' = [targets EXCEPT ![w] = T] /\ change' = [change EXCEPT ![w] = data + 1]
      /\ UNCHANGED <<failed, tries, told, loaded>>
  BY <1>3 DEF Act, RunsTo
<1>5. OpTypes'
  BY <1>2, <1>3, <1>4 DEF OpTypes, RunsTo
<1>6. \A v \in Writers : v # w => OpStill(v)
  BY <1>4 DEF OpTypes, OpStill
<1>7. /\ stage'[w] = s /\ place'[w] = l /\ targets'[w] = T /\ failed'[w] = "none"
      /\ w \notin told'
      /\ loaded' = loaded
  BY <1>0, <1>4 DEF OpTypes
<1>8. /\ s \in {"data", "path", "tag"}
      /\ s = "data" => "tag" \in T /\ loaded # Off
      /\ s = "path" => "path" \in T
      /\ s = "tag" => "tag" \in T
  BY <1>1, <1>3 DEF RunsTo
<1>9. StageInv(w)'
  BY <1>7, <1>8 DEF StageInv, InProgress, EpochNames
<1> QED
  BY <1>5, <1>6, <1>9 DEF OpMoves

(* The other steps of an operation leave what it names and has changed as
   they are. *)
OpRuns(w, s, f) ==
  /\ InProgress(w) /\ UNCHANGED <<targets, change>>
  /\ stage' = [stage EXCEPT ![w] = s] /\ failed' = [failed EXCEPT ![w] = f]
  /\ tries' \in [Writers -> 0..MaxRetries] /\ told' \in {told, told \cup {w}}
  /\ s \in Stages \cup {"failed", "done", "abandoned"}
  /\ f \in {"none", "data", "pages", "publish", "cdn"}
  /\ place' = place \/ (place' = [place EXCEPT ![w] = NoOne] /\ s \in {"done", "abandoned"})
  /\ s = "failed" => f # "none"
  /\ s \notin {"cdn", "failed"} => f = "none"
  /\ s = "cdn" => f \in {"none", "publish"}
  /\ s \in EpochNames => s \in targets[w]
  /\ s = "data" => loaded # Off /\ "tag" \in targets[w]

LEMMA RunningMoves ==
  ASSUME OpTypes, OpsSound, NEW w \in Writers, loaded' = Off <=> loaded = Off,
         NEW s, NEW f, OpRuns(w, s, f)
  PROVE  OpMoves(w)
<1> USE DEF OpRuns
<1>0. /\ StageInv(w) /\ stage[w] # "idle" /\ targets[w] \in Targets
      /\ NoOne \notin Locations
  BY RendersAssumption DEF OpsSound, StageInv, Renders, InProgress, Stages
<1>1. OpTypes'
  <2>1. place' \in [Writers -> Locations \cup {NoOne}]
    BY DEF OpTypes
  <2> QED
    BY <2>1 DEF OpTypes
<1>2. \A v \in Writers : v # w => OpStill(v)
  BY DEF OpTypes, OpStill
<1>3. stage'[w] = s /\ targets'[w] = targets[w] /\ failed'[w] = f
  BY DEF OpTypes
<1>4. InProgress(w)' => place'[w] \in Locations
  BY <1>0, <1>3 DEF StageInv, InProgress, Stages
<1>5. StageInv(w)'
  BY <1>0, <1>3, <1>4 DEF StageInv, EpochNames, Stages
<1> QED
  BY <1>1, <1>2, <1>5 DEF OpMoves

LEMMA OverMoves ==
  ASSUME OpTypes, OpsSound, NEW w \in Writers, NEW s \in {"done", "abandoned"}, Over(w, s),
         loaded' = Off <=> loaded = Off, InProgress(w), UNCHANGED <<targets, change, told>>
  PROVE  OpMoves(w)
<1>1. /\ stage' = [stage EXCEPT ![w] = s] /\ place' = [place EXCEPT ![w] = NoOne]
      /\ failed' = [failed EXCEPT ![w] = "none"] /\ tries' = [tries EXCEPT ![w] = 0]
  BY DEF Over
<1>2. tries' \in [Writers -> 0..MaxRetries]
  BY <1>1, RetriesAssumption DEF OpTypes
<1>3. OpRuns(w, s, "none")
  BY <1>1, <1>2 DEF OpRuns, EpochNames
<1> QED
  BY <1>3, RunningMoves

LEMMA MovesSound ==
  ASSUME OpTypes, AppTypes, OpsSound, DataStep, NEW w \in Writers, Moves(w)
  PROVE  OpMoves(w)
<1>0. /\ StageInv(w) /\ failed[w] \in {"none", "data", "pages", "publish", "cdn"}
      /\ tries \in [Writers -> 0..MaxRetries] /\ (loaded' = Off <=> loaded = Off)
      /\ failed = [failed EXCEPT ![w] = failed[w]]
  BY MarkersAssumption DEF OpsSound, OpTypes, AppTypes, DataStep
<1>0a. stage[w] # "idle" => "path" \in targets[w] \/ "tag" \in targets[w]
  <2> DEFINE Both == {"path", "tag"}
  <2>1. stage[w] # "idle" => targets[w] \in (SUBSET Both) \ {{}}
    BY <1>0, TargetsAssumption DEF StageInv
  <2>2. stage[w] # "idle" => targets[w] \subseteq Both /\ targets[w] # {}
    BY <2>1
  <2> QED
    BY <2>2
<1>1. CASE \E l \in Locations, T \in Targets : Act(w, l, T)
  BY <1>1, ActMoves
<1>2. CASE ClearsData(w)
  <2>1. PICK s \in Stages : RunsTo(s, 2, w, place[w], targets[w], change[w])
    BY <1>2, RunsOn, GoesOnTo DEF ClearsData
  <2>2. /\ s \in EpochNames /\ s \in targets[w] /\ failed[w] = "none" /\ stage[w] = "data"
        /\ InProgress(w)
        /\ UNCHANGED <<place, targets, change, failed, tries, told>>
        /\ stage' = [stage EXCEPT ![w] = s]
    BY <1>0, <1>0a, <1>2, <2>1 DEF ClearsData, StageInv, RunsTo, EpochNames, InProgress,
       Stages
  <2>9. OpRuns(w, s, failed[w])
    BY <1>0, <2>1, <2>2 DEF EpochNames, OpRuns
  <2> QED
    BY <1>0, <2>9, RunningMoves
<1>3. CASE PurgedPath(w)
  <2>0. /\ failed[w] = "none" /\ stage[w] = "path" /\ InProgress(w)
        /\ UNCHANGED <<place, targets, change, failed, tries, told>>
    BY <1>0, <1>3 DEF PurgedPath, StageInv, InProgress, Stages
  <2>1. CASE "tag" \in targets[w]
    <3>1. stage' = [stage EXCEPT ![w] = "tag"]
      BY <1>3, <2>1 DEF PurgedPath, PurgeBy
    <3>9. OpRuns(w, "tag", failed[w])
      BY <1>0, <2>0, <2>1, <3>1 DEF EpochNames, Stages, OpRuns
    <3> QED
      BY <1>0, <3>9, RunningMoves
  <2>2. CASE "tag" \notin targets[w]
    <3>1. stage' = [stage EXCEPT ![w] = "publish"]
      BY <1>3, <2>2, GoesOnTo DEF PurgedPath, To
    <3>9. OpRuns(w, "publish", failed[w])
      BY <1>0, <2>0, <3>1 DEF EpochNames, Stages, OpRuns
    <3> QED
      BY <1>0, <3>9, RunningMoves
  <2> QED
    BY <2>1, <2>2
<1>4. CASE PurgedTag(w)
  <2>1. /\ failed[w] = "none" /\ stage[w] = "tag" /\ InProgress(w)
        /\ stage' = [stage EXCEPT ![w] = "publish"]
        /\ UNCHANGED <<place, targets, change, failed, tries, told>>
    BY <1>0, <1>4, GoesOnTo DEF PurgedTag, StageInv, InProgress, Stages, To
  <2>9. OpRuns(w, "publish", failed[w])
    BY <1>0, <2>1 DEF EpochNames, Stages, OpRuns
  <2> QED
    BY <1>0, <2>9, RunningMoves
<1>5. CASE Publishes(w)
  <2>1. /\ failed[w] = "none" /\ stage[w] = "publish" /\ InProgress(w)
        /\ stage' = [stage EXCEPT ![w] = "cdn"]
        /\ UNCHANGED <<place, targets, change, failed, tries>> /\ told' = told \cup {w}
    BY <1>0, <1>5, GoesOnTo DEF Publishes, StageInv, InProgress, Stages, To
  <2>9. OpRuns(w, "cdn", failed[w])
    BY <1>0, <2>1 DEF EpochNames, Stages, OpRuns
  <2> QED
    BY <1>0, <2>9, RunningMoves
<1>6. CASE PublishFails(w)
  <2>1. /\ stage[w] = "publish" /\ InProgress(w) /\ stage' = [stage EXCEPT ![w] = "cdn"]
        /\ UNCHANGED <<place, targets, change, tries>> /\ told' \in {told, told \cup {w}}
        /\ failed' = [failed EXCEPT ![w] = "publish"]
    BY <1>0, <1>6, GoesOnTo DEF PublishFails, StageInv, InProgress, Stages, To
  <2>9. OpRuns(w, "cdn", "publish")
    BY <1>0, <2>1 DEF EpochNames, Stages, OpRuns
  <2> QED
    BY <1>0, <2>9, RunningMoves
<1>7. CASE PurgesCdn(w)
  <2>0. stage[w] = "cdn" /\ InProgress(w) /\ UNCHANGED <<targets, change, told>>
    BY <1>7 DEF PurgesCdn, InProgress, Stages
  <2>1. CASE failed[w] = "none" /\ Over(w, "done")
    BY <1>0, <2>0, <2>1, OverMoves
  <2>2. CASE failed[w] # "none"
    <3>1. stage' = [stage EXCEPT ![w] = "failed"] /\ UNCHANGED <<place, failed, tries>>
      BY <1>7, <2>2 DEF PurgesCdn
    <3>9. OpRuns(w, "failed", failed[w])
      BY <1>0, <2>0, <2>2, <3>1 DEF EpochNames, Stages, OpRuns
    <3> QED
      BY <1>0, <3>9, RunningMoves
  <2> QED
    BY <1>7, <2>1, <2>2 DEF PurgesCdn
<1>8. CASE DataFails(w)
  <2>1. /\ stage[w] = "data" /\ InProgress(w) /\ stage' = [stage EXCEPT ![w] = "failed"]
        /\ UNCHANGED <<place, targets, change, tries, told>>
        /\ failed' = [failed EXCEPT ![w] = "data"]
    BY <1>8 DEF DataFails, Breaks, InProgress, Stages
  <2>9. OpRuns(w, "failed", "data")
    BY <1>0, <2>1 DEF EpochNames, Stages, OpRuns
  <2> QED
    BY <1>0, <2>9, RunningMoves
<1>9. CASE PurgeFails(w)
  <2>1. /\ stage[w] \in {"path", "tag"} /\ InProgress(w)
        /\ stage' = [stage EXCEPT ![w] = "failed"]
        /\ UNCHANGED <<place, targets, change, tries, told>>
        /\ failed' = [failed EXCEPT ![w] = "pages"]
    BY <1>9 DEF PurgeFails, Breaks, InProgress, Stages
  <2>2. stage[w] # "idle"
    BY <2>1
  <2>9. OpRuns(w, "failed", "pages")
    BY <1>0, <2>1, <2>2 DEF EpochNames, Stages, OpRuns
  <2> QED
    BY <1>0, <2>9, RunningMoves
<1>10. CASE CdnFails(w)
  <2>0. stage[w] = "cdn" /\ InProgress(w) /\ UNCHANGED <<targets, change, told>>
    BY <1>10 DEF CdnFails, InProgress, Stages
  <2>1. CASE Over(w, "abandoned")
    BY <1>0, <2>0, <2>1, OverMoves
  <2>2. CASE /\ stage' = [stage EXCEPT ![w] = "failed"]
             /\ failed' = [failed EXCEPT ![w] = IF @ = "none" THEN "cdn" ELSE @]
             /\ UNCHANGED <<place, tries>>
    <3>1. PICK f \in {"none", "data", "pages", "publish", "cdn"} : f # "none" /\ failed' = [failed EXCEPT ![w] = f]
      BY <1>0, <2>2 DEF OpTypes
    <3>9. OpRuns(w, "failed", f)
      BY <1>0, <2>0, <2>2, <3>1 DEF EpochNames, Stages, OpRuns
    <3> QED
      BY <1>0, <3>9, RunningMoves
  <2> QED
    BY <1>10, <2>1, <2>2 DEF CdnFails
<1>11. CASE Retry(w)
  <2>0. /\ stage[w] = "failed" /\ InProgress(w)
        /\ UNCHANGED <<targets, change, told, place>>
        /\ failed' = [failed EXCEPT ![w] = "none"]
        /\ failed[w] \in {"data", "pages", "publish", "cdn"}
    BY <1>0, <1>11 DEF Retry, InProgress, StageInv
  <2>1. tries' \in [Writers -> 0..MaxRetries]
    BY <1>0, <1>11, RetriesAssumption DEF Retry
  <2>2. /\ Place(failed[w]) \in 1..4
        /\ RunFrom(Place(failed[w]), w, place[w], targets[w], change[w])
    BY <1>11, <2>0, StagePlaces DEF Retry
  <2>3. PICK s \in Stages : RunsTo(s, Place(failed[w]), w, place[w], targets[w], change[w])
    BY <2>2, RunsOn
  <2>4. /\ stage' = [stage EXCEPT ![w] = s]
        /\ s \in EpochNames => s \in targets[w]
        /\ s = "data" => loaded # Off /\ "tag" \in targets[w]
    BY <1>0a, <2>0, <2>3 DEF RunsTo, EpochNames
  <2>5. s \notin {"failed", "done", "abandoned"}
    BY <2>3 DEF Stages
  <2>9. OpRuns(w, s, "none")
    BY <1>0, <2>0, <2>1, <2>3, <2>4, <2>5 DEF OpRuns
  <2> QED
    BY <1>0, <2>9, RunningMoves
<1>12. CASE GiveUp(w)
  <2>0. stage[w] = "failed" /\ UNCHANGED <<targets, change, told>> /\ Over(w, "abandoned")
    BY <1>12 DEF GiveUp
  <2> QED
    BY <1>0, <2>0, OverMoves DEF InProgress
<1> QED
  BY <1>1, <1>2, <1>3, <1>4, <1>5, <1>6, <1>7, <1>8, <1>9, <1>10, <1>11, <1>12 DEF Moves,
     Running

(* What a step does to an operation that does not take it. *)
LEMMA OthersStill ==
  ASSUME PipelineTypes, OpsSound, [PipelineNext]_pipelineVars,
         ~ \E w \in Writers : Moves(w)
  PROVE  UNCHANGED opVars
  BY PipelineSteps DEF pipelineVars

LEMMA OpSteps ==
  ASSUME PipelineTypes, OpsSound, [PipelineNext]_pipelineVars
  PROVE  /\ AppTypes' /\ OpTypes' /\ OpsSound' /\ DataStep
         /\ \A w \in Writers : Moves(w) \/ OpStill(w)
         /\ (loaded' = Off <=> loaded = Off)
<1>0. AppTypes /\ OpTypes /\ OpsRun
  BY TypesAre DEF OpsSound, StageInv, OpsRun
<1>1. AppTypes' /\ DataStep
  BY <1>0, DataSteps
<1>2. loaded' = Off <=> loaded = Off
  BY <1>0, <1>1, MarkersAssumption DEF AppTypes, DataStep
<1>3. ASSUME NEW w \in Writers, OpStill(w) PROVE StageInv(w)'
  BY <1>2, <1>3 DEF OpStill, OpsSound, StageInv, InProgress
<1>4. CASE \E w \in Writers : Moves(w)
  <2>1. PICK w \in Writers : Moves(w)
    BY <1>4
  <2>2. OpMoves(w)
    BY <1>0, <1>1, <2>1, MovesSound
  <2> QED
    BY <1>1, <1>2, <1>3, <2>1, <2>2 DEF OpMoves, OpsSound
<1>5. CASE ~ \E w \in Writers : Moves(w)
  <2>1. UNCHANGED opVars
    BY <1>5, OthersStill
  <2>2. OpTypes' /\ \A w \in Writers : OpStill(w)
    BY <1>0, <2>1 DEF opVars, OpTypes, OpStill
  <2> QED
    BY <1>1, <1>2, <1>3, <2>2 DEF OpsSound
<1> QED
  BY <1>4, <1>5

LEMMA TypesNext ==
  ASSUME PipelineTypes, OpsSound, [PipelineNext]_pipelineVars
  PROVE  PipelineTypes' /\ OpsSound'
<1>1. PagesKnown' /\ AppTypes' /\ RequestTypes' /\ OpTypes' /\ RequestsPlaced' /\ OpsSound'
  BY PagesMoves, OpSteps, RequestSteps, RequestsPlacedNext DEF PagesMove
<1>2. OpsPlaced'
  BY <1>1 DEF OpsPlaced, OpsSound, StageInv
<1>3. (PagesKnown /\ AppTypes /\ RequestTypes /\ OpTypes /\ RequestsPlaced /\ OpsPlaced)' => PipelineTypes'
  BY TypesAre, PTL
<1> QED
  BY <1>1, <1>2, <1>3

LEMMA TypesInit ==
  ASSUME PipelineInit
  PROVE  PipelineTypes /\ OpsSound
<1> USE DEF PipelineInit, CacheInit, PagesInit
<1>0. 0 \in Version
  BY ChangesAssumption DEF Version
<1>1. PagesKnown
  <2>1. /\ NeverPurged \in Epoch /\ [made |-> 0, path |-> 0, tag |-> 0] \in Page
        /\ NoPage \in Page
    BY <1>0 DEF NeverPurged, Epoch, Page
  <2>2. kv \in Namespace
    BY <2>1 DEF Namespace
  <2> QED
    BY <2>2 DEF PagesKnown, PagesTypeOK
<1>2. AppTypes
  BY <1>0, TroublesAssumption DEF AppTypes
<1>3. RequestTypes
  BY <1>0 DEF RequestTypes
<1>4. OpTypes
  BY <1>0, RetriesAssumption DEF OpTypes
<1>5. RequestsPlaced
  BY RendersAssumption DEF RequestsPlaced, Renders
<1>6. OpsPlaced /\ OpsSound
  BY DEF OpsPlaced, OpsSound, StageInv, InProgress, Stages, EpochNames
<1> QED
  BY <1>1, <1>2, <1>3, <1>4, <1>5, <1>6, TypesAre

(* Type correctness of the requests, the operations, the data, the pages, their
   epochs and the calls on their way. *)
THEOREM PipelineTypeCorrect == PipelineSpec => []PipelineTypeOK
<1>1. PipelineInit => PipelineTypes /\ OpsSound
  BY TypesInit
<1>2. PipelineTypes /\ OpsSound /\ [PipelineNext]_pipelineVars => (PipelineTypes /\ OpsSound)'
  BY TypesNext
<1>3. PipelineTypes => PipelineTypeOK
  BY DEF PipelineTypes
<1> QED
  BY <1>1, <1>2, <1>3, PTL DEF PipelineSpec

-----------------------------------------------------------------------------
(* What the loaders read *)

(* Nothing is cached or promised that the data has not reached. *)
DataKnown ==
  /\ loaded \in Version => loaded <= data
  /\ \A w \in Writers : change[w] <= data

(* An operation after which loaders read the data itself. *)
Cleared(w) == "tag" \in targets[w] \/ loaded = Off

(* An operation past its data stage. *)
PastData(w) ==
  \/ stage[w] \in {"path", "tag", "publish", "cdn", "done"}
  \/ stage[w] = "failed" /\ failed[w] # "data"
  \/ w \in told

(* Past the data stage, loaders read the change. *)
ChangesVisible ==
  \A w \in Writers : Cleared(w) /\ PastData(w) => Visible >= change[w]

LEMMA VisibleRises ==
  ASSUME AppTypes, DataKnown, DataStep
  PROVE  /\ Visible \in Version /\ Visible' \in Version
         /\ Visible' >= Visible /\ data' >= data
         /\ loaded \notin Version => Visible' = data'
         /\ loaded' \notin Version => Visible' = data'
         /\ loaded' \in Version => loaded' <= data'
<1>0. /\ data \in Version /\ loaded \in Version \cup {Empty, Off} /\ Empty \notin Version
      /\ Off \notin Version
      /\ Version \subseteq Nat
  BY MarkersAssumption DEF AppTypes, Version
<1>1. CASE UNCHANGED <<data, loaded>>
  BY <1>0, <1>1 DEF Visible, DataKnown
<1>2. CASE data' = data /\ loaded = Empty /\ loaded' = data
  BY <1>0, <1>2 DEF Visible, DataKnown
<1>3. CASE data' = data /\ loaded # Off /\ loaded' = Empty
  BY <1>0, <1>3 DEF Visible, DataKnown
<1>4. CASE data < MaxChanges /\ data' = data + 1 /\ loaded' = loaded
  <2>1. data + 1 \in Version
    BY <1>4, ChangesAssumption DEF AppTypes, Version
  <2> QED
    BY <1>0, <1>4, <2>1 DEF Visible, DataKnown
<1> QED
  BY <1>1, <1>2, <1>3, <1>4 DEF DataStep

LEMMA ChangeSteps ==
  ASSUME OpTypes, [PipelineNext]_pipelineVars, NEW w \in Writers
  PROVE  change'[w] \in {change[w], data'}
<1>1. ASSUME NEW v \in Writers, NEW l \in Locations, NEW T \in Targets, Act(v, l, T)
      PROVE  change'[w] \in {change[w], data'}
  BY <1>1 DEF Act, OpTypes
<1>2. ASSUME NEW v \in Writers, Running(v) PROVE change' = change
  BY <1>2 DEF Running, ClearsData, PurgedPath, PurgedTag, Publishes, PurgesCdn, DataFails,
     PurgeFails,
     PublishFails, CdnFails, Retry, GiveUp
<1>3. CASE UNCHANGED opVars
  BY <1>3 DEF opVars
<1> QED
  BY <1>1, <1>2, <1>3, PipelineSteps DEF Moves, pipelineVars

LEMMA DataKnownNext ==
  ASSUME PipelineTypes, OpsSound, DataKnown, [PipelineNext]_pipelineVars
  PROVE  DataKnown'
<1>1. AppTypes /\ OpTypes /\ DataStep
  BY OpSteps, TypesAre
<1>2. Version \subseteq Nat
  BY DEF Version
<1>3. ASSUME NEW w \in Writers PROVE change'[w] <= data'
  <2>1. /\ change[w] \in Nat /\ data \in Nat /\ data' >= data /\ data' \in Nat
        /\ change[w] <= data
    BY <1>1, <1>2, VisibleRises, OpSteps DEF OpTypes, AppTypes, DataKnown
  <2> QED
    BY <1>1, <2>1, ChangeSteps
<1> QED
  BY <1>1, <1>3, VisibleRises DEF DataKnown

LEMMA PastDataSteps ==
  ASSUME OpTypes, OpsSound, NEW w \in Writers, Moves(w), Cleared(w)', PastData(w)'
  PROVE  \/ Cleared(w) /\ PastData(w) /\ change'[w] = change[w]
         \/ loaded' \in {Empty, Off}
<1>0. StageInv(w) /\ failed[w] \in {"none", "data", "pages", "publish", "cdn"}
  BY DEF OpsSound, OpTypes
<1>1. ASSUME NEW l \in Locations, NEW T \in Targets, Act(w, l, T)
      PROVE  loaded' = Off
  <2>1. PICK s \in Stages : RunsTo(s, 1, w, l, T, data + 1)
    BY <1>1, RunsOn DEF Act
  <2>2. stage'[w] = s /\ targets'[w] = T /\ loaded' = loaded /\ w \notin told'
    BY <1>0, <1>1, <2>1 DEF Act, RunsTo, OpTypes, StageInv
  <2>3. s # "data"
    BY <2>2 DEF PastData
  <2> QED
    BY <2>1, <2>2, <2>3 DEF RunsTo, Cleared
<1>2. CASE ClearsData(w)
  BY <1>2 DEF ClearsData
<1>3. CASE PurgedPath(w) \/ PurgedTag(w) \/ Publishes(w) \/ PurgesCdn(w)
  BY <1>3 DEF PurgedPath, PurgedTag, Publishes, PurgesCdn, PastData, Cleared, cacheVars
<1>4. CASE PurgeFails(w) \/ PublishFails(w) \/ CdnFails(w)
  BY <1>4 DEF PurgeFails, PublishFails, CdnFails, PastData, Cleared
<1>5. CASE DataFails(w)
  <2>1. stage'[w] = "failed" /\ failed'[w] = "data" /\ UNCHANGED <<targets, change, told>>
    BY <1>5 DEF DataFails, Breaks, OpTypes
  <2>2. stage[w] = "data" /\ (loaded' = Off => loaded = Off)
    BY <1>5, MarkersAssumption DEF DataFails
  <2> QED
    BY <2>1, <2>2 DEF PastData, Cleared
<1>6. CASE Retry(w)
  <2>1. stage[w] = "failed" /\ UNCHANGED <<targets, change, told, loaded>>
    BY <1>6 DEF Retry, cacheVars
  <2>2. CASE failed[w] = "data"
    <3>1. PICK s \in Stages : RunsTo(s, 1, w, place[w], targets[w], change[w])
      BY <1>6, <2>2, RunsOn, StagePlaces DEF Retry
    <3>2. stage'[w] = s
      BY <3>1 DEF RunsTo, OpTypes
    <3>3. CASE s = "data"
      BY <2>1, <3>2, <3>3 DEF PastData, Cleared
    <3>4. CASE s # "data"
      BY <2>1, <3>1, <3>4 DEF RunsTo, Cleared
    <3> QED
      BY <3>3, <3>4
  <2>3. CASE failed[w] # "data"
    BY <2>1, <2>3 DEF PastData, Cleared
  <2> QED
    BY <2>2, <2>3
<1>7. CASE GiveUp(w)
  <2>1. stage'[w] = "abandoned" /\ UNCHANGED <<targets, change, told, loaded>>
    BY <1>7 DEF GiveUp, Over, OpTypes, cacheVars
  <2> QED
    BY <2>1 DEF PastData, Cleared
<1> QED
  BY <1>1, <1>2, <1>3, <1>4, <1>5, <1>6, <1>7 DEF Moves, Running

LEMMA ChangesVisibleNext ==
  ASSUME PipelineTypes, OpsSound, DataKnown, ChangesVisible, [PipelineNext]_pipelineVars
  PROVE  ChangesVisible'
<1>1. /\ AppTypes /\ OpTypes /\ AppTypes' /\ OpTypes' /\ DataStep
      /\ \A w \in Writers : Moves(w) \/ OpStill(w)
      /\ loaded' = Off => loaded = Off
  BY OpSteps, TypesAre
<1>2. DataKnown' /\ Version \subseteq Nat /\ Empty \notin Version /\ Off \notin Version
  BY DataKnownNext, MarkersAssumption DEF Version
<1>3. ASSUME NEW w \in Writers, Cleared(w)', PastData(w)' PROVE Visible' >= change'[w]
  <2>1. /\ Visible \in Nat /\ Visible' \in Nat /\ Visible' >= Visible
        /\ change[w] \in Nat /\ change'[w] \in Nat
    BY <1>1, <1>2, VisibleRises DEF OpTypes
  <2>2. CASE Cleared(w) /\ PastData(w) /\ change'[w] = change[w]
    BY <2>1, <2>2 DEF ChangesVisible
  <2>3. CASE loaded' \in {Empty, Off}
    <3>1. Visible' = data' /\ change'[w] <= data' /\ data' \in Nat
      BY <1>1, <1>2, <2>3, VisibleRises DEF DataKnown, AppTypes
    <3> QED
      BY <2>1, <3>1
  <2>4. CASE OpStill(w)
    BY <1>1, <1>3, <2>2, <2>4 DEF OpStill, Cleared, PastData
  <2> QED
    BY <1>1, <1>3, <2>2, <2>3, <2>4, PastDataSteps
<1> QED
  BY <1>3 DEF ChangesVisible

(* What a purge promises can be read once it is on its way. *)
LEMMA PurgesPromise ==
  ASSUME PipelineTypes, OpsSound, DataKnown, ChangesVisible, [PipelineNext]_pipelineVars,
         NEW n \in EpochNames, NEW w \in Writers, stage' = [stage EXCEPT ![w] = n]
  PROVE  Covers(targets'[w], change'[w]) <= Visible'
<1>1. /\ AppTypes /\ OpTypes /\ OpTypes' /\ DataStep
      /\ ChangesVisible' /\ DataKnown' /\ Version \subseteq Nat
  BY OpSteps, TypesAre, ChangesVisibleNext, DataKnownNext DEF Version
<1>2. change'[w] \in Nat /\ Visible' \in Nat /\ Visible \in Nat /\ Visible' >= Visible
  BY <1>1, VisibleRises DEF OpTypes
<1>3. CASE "tag" \in targets'[w]
  <2>1. Cleared(w)' /\ PastData(w)'
    BY <1>1, <1>3 DEF Cleared, PastData, EpochNames, OpTypes
  <2> QED
    BY <1>1, <1>2, <1>3, <2>1 DEF ChangesVisible, Covers
<1>4. CASE "tag" \notin targets'[w] /\ loaded \in Version
  BY <1>1, <1>2, <1>4 DEF Covers, Visible
<1>5. CASE "tag" \notin targets'[w] /\ loaded \notin Version
  BY <1>1, <1>2, <1>5, VisibleRises DEF Covers, DataKnown
<1> QED
  BY <1>3, <1>4, <1>5

-----------------------------------------------------------------------------
(* Epochs, and what is stored under them *)

(* Epoch e of a name seals the data's version v: pages older than v, stored or
   on their way, are not read under e, and those being rendered will not be. *)
SealedAt(v, n, e) ==
  /\ \A p \in StoredPages : p.made >= v \/ p[n] < e
  /\ \A c \in SetCalls : c.made >= v \/ c.fence < e

(* What carries an epoch carries one that has been given. *)
Clocked ==
  /\ \A n \in EpochNames : \A e \in Epochs(n) : e.at <= clock
  /\ \A p \in StoredPages : p.path <= clock /\ p.tag <= clock
  /\ \A c \in SetCalls : c.fence <= clock
  /\ \A x \in Renders : fence[x] <= clock

(* A location reads what the store has had, unless a put was overtaken. *)
ViewsBehind ==
  ~overtaken => \A l \in Locations, n \in EpochNames : view[l][n].at <= kv[n].at

(* Every epoch seals the version it says it covers. *)
EpochsSealed ==
  \A n \in EpochNames : \A e \in Epochs(n) : e.covers <= Visible /\ SealedAt(e.covers, n, e.at)

LEMMA FenceSteps ==
  ASSUME PipelineTypes, [PipelineNext]_pipelineVars, NEW x \in Renders
  PROVE  fence'[x] \in {fence[x], clock, 0}
<1>0. RequestTypes
  BY TypesAre
<1>1. ASSUME NEW X, NEW to, Go(X, to) PROVE fence'[x] \in {fence[x], clock, 0}
  BY <1>1 DEF Go
<1>2. ASSUME NEW r, RenderCold(r) PROVE fence'[x] \in {fence[x], clock, 0}
  BY <1>1, <1>2 DEF RenderCold
<1>3. ASSUME NEW r, NEW shared, Ends(r, shared) PROVE fence'[x] \in {fence[x], clock, 0}
  BY <1>3 DEF Ends
<1>4. ASSUME NEW r \in Requests, Asks(r) PROVE fence'[x] \in {fence[x], clock, 0}
  <2>1. CASE Hit(r)
    BY <1>0, <1>1, <2>1 DEF Hit, RequestTypes
  <2> QED
    BY <1>1, <1>2, <1>4, <2>1 DEF Asks, Arrive, Get, GetTag, GetFails
<1>5. ASSUME NEW y \in Renders, EndsRender(y) PROVE fence'[x] \in {fence[x], clock, 0}
  BY <1>1, <1>3, <1>5 DEF EndsRender, Render, Shareable, Withheld, Withdrawn, RenderFails,
     Stored, StoreFails
<1>6. ASSUME NEW w \in Writers, Moves(w) PROVE fence' = fence
  BY <1>6, MovesStill
<1>7. CASE UNCHANGED cacheVars
  BY <1>7 DEF cacheVars
<1> QED
  BY <1>4, <1>5, <1>6, <1>7, PipelineSteps DEF pipelineVars

(* Pages, calls and epochs as numbers. *)
LEMMA PageNumbers ==
  ASSUME PagesKnown
  PROVE  /\ Version \subseteq Nat /\ clock \in Nat
         /\ \A p \in StoredPages : p.made \in Nat /\ p.path \in Nat /\ p.tag \in Nat
         /\ \A p \in StoredPages : \A n \in EpochNames : p[n] \in Nat
         /\ \A c \in SetCalls : c.made \in Nat /\ c.fence \in Nat
         /\ \A n \in EpochNames : \A e \in Epochs(n) : e.at \in Nat /\ e.covers \in Nat
<1>1. Version \subseteq Nat
  BY DEF Version
<1>2. \A p \in StoredPages : p.made \in Nat /\ p.path \in Nat /\ p.tag \in Nat
  BY <1>1 DEF StoredPages, RealPage
<1>3. \A c \in SetCalls : c.made \in Nat /\ c.fence \in Nat
  BY <1>1, KnownPages DEF SetCalls, SetCall
<1> QED
  BY <1>1, <1>2, <1>3 DEF EpochNames, Epochs, Epoch, PagesKnown, PagesTypeOK

LEMMA ClockedNext ==
  ASSUME PipelineTypes, PipelineTypes', Clocked, [PipelineNext]_pipelineVars
  PROVE  Clocked'
<1>0. PagesKnown /\ PagesKnown' /\ PagesMove /\ RequestTypes /\ clock' >= clock
  BY TypesAre, PagesMoves, PageNumbers DEF PagesMove
<1>1. /\ clock \in Nat /\ clock' \in Nat
      /\ \A x \in Renders : fence[x] \in Nat /\ fence'[x] \in Nat
  BY <1>0, RequestSteps DEF PagesKnown, PagesTypeOK, RequestTypes
<1>2. ASSUME NEW n \in EpochNames, NEW e \in Epochs(n)' PROVE e.at <= clock'
  <2>1. CASE e \in Epochs(n)
    BY <1>0, <1>1, <2>1, PageNumbers DEF Clocked
  <2>2. CASE NewEpoch(n, e)
    BY <1>1, <2>2 DEF NewEpoch
  <2> QED
    BY <1>0, <1>2, <2>1, <2>2 DEF PagesMove
<1>3. ASSUME NEW p \in StoredPages' PROVE p.path <= clock' /\ p.tag <= clock'
  <2>0. p.path \in Nat /\ p.tag \in Nat
    BY <1>3 DEF StoredPages, RealPage
  <2>1. CASE p \in StoredPages
    BY <1>0, <1>1, <2>0, <2>1 DEF Clocked
  <2>2. ASSUME NEW c \in SetCalls, p.path <= c.fence,
               p.tag <= c.fence PROVE p.path <= clock' /\ p.tag <= clock'
    <3>1. c.fence \in Nat /\ c.fence <= clock
      BY <1>0, PageNumbers DEF Clocked
    <3> QED
      BY <1>0, <1>1, <2>0, <2>2, <3>1
  <2> QED
    BY <1>0, <1>3, <2>1, <2>2 DEF PagesMove
<1>4. ASSUME NEW c \in SetCalls' PROVE c.fence <= clock'
  <2>1. ASSUME NEW d \in SetCalls, c.fence = d.fence PROVE c.fence <= clock'
    <3>1. d.fence \in Nat /\ d.fence <= clock
      BY <1>0, PageNumbers DEF Clocked
    <3> QED
      BY <1>0, <1>1, <2>1, <3>1
  <2>2. ASSUME NEW x \in Renders, c.fence = fence[x] PROVE c.fence <= clock'
    BY <1>0, <1>1, <2>2 DEF Clocked
  <2> QED
    BY <1>0, <1>4, <2>1, <2>2 DEF PagesMove
<1>5. ASSUME NEW x \in Renders PROVE fence'[x] <= clock'
  <2>1. fence'[x] \in {fence[x], clock, 0} /\ fence[x] <= clock
    BY FenceSteps DEF Clocked
  <2> QED
    BY <1>0, <1>1, <2>1
<1> QED
  BY <1>2, <1>3, <1>4, <1>5 DEF Clocked

(* A version once sealed stays so: what is put from then on is as new, or has
   begun before the seal. *)
LEMMA SealedStays ==
  ASSUME PipelineTypes, PipelineTypes', [PipelineNext]_pipelineVars,
         NEW v \in Nat, v <= Visible, NEW n \in EpochNames, NEW e \in Nat, SealedAt(v, n, e)
  PROVE  SealedAt(v, n, e)'
<1>0. PagesKnown /\ PagesMove /\ Visible \in Nat
  BY TypesAre, PagesMoves, VisibleType DEF PipelineTypes, Version
<1>1. ASSUME NEW p \in StoredPages' PROVE p.made >= v \/ p[n] < e
  <2>1. CASE p \in StoredPages
    BY <2>1 DEF SealedAt
  <2>2. ASSUME NEW c \in SetCalls, p.made = c.made, p.path <= c.fence, p.tag <= c.fence
        PROVE  p.made >= v \/ p[n] < e
    <3>1. c.made >= v \/ c.fence < e
      BY DEF SealedAt
    <3>2. c.fence \in Nat /\ p[n] \in Nat /\ p[n] <= c.fence
      <4>1. c.fence \in Nat /\ p.path \in Nat /\ p.tag \in Nat
        BY <1>0, <1>1, PageNumbers DEF StoredPages, RealPage
      <4> QED
        BY <2>2, <4>1 DEF EpochNames
    <3> QED
      BY <2>2, <3>1, <3>2
  <2> QED
    BY <1>0, <1>1, <2>1, <2>2 DEF PagesMove
<1>2. ASSUME NEW c \in SetCalls' PROVE c.made >= v \/ c.fence < e
  BY <1>0, <1>2 DEF PagesMove, SealedAt
<1> QED
  BY <1>1, <1>2 DEF SealedAt

LEMMA LaterSeals ==
  ASSUME PagesKnown, NEW v \in Nat, NEW n \in EpochNames, NEW d \in Nat, NEW e \in Nat,
         SealedAt(v, n, d), e >= d
  PROVE  SealedAt(v, n, e)
<1>1. \A p \in StoredPages : p[n] \in Nat
  BY PageNumbers
<1>2. \A c \in SetCalls : c.fence \in Nat
  BY PageNumbers
<1> QED
  BY <1>1, <1>2 DEF SealedAt

(* A purge's epoch seals every version there is to read. *)
LEMMA NextEpochSeals ==
  ASSUME PagesKnown, Clocked, NEW v \in Nat, NEW n \in EpochNames
  PROVE  SealedAt(v, n, clock + 1)
<1>1. \A p \in StoredPages : p[n] \in Nat /\ p[n] <= clock
  BY PageNumbers DEF Clocked, EpochNames
<1> QED
  BY <1>1, PageNumbers DEF SealedAt, Clocked

LEMMA ViewsBehindNext ==
  ASSUME PipelineTypes, PipelineTypes', ViewsBehind, [PipelineNext]_pipelineVars
  PROVE  /\ ViewsBehind'
         /\ ~overtaken' => /\ ~overtaken
                           /\ \A l \in Locations, n \in EpochNames : view'[l][n].at >= view[l][n].at
<1>0. PagesKnown /\ PagesKnown' /\ EpochsMove
  BY TypesAre, PagesMoves DEF PagesMove
<1>1. ASSUME NEW l \in Locations, NEW n \in EpochNames, ~overtaken'
      PROVE  view'[l][n].at <= kv'[n].at /\ view'[l][n].at >= view[l][n].at
  <2>1. /\ ~overtaken /\ kv'[n].at >= kv[n].at /\ view'[l][n] \in {view[l][n], kv'[n]}
        /\ view[l][n].at <= kv[n].at
    BY <1>0, <1>1 DEF EpochsMove, ViewsBehind
  <2>2. kv[n].at \in Nat /\ view[l][n].at \in Nat
    BY <1>0, KnownPages DEF Epoch
  <2>3. kv'[n].at \in Nat /\ view'[l][n].at \in Nat
    BY <1>0 DEF Epoch, PagesKnown, PagesTypeOK, Namespace, EpochNames
  <2> QED
    BY <2>1, <2>2, <2>3
<1> QED
  BY <1>0, <1>1 DEF ViewsBehind, EpochsMove

LEMMA EpochsSealedNext ==
  ASSUME PipelineTypes, PipelineTypes', OpsSound, DataKnown, ChangesVisible, Clocked,
         EpochsSealed,
         [PipelineNext]_pipelineVars
  PROVE  EpochsSealed'
<1>0. /\ PagesKnown /\ PagesKnown' /\ PagesMove /\ AppTypes /\ DataStep
      /\ Visible \in Nat /\ Visible' \in Nat /\ Visible' >= Visible
  BY TypesAre, PagesMoves, OpSteps, VisibleRises DEF Version, PagesMove
<1>1. ASSUME NEW n \in EpochNames, NEW e \in Epochs(n)'
      PROVE  e.covers <= Visible' /\ SealedAt(e.covers, n, e.at)'
  <2>0. e.at \in Nat /\ e.covers \in Nat
    BY <1>1 DEF Epochs, Epoch, Version
  <2>1. CASE e \in Epochs(n)
    <3>1. e.covers <= Visible /\ SealedAt(e.covers, n, e.at)
      BY <2>1 DEF EpochsSealed
    <3> QED
      BY <1>0, <2>0, <3>1, SealedStays
  <2>2. CASE NewEpoch(n, e)
    <3>1. SealedAt(e.covers, n, e.at)
      BY <1>0, <2>0, <2>2, NextEpochSeals DEF NewEpoch
    <3>2. SealedAt(e.covers, n, e.at)'
      BY <2>2, <3>1 DEF SealedAt, NewEpoch
    <3>3. e.covers <= Visible'
      BY <1>0, <2>2, PurgesPromise DEF NewEpoch
    <3> QED
      BY <3>2, <3>3
  <2> QED
    BY <1>0, <1>1, <2>1, <2>2 DEF PagesMove
<1> QED
  BY <1>1 DEF EpochsSealed

-----------------------------------------------------------------------------
(* Requests: what they were promised as they arrived *)

(* What a request will be given is as new as what it was promised on arrival:
   until it has read the page, by a seal of one of the names it compares. *)
RequestOwed(r) ==
  /\ owed[r] <= Visible
  /\ pc[r] = "store" => made[r] >= owed[r]
  /\ ~overtaken /\ pc[r] = "get" => \E n \in EpochNames : SealedAt(owed[r], n, view[at[r]][n].at)
  /\ ~overtaken /\ pc[r] = "tag" => made[r] >= owed[r] \/ tag[r] < view[at[r]].tag.at

RequestsOwed == \A r \in Requests : RequestOwed(r)

LEMMA OwedStill ==
  ASSUME PipelineTypes, PipelineTypes', ViewsBehind, [PipelineNext]_pipelineVars,
         NEW v \in Nat, v <= Visible, NEW l \in Locations, NEW n \in EpochNames,
         SealedAt(v, n, view[l][n].at), ~overtaken'
  PROVE  SealedAt(v, n, view[l][n].at)'
<1>0. PagesKnown /\ PagesKnown'
  BY PagesMoves, TypesAre DEF PagesMove
<1>1. view[l][n].at \in Nat /\ view'[l][n].at \in Nat
  BY <1>0 DEF Epoch, PagesKnown, PagesTypeOK, Namespace, EpochNames
<1>2. view'[l][n].at >= view[l][n].at
  BY ViewsBehindNext
<1>3. PICK e \in Nat : e = view'[l][n].at
  BY <1>1
<1>4. SealedAt(v, n, e)
  BY <1>0, <1>1, <1>2, <1>3, LaterSeals
<1>5. SealedAt(v, n, e)'
  BY <1>4, SealedStays
<1> QED
  BY <1>3, <1>5 DEF SealedAt

LEMMA RequestsOwedNext ==
  ASSUME PipelineTypes, PipelineTypes', OpsSound, DataKnown, ViewsBehind, EpochsSealed,
         RequestsOwed,
         [PipelineNext]_pipelineVars
  PROVE  RequestsOwed'
<1>0. /\ PagesKnown /\ PagesKnown' /\ AppTypes /\ RequestTypes /\ RequestTypes'
      /\ RequestsPlaced /\ DataStep
      /\ Visible \in Nat /\ Visible' \in Nat /\ Visible' >= Visible
      /\ 0 \in Nat
  BY TypesAre, PagesMoves, OpSteps, RequestSteps, VisibleRises DEF Version, PagesMove
<1>1. ASSUME NEW r \in Requests PROVE RequestOwed(r)'
  <2>0. /\ owed[r] \in Nat /\ owed'[r] \in Nat /\ made[r] \in Nat /\ made'[r] \in Nat
        /\ tag[r] \in Nat
        /\ tag'[r] \in Nat /\ RequestOwed(r)
        /\ pc[r] \in {"get", "tag"} => at[r] \in Locations
    BY <1>0 DEF RequestTypes, Renders, Version, RequestsOwed, RequestsPlaced
  <2>1. \A l \in Locations : view[l].tag.at \in Nat /\ view'[l].tag.at \in Nat
    BY <1>0 DEF PagesKnown, PagesTypeOK, Namespace, Epoch
  <2>1a. ~overtaken' => ~overtaken /\ \A l \in Locations : view'[l].tag.at >= view[l].tag.at
    BY ViewsBehindNext DEF EpochNames
  <2>2. CASE RequestStill(r)
    <3>1. owed'[r] <= Visible' /\ (pc'[r] = "store" => made'[r] >= owed'[r])
      BY <1>0, <2>0, <2>2 DEF RequestStill, RequestOwed
    <3>2. ASSUME ~overtaken', pc'[r] = "get"
          PROVE  \E n \in EpochNames : SealedAt(owed[r], n, view[at[r]][n].at)'
      <4>1. PICK n \in EpochNames : SealedAt(owed[r], n, view[at[r]][n].at)
        BY <2>0, <2>1a, <2>2, <3>2 DEF RequestStill, RequestOwed
      <4>2. PICK v \in Nat, l \in Locations : v = owed[r] /\ l = at[r]
        BY <2>0, <2>2, <3>2 DEF RequestStill
      <4>3. v <= Visible /\ SealedAt(v, n, view[l][n].at)
        BY <2>0, <4>1, <4>2 DEF RequestOwed
      <4>4. SealedAt(v, n, view[l][n].at)'
        BY <3>2, <4>3, OwedStill
      <4>5. SealedAt(owed[r], n, view[at[r]][n].at)'
        BY <2>2, <4>2, <4>4 DEF RequestStill, SealedAt
      <4> QED
        BY <4>5
    <3>3. ASSUME ~overtaken',
                 pc'[r] = "tag" PROVE made'[r] >= owed'[r] \/ tag'[r] < view'[at'[r]].tag.at
      BY <2>0, <2>1, <2>1a, <2>2, <3>3 DEF RequestStill, RequestOwed
    <3> QED
      BY <3>1, <3>2, <3>3 DEF RequestOwed
  <2>3. CASE RequestBegins(r)
    <3>1. PICK l \in Locations : at'[r] = l /\ owed'[r] = Promised(l)
      BY <2>3 DEF RequestBegins
    <3>2. PICK n \in EpochNames : Promised(l) = view[l][n].covers
      BY DEF Promised, EpochNames
    <3>3. view[l][n] \in Epochs(n) /\ view[l][n].at \in Nat
      BY <1>0, KnownPages DEF Epochs, Epoch
    <3>4. PICK v \in Nat : v = owed'[r]
      BY <2>0
    <3>5. v <= Visible /\ SealedAt(v, n, view[l][n].at)
      BY <3>1, <3>2, <3>3, <3>4 DEF EpochsSealed
    <3>6. ~overtaken' => SealedAt(v, n, view[l][n].at)'
      BY <3>5, OwedStill
    <3>7. ~overtaken' => SealedAt(owed[r], n, view[at[r]][n].at)'
      BY <3>1, <3>4, <3>6 DEF SealedAt
    <3>8. owed'[r] <= Visible'
      BY <1>0, <3>4, <3>5
    <3> QED
      BY <2>3, <3>7, <3>8 DEF RequestOwed, RequestBegins
  <2>4. CASE RequestGoesOn(r)
    <3>1. owed'[r] <= Visible'
      BY <1>0, <2>0, <2>4 DEF RequestGoesOn, RequestOwed
    <3>2. CASE /\ pc[r] = "get" /\ pc'[r] = "tag" /\ PathCurrent(view[at[r]])
               /\ made'[r] = view[at[r]].page.made /\ tag'[r] = view[at[r]].page.tag
      <4>1. ASSUME ~overtaken' PROVE made'[r] >= owed[r] \/ tag'[r] < view[at[r]].tag.at
        <5>1. PICK n \in EpochNames : SealedAt(owed[r], n, view[at[r]][n].at)
          BY <2>0, <2>1a, <3>2, <4>1 DEF RequestOwed
        <5>2. at[r] \in Locations /\ view[at[r]].page \in StoredPages
          BY <1>0, <2>0, <3>2, KnownPages DEF PathCurrent, StoredPages
        <5>3. view[at[r]].page.made >= owed[r] \/ view[at[r]].page[n] < view[at[r]][n].at
          BY <5>1, <5>2 DEF SealedAt
        <5>4. view[at[r]].page.path = view[at[r]].path.at /\ view[at[r]].path.at \in Nat
          BY <1>0, <3>2, <5>2, KnownPages DEF PathCurrent, EpochNames, Epoch
        <5> QED
          BY <3>2, <5>3, <5>4 DEF EpochNames
      <4>2. ASSUME ~overtaken' PROVE made'[r] >= owed'[r] \/ tag'[r] < view'[at'[r]].tag.at
        BY <2>0, <2>1, <2>1a, <2>4, <3>2, <4>1, <4>2 DEF RequestGoesOn
      <4> QED
        BY <3>1, <3>2, <4>2 DEF RequestOwed
    <3>3. CASE pc'[r] \in {"render", "wait"}
      BY <3>1, <3>3 DEF RequestOwed
    <3>4. CASE pc'[r] = "store" /\ made'[r] = Visible
      BY <1>0, <2>0, <2>4, <3>1, <3>4 DEF RequestOwed, RequestGoesOn
    <3> QED
      BY <2>4, <3>2, <3>3, <3>4 DEF RequestGoesOn
  <2>5. CASE RequestFinishes(r)
    BY <1>0, <2>5 DEF RequestFinishes, RequestOwed
  <2> QED
    BY <2>2, <2>3, <2>4, <2>5, RequestSteps DEF RequestStep
<1> QED
  BY <1>1 DEF RequestsOwed

LEMMA AnswersFresh ==
  ASSUME PipelineTypes, RequestsOwed, [PipelineNext]_pipelineVars, NEW r \in Requests,
         Answers(r), pc[r] \in {"tag", "store"}, ~overtaken
  PROVE  made[r] >= owed[r]
<1>0. PagesKnown /\ RequestTypes /\ RequestsPlaced
  BY TypesAre
<1>1. RequestFinishes(r)
  BY RequestSteps DEF RequestStep, Answers, RequestStill, RequestBegins, RequestGoesOn
<1>2. CASE pc[r] = "tag"
  <2>1. at[r] \in Locations /\ tag[r] \in Nat
    BY <1>0, <1>2 DEF RequestsPlaced, RequestTypes
  <2>2. view[at[r]].tag.at \in Nat /\ tag[r] = view[at[r]].tag.at
    BY <1>0, <1>1, <1>2, <2>1, KnownPages DEF RequestFinishes, EpochNames, Epoch
  <2> QED
    BY <1>2, <2>1, <2>2 DEF RequestsOwed, RequestOwed
<1>3. CASE pc[r] = "store"
  BY <1>3 DEF RequestsOwed, RequestOwed
<1> QED
  BY <1>2, <1>3

-----------------------------------------------------------------------------
(* Those who render for others *)

(* The one who renders for others at a location is rendering or storing. *)
ColdOnes ==
  /\ \A l \in Locations : cold[l] # NoOne => at[cold[l]] = l /\ pc[cold[l]] \in {"render", "store"}
  /\ \A r \in Requests : pc[r] = "wait" => cold[at[r]] # NoOne

ColdKept ==
  /\ cold' = cold
  /\ \A r \in Requests :
       /\ pc[r] \in {"render", "store"} => pc'[r] \in {"render", "store"} /\ at'[r] = at[r]
       /\ pc'[r] = "wait" => pc[r] = "wait" /\ at'[r] = at[r]

ColdAsked(r) ==
  /\ pc[r] \in {"get", "tag"} /\ RenderCold(r) /\ at' = at

LEMMA ColdSteps ==
  ASSUME PipelineTypes, [PipelineNext]_pipelineVars
  PROVE  \/ ColdKept
         \/ \E r \in Requests : ColdAsked(r)
         \/ \E r \in Requests, shared \in BOOLEAN : pc[r] \in {"render", "store"} /\ Ends(r, shared)
<1>0. /\ RequestTypes /\ RequestsPlaced /\ Requests \subseteq Renders /\ clock \in Nat
      /\ \A r \in Requests : r \notin Locations
  BY TypesAre, RendersAssumption DEF Renders, PagesKnown, PagesTypeOK
<1>1. ASSUME NEW x \in Renders, NEW to \in {"get", "tag", "render", "store", "done",
             "idle"}, Go({x}, to), cold' = cold,
             x \in Requests => /\ pc[x] \in {"render", "store"} => to = "store" /\ at'[x] = at[x],
             \A r \in Requests : r # x => at'[r] = at[r]
      PROVE  ColdKept
  <2>1. \A y \in Renders : pc'[y] = IF y = x THEN to ELSE pc[y]
    BY <1>0, <1>1, GoTypes
  <2> QED
    BY <1>0, <1>1, <2>1 DEF ColdKept
<1>2. ASSUME NEW r \in Requests, Asks(r) PROVE ColdKept \/ ColdAsked(r)
  <2>1. ASSUME NEW l \in Locations, Arrive(r, l) PROVE ColdKept
    <3>1. PICK to \in {"get", "render"} : Go({r}, to)
      BY <2>1 DEF Arrive
    <3> QED
      BY <1>0, <1>1, <2>1, <3>1 DEF Arrive, RequestTypes
  <2>2. CASE Get(r)
    BY <1>0, <1>1, <2>2 DEF Get, ColdAsked
  <2>3. CASE GetTag(r)
    <3>1. CASE tag[r] = view[at[r]].tag.at
      <4>0. Hit(r) /\ cold' = cold /\ pc[r] = "tag" /\ at[r] \in Locations
        BY <1>0, <2>3, <3>1 DEF GetTag, RequestsPlaced
      <4>1. \A q \in Requests : at'[q] = IF q = r THEN NoOne ELSE at[q]
        BY <4>0 DEF Hit, Answered
      <4>2. pc'[r] = "done" /\ \A q \in Requests : q # r => pc'[q] = pc[q]
        <5>1. CASE Go({r}, "done")
          BY <1>0, <5>1, GoTypes
        <5>2. CASE pc' = [pc EXCEPT ![r] = "done", ![at[r]] = IF @ = "idle" THEN "render" ELSE @]
          BY <1>0, <4>0, <5>2 DEF RequestTypes
        <5> QED
          BY <4>0, <5>1, <5>2 DEF Hit
      <4> QED
        BY <4>0, <4>1, <4>2 DEF ColdKept
    <3>2. CASE tag[r] # view[at[r]].tag.at
      BY <2>3, <3>2 DEF GetTag, ColdAsked
    <3> QED
      BY <3>1, <3>2
  <2>4. CASE GetFails(r)
    BY <2>4 DEF GetFails, ColdAsked
  <2> QED
    BY <1>2, <2>1, <2>2, <2>3, <2>4 DEF Asks
<1>3. ASSUME NEW x \in Renders, EndsRender(x)
      PROVE  \/ ColdKept
             \/ \E r \in Requests, shared \in BOOLEAN : pc[r] \in {"render", "store"} /\ Ends(r, shared)
  <2>1. CASE Render(x)
    BY <1>0, <1>1, <2>1 DEF Render, Shareable, Withheld, Withdrawn
  <2>2. CASE RenderFails(x) \/ Stored(x)
    BY <1>0, <1>1, <2>2 DEF RenderFails, Stored
  <2>3. CASE StoreFails(x)
    BY <2>3 DEF StoreFails, ColdKept
  <2> QED
    BY <1>3, <2>1, <2>2, <2>3 DEF EndsRender
<1>4. ASSUME NEW w \in Writers, Moves(w) PROVE ColdKept
  BY <1>4, MovesStill DEF ColdKept
<1>5. CASE UNCHANGED cacheVars
  BY <1>5 DEF cacheVars, ColdKept
<1> QED
  BY <1>2, <1>3, <1>4, <1>5, PipelineSteps DEF pipelineVars

LEMMA ColdOnesNext ==
  ASSUME PipelineTypes, ColdOnes, [PipelineNext]_pipelineVars
  PROVE  ColdOnes'
<1>0. /\ RequestTypes /\ RequestTypes' /\ RequestsPlaced /\ clock \in Nat
      /\ NoOne \notin Requests /\ NoOne \notin Locations
  BY TypesAre, RequestSteps, RendersAssumption DEF Renders, PagesKnown, PagesTypeOK
<1>1. \A l \in Locations : cold[l] \in Requests \cup {NoOne}
  BY <1>0 DEF RequestTypes
<1>2. \A r \in Requests : pc[r] \in {"get", "tag", "wait", "render", "store"} => at[r] \in Locations
  BY <1>0 DEF RequestsPlaced
<1>3. CASE ColdKept
  BY <1>1, <1>2, <1>3 DEF ColdKept, ColdOnes
<1>4. ASSUME NEW r \in Requests, ColdAsked(r) PROVE ColdOnes'
  <2>0. at[r] \in Locations /\ pc[r] \in {"get", "tag"} /\ RenderCold(r) /\ at' = at
    BY <1>2, <1>4 DEF ColdAsked
  <2>1. /\ \A q \in Requests : q # r => pc'[q] = pc[q]
        /\ \/ cold[at[r]] = NoOne /\ pc'[r] = "render" /\ cold' = [cold EXCEPT ![at[r]] = r]
           \/ cold[at[r]] # NoOne /\ pc'[r] = "wait" /\ cold' = cold
    BY <1>0, <2>0, RenderColdTypes DEF Renders
  <2>2. CASE cold[at[r]] = NoOne /\ pc'[r] = "render" /\ cold' = [cold EXCEPT ![at[r]] = r]
    <3>1. \A l \in Locations : cold'[l] = IF l = at[r] THEN r ELSE cold[l]
      BY <1>0, <2>0, <2>2 DEF RequestTypes
    <3> QED
      BY <1>0, <1>1, <1>2, <2>0, <2>1, <2>2, <3>1 DEF ColdOnes
  <2>3. CASE cold[at[r]] # NoOne /\ pc'[r] = "wait" /\ cold' = cold
    BY <1>0, <1>1, <1>2, <2>0, <2>1, <2>3 DEF ColdOnes
  <2> QED
    BY <2>1, <2>2, <2>3
<1>5. ASSUME NEW r \in Requests, NEW shared \in BOOLEAN, pc[r] \in {"render", "store"},
             Ends(r, shared)
      PROVE  ColdOnes'
  <2>1. /\ pc'[r] = "done"
        /\ \A q \in Requests : q # r =>
             IF q \in Waiting(r) THEN pc'[q] \in {"done", "render"}
                                 ELSE pc'[q] = pc[q] /\ at'[q] = at[q]
        /\ \A l \in Locations : cold'[l] = IF cold[l] = r THEN NoOne ELSE cold[l]
    BY <1>0, <1>5, EndsTypes
  <2>2. ASSUME NEW l \in Locations, cold'[l] # NoOne
        PROVE  at'[cold'[l]] = l /\ pc'[cold'[l]] \in {"render", "store"}
    <3>1. cold'[l] = cold[l] /\ cold[l] # r /\ cold[l] \in Requests
      BY <1>1, <2>1, <2>2
    <3>2. at[cold[l]] = l /\ pc[cold[l]] \in {"render", "store"}
      BY <3>1, <2>2 DEF ColdOnes
    <3>3. cold[l] \notin Waiting(r)
      BY <3>2 DEF Waiting
    <3> QED
      BY <2>1, <3>1, <3>2, <3>3
  <2>3. ASSUME NEW q \in Requests, pc'[q] = "wait" PROVE cold'[at'[q]] # NoOne
    <3>1. /\ q # r /\ q \notin Waiting(r) /\ pc[q] = "wait" /\ at'[q] = at[q]
          /\ at[q] \in Locations
      BY <1>2, <2>1, <2>3
    <3>2. cold[at[q]] # NoOne
      BY <3>1 DEF ColdOnes
    <3>3. cold[at[q]] # r
      BY <1>0, <3>1, <3>2 DEF ColdOnes, Waiting
    <3> QED
      BY <2>1, <3>1, <3>2, <3>3
  <2> QED
    BY <2>2, <2>3 DEF ColdOnes
<1> QED
  BY <1>3, <1>4, <1>5, ColdSteps

LEMMA ColdOnesServe ==
  ASSUME PipelineTypes, ColdOnes
  PROVE  WaitersHaveARender
<1>0. RequestTypes /\ RequestsPlaced
  BY TypesAre
<1> QED
  BY <1>0 DEF ColdOnes, WaitersHaveARender, RequestTypes, RequestsPlaced

-----------------------------------------------------------------------------
(* Operations: what their purges have sealed *)

(* An operation past its page stages. *)
PastPages(w) ==
  \/ stage[w] \in {"publish", "cdn", "done"}
  \/ stage[w] = "failed" /\ failed[w] \in {"publish", "cdn"}
  \/ w \in told

(* The epoch stored under n seals what w has changed. *)
SealedBy(w, n) == ~overtaken => SealedAt(change[w], n, kv[n].at)

(* The calls an operation has on their way are of its present purge. *)
OwnCalls(w) ==
  \A c \in calls : c.by = w => c.do = "put" /\ c.name = stage[w] /\ stage[w] \in EpochNames

(* The epoch of a purge on its way seals the change, and is in the store once
   nothing is awaited. *)
Purging(w, n) ==
  /\ \A c \in calls : c.by = w => SealedAt(change[w], n, c.value.at)
  /\ ~Waits(w) => SealedBy(w, n)

(* What an operation has sealed, by its stage. *)
PurgesSeal(w) ==
  /\ OwnCalls(w)
  /\ Cleared(w) /\ stage[w] \in EpochNames => Purging(w, stage[w])
  /\ Cleared(w) /\ stage[w] = "tag" /\ "path" \in targets[w] => SealedBy(w, "path")
  /\ Cleared(w) /\ PastPages(w) => \A n \in targets[w] : SealedBy(w, n)

OperationsSeal == \A w \in Writers : PurgesSeal(w)

(* What nobody else does to an operation's calls. *)
CallsKept(w) ==
  /\ \A c \in calls' : c.by = w => c \in calls
  /\ \A c \in calls : c.by = w => c \in calls' \/ PutLands(c)

LEMMA OthersKeepCalls ==
  ASSUME PipelineTypes, OpsSound, [PipelineNext]_pipelineVars, NEW w \in Writers,
         OwnCalls(w),
         ~Moves(w)
  PROVE  CallsKept(w) /\ OpStill(w)
<1>0. /\ PagesKnown /\ w # NoOne /\ \A x \in Renders : x # w
      /\ OpStill(w)
  BY TypesAre, OpSteps, WritersAssumption
<1>1. ASSUME UNCHANGED pagesVars PROVE CallsKept(w)
  BY <1>1 DEF pagesVars, CallsKept
<1>2. ASSUME NEW x, x # w, NEW l, NEW v, NEW f, StoreCall(x, l, v, f) PROVE CallsKept(w)
  BY <1>2 DEF StoreCall, CallsKept
<1>3. ASSUME NEW x, x # w, NEW l, NEW n, NEW v, Purge(x, l, n, v) PROVE CallsKept(w)
  BY <1>3 DEF Purge, CallsKept
<1>4. ASSUME NEW c \in calls, ReadEpochs(c) PROVE CallsKept(w)
  <2>1. c.by # w
    BY <1>4 DEF OwnCalls, ReadEpochs
  <2> QED
    BY <1>4, <2>1 DEF ReadEpochs, CallsKept
<1>5. ASSUME NEW c \in calls, PutLands(c) PROVE CallsKept(w)
  <2>1. calls' = calls \ {c}
    BY <1>5 DEF PutLands
  <2> QED
    BY <1>5, <2>1 DEF CallsKept
<1>6. ASSUME NEW l, NEW n, Spread(l, n) PROVE CallsKept(w)
  BY <1>6 DEF Spread, CallsKept
<1>7. ASSUME NEW x, x # w, Fails(x) PROVE CallsKept(w)
  <2> DEFINE lost == {c \in calls : c.by = x}
             left == {[c EXCEPT !.by = NoOne] : c \in lost}
  <2>1. calls' \in {calls \ lost, (calls \ lost) \cup left}
    BY <1>7 DEF Fails
  <2>2. \A c \in left : c.by = NoOne
    BY <1>0, LeftCalls
  <2>3. \A c \in calls : c.by = w => c \notin lost
    BY <1>7
  <2> HIDE DEF lost, left
  <2> QED
    BY <1>0, <2>1, <2>2, <2>3 DEF CallsKept
<1>8. ASSUME NEW v \in Writers, Moves(v) PROVE CallsKept(w)
  <2>1. v # w
    BY <1>8
  <2> QED
    BY <1>1, <1>3, <1>7, <1>8, <2>1, WriterPages DEF PurgesFor
<1>9. ASSUME NEW x \in Renders, EndsRender(x) PROVE CallsKept(w)
  <2>1. x # w
    BY <1>0
  <2>2. CASE Render(x)
    <3>1. CASE Shareable(x)
      BY <1>2, <2>1, <3>1 DEF Shareable
    <3>2. CASE Withheld(x)
      BY <1>1, <3>2 DEF Withheld
    <3>3. CASE Withdrawn(x)
      BY <1>3, <2>1, <3>3 DEF Withdrawn
    <3> QED
      BY <2>2, <3>1, <3>2, <3>3 DEF Render
  <2>3. CASE RenderFails(x) \/ Stored(x)
    BY <1>1, <2>3 DEF RenderFails, Stored
  <2>4. CASE StoreFails(x)
    BY <1>7, <2>1, <2>4 DEF StoreFails
  <2> QED
    BY <1>9, <2>2, <2>3, <2>4 DEF EndsRender
<1>10. ASSUME NEW r \in Requests, Asks(r) PROVE CallsKept(w)
  BY <1>1, <1>10 DEF Asks, Arrive, Get, GetTag, GetFails
<1> QED
  BY <1>0, <1>1, <1>4, <1>5, <1>6, <1>8, <1>9, <1>10, PipelineSteps DEF Serve, pipelineVars

(* What an operation has sealed stays so, unless an epoch is overtaken. *)
LEMMA SealedByStays ==
  ASSUME PipelineTypes, PipelineTypes', [PipelineNext]_pipelineVars, NEW w \in Writers,
         NEW n \in EpochNames,
         SealedBy(w, n), change[w] <= Visible, change'[w] = change[w]
  PROVE  SealedBy(w, n)'
<1>0. PagesKnown /\ PagesKnown' /\ EpochsMove
  BY TypesAre, PagesMoves DEF PagesMove
<1>1. ASSUME ~overtaken' PROVE SealedAt(change[w], n, kv[n].at)'
  <2>1. ~overtaken /\ kv'[n].at >= kv[n].at
    BY <1>0, <1>1 DEF EpochsMove
  <2>2. kv[n].at \in Nat /\ kv'[n].at \in Nat
    BY <1>0 DEF PagesKnown, PagesTypeOK, Namespace, Epoch, EpochNames
  <2>3. PICK v \in Nat, e \in Nat : v = change[w] /\ e = kv'[n].at
    BY <2>2 DEF PipelineTypes, PipelineTypeOK, Version
  <2>4. v <= Visible /\ SealedAt(v, n, kv[n].at)
    BY <2>1, <2>3 DEF SealedBy
  <2>5. SealedAt(v, n, e)
    BY <1>0, <2>1, <2>2, <2>3, <2>4, LaterSeals
  <2>6. SealedAt(v, n, e)'
    BY <2>4, <2>5, SealedStays
  <2> QED
    BY <2>3, <2>6 DEF SealedAt
<1> QED
  BY <1>1 DEF SealedBy

(* The epoch that a purge's call puts seals for good, whenever it lands. *)
LEMMA CallSeals ==
  ASSUME PipelineTypes, PipelineTypes', [PipelineNext]_pipelineVars, NEW w \in Writers,
         NEW n \in EpochNames,
         NEW c \in calls, c.do = "put", c.name = n,
         SealedAt(change[w], n, c.value.at), change[w] <= Visible, change'[w] = change[w]
  PROVE  /\ SealedAt(change[w], n, c.value.at)'
         /\ PutLands(c) => SealedBy(w, n)'
<1>0. PagesKnown /\ PagesKnown'
  BY TypesAre, PagesMoves DEF PagesMove
<1>1. c \in EpochPut /\ c.value.at \in Nat
  BY <1>0, KnownPages DEF EpochPut, EpochNames, Epoch
<1>2. PICK v \in Nat, e \in Nat : v = change[w] /\ e = c.value.at
  BY <1>1 DEF PipelineTypes, PipelineTypeOK, Version
<1>3. SealedAt(v, n, e)'
  BY <1>2, SealedStays
<1>4. SealedAt(change[w], n, c.value.at)'
  BY <1>2, <1>3 DEF SealedAt
<1>5. ASSUME PutLands(c) PROVE SealedBy(w, n)'
  <2>1. kv'[n] = c.value
    BY <1>0, <1>5 DEF PutLands, PagesKnown, PagesTypeOK, Namespace, EpochNames
  <2> QED
    BY <1>2, <1>3, <2>1 DEF SealedBy, SealedAt
<1> QED
  BY <1>4, <1>5

LEMMA PastPagesIsPastData ==
  ASSUME NEW w \in Writers
  PROVE  /\ PastPages(w) => PastData(w)
         /\ stage[w] \in EpochNames => PastData(w)
  BY DEF PastPages, PastData, EpochNames

(* The part about the data, the pages and their epochs. *)
SealInv ==
  /\ PipelineTypes /\ OpsSound /\ DataKnown /\ ChangesVisible
  /\ Clocked /\ ViewsBehind /\ EpochsSealed

LEMMA SealInvNext ==
  ASSUME SealInv, [PipelineNext]_pipelineVars
  PROVE  SealInv'
<1>1. PipelineTypes' /\ OpsSound'
  BY TypesNext DEF SealInv
<1> QED
  BY <1>1, DataKnownNext, ChangesVisibleNext, ClockedNext, ViewsBehindNext,
     EpochsSealedNext DEF SealInv

LEMMA OthersSeal ==
  ASSUME SealInv, SealInv', [PipelineNext]_pipelineVars, NEW w \in Writers, PurgesSeal(w),
         ~Moves(w)
  PROVE  PurgesSeal(w)'
<1>0. /\ PipelineTypes /\ PipelineTypes' /\ CallsKept(w) /\ OpStill(w)
      /\ targets[w] \subseteq EpochNames
      /\ loaded' = Off => loaded = Off
  <2> DEFINE Both == {"path", "tag"}
  <2>1. targets[w] \in SUBSET Both
    BY TargetsAssumption DEF SealInv, PipelineTypes, PipelineTypeOK
  <2>2. targets[w] \subseteq Both
    BY <2>1
  <2> QED
    BY <2>2, OthersKeepCalls, OpSteps DEF SealInv, PurgesSeal, EpochNames
<1>1. /\ stage'[w] = stage[w] /\ targets'[w] = targets[w] /\ change'[w] = change[w]
      /\ Cleared(w)' => Cleared(w)
      /\ PastPages(w)' => PastPages(w)
  BY <1>0 DEF OpStill, Cleared, PastPages
<1>2. Cleared(w) /\ (PastPages(w) \/ stage[w] \in EpochNames) => change[w] <= Visible
  <2>1. change[w] \in Nat /\ Visible \in Nat
    BY <1>0, VisibleType DEF PipelineTypes, PipelineTypeOK, Version
  <2> QED
    BY <2>1, PastPagesIsPastData DEF SealInv, ChangesVisible
<1>3. ASSUME NEW n \in EpochNames, SealedBy(w, n), change[w] <= Visible PROVE SealedBy(w,
             n)'
  BY <1>0, <1>1, <1>3, SealedByStays
<1>4. OwnCalls(w)'
  BY <1>0, <1>1 DEF OwnCalls, CallsKept, PurgesSeal
<1>5. ASSUME Cleared(w)', stage'[w] \in EpochNames PROVE Purging(w, stage[w])'
  <2>0. PICK n \in EpochNames : n = stage[w] /\ n = stage'[w]
    BY <1>1, <1>5
  <2>1. Purging(w, n) /\ change[w] <= Visible
    BY <1>1, <1>2, <1>5, <2>0 DEF PurgesSeal
  <2>2. ASSUME NEW c \in calls, c.by = w
        PROVE  /\ SealedAt(change[w], n, c.value.at)'
               /\ PutLands(c) => SealedBy(w, n)'
    <3>1. c.do = "put" /\ c.name = n /\ SealedAt(change[w], n, c.value.at)
      BY <2>0, <2>1, <2>2 DEF PurgesSeal, OwnCalls, Purging
    <3> QED
      BY <1>0, <1>1, <2>1, <3>1, CallSeals
  <2>3. \A c \in calls' : c.by = w => SealedAt(change[w], n, c.value.at)'
    BY <1>0, <2>2 DEF CallsKept
  <2>4. ASSUME ~Waits(w)' PROVE SealedBy(w, n)'
    <3>1. CASE ~Waits(w)
      BY <1>3, <2>1, <3>1 DEF Purging
    <3>2. CASE Waits(w)
      BY <1>0, <2>2, <2>4, <3>2 DEF Waits, CallsKept
    <3> QED
      BY <3>1, <3>2
  <2>5. Purging(w, n)'
    BY <2>3, <2>4 DEF Purging
  <2> QED
    BY <2>0, <2>5
<1>6. ASSUME Cleared(w)', stage'[w] = "tag", "path" \in targets'[w] PROVE SealedBy(w,
             "path")'
  BY <1>1, <1>2, <1>3, <1>6 DEF PurgesSeal, EpochNames
<1>7. ASSUME Cleared(w)', PastPages(w)', NEW n \in targets'[w] PROVE SealedBy(w, n)'
  BY <1>0, <1>1, <1>2, <1>3, <1>7 DEF PurgesSeal
<1> QED
  BY <1>4, <1>5, <1>6, <1>7 DEF PurgesSeal

(* A purge as it is begun, by an operation that awaits nothing else. *)
LEMMA PurgeBegins ==
  ASSUME SealInv, NEW w \in Writers, NEW l, NEW n \in EpochNames, NEW v,
         Purge(w, l, n, v), ~Waits(w), stage'[w] = n, change'[w] \in Version
  PROVE  OwnCalls(w)' /\ Purging(w, stage[w])'
<1>0. PagesKnown /\ Version \subseteq Nat
  BY TypesAre DEF SealInv, Version
<1>00. PICK c : c = [do |-> "put", by |-> w, at |-> l, name |-> n,
                    value |-> [at |-> clock + 1, covers |-> v]]
  OBVIOUS
<1>1. c.do = "put" /\ c.by = w /\ c.name = n /\ c.value.at = clock + 1 /\ n # "page"
  BY <1>00 DEF EpochNames
<1>2. calls' = calls \cup {c} /\ UNCHANGED <<kv, view>>
  BY <1>00 DEF Purge
<1>3. \A d \in calls' : d.by = w => d = c
  BY <1>2 DEF Waits
<1>4. Waits(w)' /\ c \in calls'
  BY <1>1, <1>2 DEF Waits
<1>5. StoredPages' = StoredPages /\ SetCalls' = SetCalls
  BY <1>1, <1>2 DEF StoredPages, SetCalls
<1>6. PICK u \in Nat : u = change'[w]
  BY <1>0
<1>7. SealedAt(u, n, c.value.at)
  BY <1>0, <1>1, NextEpochSeals DEF SealInv
<1>8. SealedAt(change[w], n, c.value.at)'
  BY <1>1, <1>5, <1>6, <1>7 DEF SealedAt
<1>9. OwnCalls(w)'
  BY <1>1, <1>3 DEF OwnCalls
<1>10. Purging(w, n)'
  BY <1>3, <1>4, <1>8 DEF Purging
<1> QED
  BY <1>9, <1>10

LEMMA Shown ==
  ASSUME SealInv, NEW w \in Writers
  PROVE  /\ targets[w] \subseteq EpochNames
         /\ Cleared(w) /\ (PastPages(w) \/ stage[w] \in EpochNames) => change[w] <= Visible
<1>1. targets[w] \subseteq EpochNames
  <2> DEFINE Both == {"path", "tag"}
  <2>1. targets[w] \in SUBSET Both
    BY TargetsAssumption DEF SealInv, PipelineTypes, PipelineTypeOK
  <2>2. targets[w] \subseteq Both
    BY <2>1
  <2> QED
    BY <2>2 DEF EpochNames
<1>2. change[w] \in Nat /\ Visible \in Nat
  BY VisibleType DEF SealInv, PipelineTypes, PipelineTypeOK, Version
<1> QED
  BY <1>1, <1>2, PastPagesIsPastData DEF SealInv, ChangesVisible

(* An operation that goes on, with what it has sealed. *)
LEMMA OwnSealed ==
  ASSUME SealInv, SealInv', [PipelineNext]_pipelineVars, NEW w \in Writers, PurgesSeal(w),
         targets'[w] = targets[w], change'[w] = change[w], Cleared(w)' => Cleared(w),
         OwnCalls(w)', stage'[w] \in EpochNames => Purging(w, stage[w])',
         Cleared(w) /\ stage'[w] = "tag" /\ "path" \in targets[w]
           => SealedBy(w, "path") /\ change[w] <= Visible,
         Cleared(w) /\ PastPages(w)'
           => PastPages(w) \/ (change[w] <= Visible /\ \A n \in targets[w] : SealedBy(w, n))
  PROVE  PurgesSeal(w)'
<1>0. PipelineTypes /\ PipelineTypes' /\ targets[w] \subseteq EpochNames
  BY Shown DEF SealInv
<1>1. ASSUME NEW n \in EpochNames, SealedBy(w, n), change[w] <= Visible PROVE SealedBy(w,
             n)'
  BY <1>0, <1>1, SealedByStays
<1>2. ASSUME Cleared(w)', PastPages(w)', NEW n \in targets'[w] PROVE SealedBy(w, n)'
  BY <1>0, <1>1, <1>2, Shown DEF PurgesSeal
<1>3. ASSUME Cleared(w)', stage'[w] = "tag", "path" \in targets'[w] PROVE SealedBy(w,
             "path")'
  BY <1>1, <1>3 DEF EpochNames
<1> QED
  BY <1>2, <1>3 DEF PurgesSeal

LEMMA ActSeals ==
  ASSUME SealInv, SealInv', [PipelineNext]_pipelineVars, NEW w \in Writers, PurgesSeal(w),
         NEW l \in Locations, NEW T \in Targets, Act(w, l, T)
  PROVE  PurgesSeal(w)'
<1>0. /\ OpTypes /\ stage[w] = "idle" /\ w \notin told /\ ~Waits(w)
      /\ change'[w] \in Version
  <2>1. OpTypes /\ OpTypes'
    BY TypesAre, OpSteps DEF SealInv
  <2>2. stage[w] = "idle" /\ w \notin told
    BY DEF Act, SealInv, OpsSound, StageInv
  <2> QED
    BY <2>1, <2>2 DEF OpTypes, PurgesSeal, OwnCalls, Waits, EpochNames
<1>1. PICK s \in Stages : RunsTo(s, 1, w, l, T, data + 1)
  BY <1>0, RunsOn DEF Act
<1>2. stage'[w] = s /\ targets'[w] = T /\ w \notin told' /\ s \in {"data", "path", "tag"}
  BY <1>0, <1>1 DEF Act, RunsTo, OpTypes
<1>3. ~PastPages(w)'
  BY <1>2 DEF PastPages
<1>4. CASE s = "data"
  <2>1. UNCHANGED pagesVars
    BY <1>1, <1>4 DEF RunsTo
  <2>2. OwnCalls(w)'
    BY <1>0, <2>1 DEF OwnCalls, Waits, pagesVars
  <2> QED
    BY <1>2, <1>3, <1>4, <2>2 DEF PurgesSeal, EpochNames
<1>5. CASE s \in EpochNames
  <2>1. Purge(w, l, s, Covers(T, data + 1))
    BY <1>1, <1>5 DEF RunsTo, EpochNames
  <2>2. OwnCalls(w)' /\ Purging(w, stage[w])'
    BY <1>0, <1>2, <1>5, <2>1, PurgeBegins
  <2>3. s = "tag" => "path" \notin T
    BY <1>1 DEF RunsTo
  <2> QED
    BY <1>2, <1>3, <2>2, <2>3 DEF PurgesSeal
<1> QED
  BY <1>2, <1>4, <1>5 DEF EpochNames

LEMMA NoCallsLeft ==
  ASSUME NEW w, ~Waits(w), UNCHANGED pagesVars
  PROVE  OwnCalls(w)'
  BY DEF OwnCalls, Waits, pagesVars

(* A run that goes on from a cache stage, to another or past them. *)
LEMMA RunSeals ==
  ASSUME SealInv, SealInv', [PipelineNext]_pipelineVars, NEW w \in Writers, PurgesSeal(w),
         NEW i \in {1, 2}, RunFrom(i, w, place[w], targets[w], change[w]), stage[w] \notin EpochNames,
         UNCHANGED <<targets, change, told>>, Cleared(w)' => Cleared(w)
  PROVE  PurgesSeal(w)'
<1>0. OpTypes /\ ~Waits(w) /\ change'[w] \in Version
  <2>1. OpTypes
    BY TypesAre DEF SealInv
  <2> QED
    BY <2>1 DEF OpTypes, PurgesSeal, OwnCalls, Waits
<1>1. PICK s \in Stages : RunsTo(s, i, w, place[w], targets[w], change[w])
  BY <1>0, RunsOn
<1>2. /\ stage'[w] = s /\ s \in {"data", "path", "tag"} /\ targets'[w] = targets[w]
      /\ change'[w] = change[w]
  BY <1>0, <1>1 DEF RunsTo, OpTypes
<1>3. PastPages(w)' => PastPages(w)
  BY <1>2 DEF PastPages
<1>4. s = "tag" => "path" \notin targets[w]
  BY <1>1 DEF RunsTo
<1>5. OwnCalls(w)' /\ (s \in EpochNames => Purging(w, stage[w])')
  <2>1. CASE s = "data"
    <3>1. UNCHANGED pagesVars
      BY <1>1, <2>1 DEF RunsTo
    <3> QED
      BY <1>0, <2>1, <3>1, NoCallsLeft DEF EpochNames
  <2>2. CASE s \in EpochNames
    <3>1. Purge(w, place[w], s, Covers(targets[w], change[w]))
      BY <1>1, <2>2 DEF RunsTo, EpochNames
    <3> QED
      BY <1>0, <1>2, <2>2, <3>1, PurgeBegins
  <2> QED
    BY <1>2, <2>1, <2>2 DEF EpochNames
<1> QED
  BY <1>2, <1>3, <1>4, <1>5, OwnSealed

(* A run that leaves the page cache as it is. *)
LEMMA QuietSeals ==
  ASSUME SealInv, SealInv', [PipelineNext]_pipelineVars, NEW w \in Writers, PurgesSeal(w),
         ~Waits(w), UNCHANGED pagesVars, targets'[w] = targets[w], change'[w] = change[w],
         Cleared(w)' => Cleared(w), stage'[w] \notin EpochNames,
         Cleared(w) /\ PastPages(w)'
           => PastPages(w) \/ (change[w] <= Visible /\ \A n \in targets[w] : SealedBy(w, n))
  PROVE  PurgesSeal(w)'
<1>1. OwnCalls(w)'
  BY NoCallsLeft
<1>2. stage'[w] # "tag"
  BY DEF EpochNames
<1> QED
  BY <1>1, <1>2, OwnSealed

LEMMA PurgedSeals ==
  ASSUME SealInv, SealInv', [PipelineNext]_pipelineVars, NEW w \in Writers, PurgesSeal(w),
         PurgedPath(w) \/ PurgedTag(w)
  PROVE  PurgesSeal(w)'
<1>0. /\ OpTypes /\ ~Waits(w)
      /\ UNCHANGED <<cacheVars, place, targets, change, failed, tries, told>>
      /\ stage[w] \in EpochNames
  BY TypesAre DEF SealInv, PurgedPath, PurgedTag, EpochNames
<1>1. Cleared(w)' => Cleared(w)
  BY <1>0 DEF Cleared, cacheVars
<1>2. Cleared(w) => SealedBy(w, stage[w]) /\ change[w] <= Visible
  BY <1>0, Shown DEF PurgesSeal, Purging
<1>3. CASE PurgedPath(w) /\ "tag" \in targets[w]
  <2>1. PurgeBy("tag", w, place[w], targets[w], change[w]) /\ stage[w] = "path"
    BY <1>3 DEF PurgedPath
  <2>2. stage'[w] = "tag" /\ Purge(w, place[w], "tag", Covers(targets[w], change[w]))
    BY <1>0, <2>1 DEF PurgeBy, OpTypes
  <2>3. change'[w] \in Version /\ "tag" \in EpochNames
    BY <1>0 DEF OpTypes, EpochNames
  <2>4. OwnCalls(w)' /\ Purging(w, stage[w])'
    BY <1>0, <2>2, <2>3, PurgeBegins
  <2>5. PastPages(w)' => PastPages(w)
    BY <1>0, <2>2 DEF PastPages
  <2> QED
    BY <1>0, <1>1, <1>2, <2>1, <2>4, <2>5, OwnSealed
<1>4. CASE GoOn(w, "pages") /\ (stage[w] = "path" => "tag" \notin targets[w])
  <2>1. UNCHANGED pagesVars /\ stage'[w] = "publish" /\ stage'[w] \notin EpochNames
    BY <1>0, <1>4, GoesOnTo DEF To, OpTypes, EpochNames
  <2>2. Cleared(w) => \A n \in targets[w] : SealedBy(w, n)
    <3>1. stage[w] = "tag" => (Cleared(w) /\ "path" \in targets[w] => SealedBy(w, "path"))
      BY DEF PurgesSeal
    <3>2. targets[w] \subseteq {"path", "tag"}
      BY Shown DEF EpochNames
    <3> QED
      BY <1>0, <1>2, <1>4, <3>1, <3>2 DEF EpochNames
  <2> QED
    BY <1>0, <1>1, <1>2, <2>1, <2>2, QuietSeals
<1> QED
  BY <1>3, <1>4 DEF PurgedPath, PurgedTag

LEMMA MovesSeal ==
  ASSUME SealInv, SealInv', [PipelineNext]_pipelineVars, NEW w \in Writers, PurgesSeal(w),
         Moves(w)
  PROVE  PurgesSeal(w)'
<1>0. /\ OpTypes /\ StageInv(w) /\ (loaded' = Off => loaded = Off)
      /\ stage[w] \notin EpochNames => ~Waits(w)
      /\ targets' = targets => (Cleared(w)' => Cleared(w))
  BY TypesAre, OpSteps DEF SealInv, OpsSound, PurgesSeal, OwnCalls, Waits, Cleared
<1>1. CASE \E l \in Locations, T \in Targets : Act(w, l, T)
  BY <1>1, ActSeals
<1>2. CASE ClearsData(w)
  <2>1. /\ RunFrom(2, w, place[w], targets[w], change[w])
        /\ UNCHANGED <<targets, change, told>>
        /\ stage[w] \notin EpochNames
    BY <1>2, GoesOnTo DEF ClearsData, EpochNames
  <2> QED
    BY <1>0, <2>1, RunSeals
<1>3. CASE PurgedPath(w) \/ PurgedTag(w)
  BY <1>3, PurgedSeals
<1>4. CASE Publishes(w) \/ PublishFails(w)
  <2>1. /\ UNCHANGED <<pagesVars, targets, change>> /\ stage[w] = "publish"
        /\ stage'[w] = "cdn"
    BY <1>0, <1>4, GoesOnTo DEF Publishes, PublishFails, To, OpTypes
  <2>2. PastPages(w) /\ stage[w] \notin EpochNames /\ stage'[w] \notin EpochNames
    BY <2>1 DEF PastPages, EpochNames
  <2> QED
    BY <1>0, <2>1, <2>2, QuietSeals
<1>5. CASE PurgesCdn(w) \/ CdnFails(w)
  <2>1. /\ UNCHANGED <<pagesVars, targets, change>> /\ stage[w] = "cdn"
        /\ stage'[w] \in {"done", "failed", "abandoned"}
    BY <1>0, <1>5 DEF PurgesCdn, CdnFails, Over, OpTypes
  <2>2. PastPages(w) /\ stage[w] \notin EpochNames /\ stage'[w] \notin EpochNames
    BY <2>1 DEF PastPages, EpochNames
  <2> QED
    BY <1>0, <2>1, <2>2, QuietSeals
<1>6. CASE DataFails(w)
  <2>1. /\ UNCHANGED <<pagesVars, targets, change, told>> /\ stage[w] = "data"
        /\ stage'[w] = "failed" /\ failed'[w] = "data"
    BY <1>0, <1>6 DEF DataFails, Breaks, OpTypes
  <2>2. /\ (PastPages(w)' => PastPages(w)) /\ stage[w] \notin EpochNames
        /\ stage'[w] \notin EpochNames
    BY <2>1 DEF PastPages, EpochNames
  <2> QED
    BY <1>0, <2>1, <2>2, QuietSeals
<1>7. CASE PurgeFails(w)
  <2>1. /\ UNCHANGED <<targets, change, told>> /\ stage'[w] = "failed"
        /\ failed'[w] = "pages" /\ Fails(w)
    BY <1>0, <1>7 DEF PurgeFails, Breaks, OpTypes
  <2>2. PastPages(w)' => PastPages(w)
    BY <2>1 DEF PastPages
  <2>3. PagesKnown /\ w # NoOne
    BY TypesAre, WritersAssumption DEF SealInv
  <2>4. OwnCalls(w)'
    BY <2>1, <2>3, FailedCalls DEF OwnCalls
  <2>5. stage'[w] \notin EpochNames /\ stage'[w] # "tag"
    BY <2>1 DEF EpochNames
  <2> QED
    BY <1>0, <2>1, <2>2, <2>4, <2>5, OwnSealed
<1>8. CASE Retry(w)
  <2>1. /\ UNCHANGED <<targets, change, told>> /\ stage[w] = "failed"
        /\ stage[w] \notin EpochNames
        /\ RunFrom(Place(failed[w]), w, place[w], targets[w], change[w])
        /\ failed[w] \in {"data", "pages", "publish", "cdn"}
    BY <1>0, <1>8 DEF Retry, EpochNames, StageInv, OpTypes
  <2>2. CASE failed[w] \in {"data", "pages"}
    <3>1. Place(failed[w]) \in {1, 2}
      BY <2>2, StagePlaces
    <3> QED
      BY <1>0, <2>1, <3>1, RunSeals
  <2>3. CASE failed[w] \in {"publish", "cdn"}
    <3>1. UNCHANGED pagesVars /\ stage'[w] \in {"publish", "cdn"}
      BY <1>0, <2>1, <2>3, StagePlaces, RunStages DEF To, OpTypes
    <3>2. PastPages(w) /\ stage'[w] \notin EpochNames
      BY <2>1, <2>3, <3>1 DEF PastPages, EpochNames
    <3> QED
      BY <1>0, <2>1, <3>1, <3>2, QuietSeals
  <2> QED
    BY <2>1, <2>2, <2>3
<1>9. CASE GiveUp(w)
  <2>1. /\ UNCHANGED <<pagesVars, targets, change, told>> /\ stage[w] = "failed"
        /\ stage'[w] = "abandoned"
    BY <1>0, <1>9 DEF GiveUp, Over, OpTypes
  <2>2. /\ (PastPages(w)' => PastPages(w)) /\ stage[w] \notin EpochNames
        /\ stage'[w] \notin EpochNames
    BY <2>1 DEF PastPages, EpochNames
  <2> QED
    BY <1>0, <2>1, <2>2, QuietSeals
<1> QED
  BY <1>1, <1>2, <1>3, <1>4, <1>5, <1>6, <1>7, <1>8, <1>9 DEF Moves, Running

-----------------------------------------------------------------------------
(* The theorems *)

(* The inductive invariant. *)
PipelineInv == SealInv /\ RequestsOwed /\ ColdOnes /\ OperationsSeal

LEMMA PipelineInvInit ==
  ASSUME PipelineInit
  PROVE  PipelineInv
<1>0. PipelineTypes /\ OpsSound
  BY TypesInit
<1>1. /\ calls = {} /\ clock = 0 /\ view = [l \in Locations |-> kv]
      /\ kv.path = NeverPurged /\ kv.tag = NeverPurged
      /\ kv.page \in {NoPage, [made |-> 0, path |-> 0, tag |-> 0]}
  BY DEF PipelineInit, CacheInit, PagesInit
<1>2. PagesKnown /\ NoPage \notin RealPage
  BY <1>0, TypesAre, KnownPages
<1>3. /\ SetCalls = {}
      /\ \A p \in StoredPages : p.made = 0 /\ p.path = 0 /\ p.tag = 0
      /\ \A n \in EpochNames : \A e \in Epochs(n) : e.at = 0 /\ e.covers = 0
      /\ \A n \in EpochNames : kv[n].at = 0 /\ \A l \in Locations : view[l][n].at = 0
  BY <1>1, <1>2 DEF SetCalls, StoredPages, Epochs, EpochNames, NeverPurged
<1>4. Visible \in Nat /\ data \in Nat
  BY <1>0, VisibleType DEF PipelineTypes, PipelineTypeOK, CacheTypeOK, Version
<1>5. DataKnown
  BY <1>4, MarkersAssumption DEF PipelineInit, CacheInit, DataKnown
<1>6. \A w \in Writers : /\ stage[w] = "idle" /\ w \notin told /\ change[w] = 0
                         /\ failed[w] = "none" /\ targets[w] = {}
  BY DEF PipelineInit
<1>7. ChangesVisible
  BY <1>4, <1>6 DEF ChangesVisible
<1>8. Clocked
  BY <1>1, <1>3 DEF Clocked, PipelineInit, CacheInit
<1>9. ViewsBehind /\ EpochsSealed
  BY <1>3, <1>4 DEF ViewsBehind, EpochsSealed, SealedAt
<1>10. RequestsOwed
  BY <1>4 DEF RequestsOwed, RequestOwed, PipelineInit, CacheInit, Renders
<1>11. ColdOnes
  BY DEF ColdOnes, PipelineInit, CacheInit, Renders
<1>12. OperationsSeal
  BY <1>1, <1>6 DEF OperationsSeal, PurgesSeal, OwnCalls, PastPages, EpochNames
<1> QED
  BY <1>0, <1>5, <1>7, <1>8, <1>9, <1>10, <1>11, <1>12 DEF PipelineInv, SealInv

LEMMA PipelineInvNext ==
  ASSUME PipelineInv, [PipelineNext]_pipelineVars
  PROVE  PipelineInv'
<1>1. SealInv /\ SealInv'
  BY SealInvNext DEF PipelineInv
<1>2. RequestsOwed' /\ ColdOnes'
  BY <1>1, RequestsOwedNext, ColdOnesNext DEF PipelineInv, SealInv
<1>3. OperationsSeal'
  BY <1>1, MovesSeal, OthersSeal DEF PipelineInv, OperationsSeal
<1> QED
  BY <1>1, <1>2, <1>3 DEF PipelineInv

LEMMA PipelineInvariant == PipelineSpec => []PipelineInv
<1>1. PipelineInit => PipelineInv
  BY PipelineInvInit
<1>2. PipelineInv /\ [PipelineNext]_pipelineVars => PipelineInv'
  BY PipelineInvNext
<1> QED
  BY <1>1, <1>2, PTL DEF PipelineSpec

(* A request that coldRenderOnce() makes wait at a location waits for a render
   that is under way there. *)
THEOREM WaitersAreRenderedFor == PipelineSpec => []WaitersHaveARender
<1>1. PipelineInv => WaitersHaveARender
  BY ColdOnesServe DEF PipelineInv, SealInv
<1> QED
  BY <1>1, PipelineInvariant, PTL

(* A page served from the page cache, or rendered and stored, is as new as what
   was promised by the time its request arrived, though purges, renders and
   stores of the page run meanwhile, in any order, and fail: unless two purges'
   epochs were put out of order. *)
THEOREM PromisesAreKept == PipelineSpec => AnswersAreFresh
<1>1. ASSUME PipelineInv, [PipelineNext]_pipelineVars
      PROVE  \A r \in Requests :
               Answers(r) /\ pc[r] \in {"tag", "store"} /\ ~overtaken => made[r] >= owed[r]
  BY <1>1, AnswersFresh DEF PipelineInv, SealInv
<1> QED
  BY <1>1, PipelineInvariant, PTL DEF PipelineSpec, AnswersAreFresh

(* What an operation has sealed is what its client may read. *)
LEMMA SealedReads ==
  ASSUME PipelineInv
  PROVE  ToldReadsFresh
<1>0. SealInv /\ PagesKnown
  BY TypesAre DEF PipelineInv, SealInv
<1>1. ASSUME NEW w \in Writers, w \in told \/ stage[w] = "done"
      PROVE  /\ "tag" \in targets[w] => Visible >= change[w]
             /\ Readable(kv) /\ ~overtaken /\ ("tag" \in targets[w] \/ loaded = Off)
                  => kv.page.made >= change[w]
  <2>1. PastData(w) /\ PastPages(w)
    BY <1>1 DEF PastData, PastPages
  <2>2. "tag" \in targets[w] => Visible >= change[w]
    BY <1>0, <2>1 DEF SealInv, ChangesVisible, Cleared
  <2>3. ASSUME Readable(kv), ~overtaken, Cleared(w) PROVE kv.page.made >= change[w]
    <3>1. stage[w] # "idle" /\ targets[w] # {}
      <4>1. stage[w] # "idle" /\ targets[w] \in Targets
        BY <1>0, <1>1 DEF SealInv, OpsSound, StageInv
      <4> QED
        BY <4>1, TargetsAssumption
    <3>2. PICK n \in targets[w] : SealedBy(w, n)
      BY <2>1, <2>3, <3>1 DEF PipelineInv, OperationsSeal, PurgesSeal
    <3>3. n \in EpochNames
      BY <1>0, Shown
    <3>4. kv.page \in StoredPages
      BY <1>0, <2>3, KnownPages DEF Readable, PathCurrent, StoredPages
    <3>5. kv.page[n] = kv[n].at
      BY <2>3, <3>3 DEF Readable, PathCurrent, EpochNames
    <3>6. kv.page[n] \in Nat
      BY <1>0, <3>3, <3>4, PageNumbers
    <3> QED
      BY <2>3, <3>2, <3>4, <3>5, <3>6 DEF SealedBy, SealedAt
  <2> QED
    BY <2>2, <2>3 DEF Cleared
<1> QED
  BY <1>1 DEF ToldReadsFresh

(* Once an operation's client has been told, loaders read its change, and so
   does the page that the store holds: whatever renders were under way as the
   data changed, and whichever stages of the run failed and were retried. *)
THEOREM ToldClientsReadFresh == PipelineSpec => []ToldReadsFresh
<1>1. PipelineInv => ToldReadsFresh
  BY SealedReads
<1> QED
  BY <1>1, PipelineInvariant, PTL

-----------------------------------------------------------------------------
(* LIVE REFRESH *)

-----------------------------------------------------------------------------
(* Numbers and sequences *)

(* Of the subsets above(m) of a finite set, one for each m, some has no other
   properly within it. *)
LEMMA NoneWithin ==
  ASSUME NEW F, IsFiniteSet(F), NEW S, S # {}, NEW above \in [S -> SUBSET F]
  PROVE  \E m \in S : \A x \in S : ~(above[x] \subseteq above[m] /\ above[x] # above[m])
<1> DEFINE Sets == {above[m] : m \in S}
           Smaller == StrictSubsetOrdering(F)
<1>1. IsWellFoundedOn(Smaller, FiniteSubsetsOf(F))
  BY FS_StrictSubsetOrderingWellFounded
<1>2. Sets \subseteq FiniteSubsetsOf(F)
  BY FS_Subset DEF FiniteSubsetsOf
<1>3. Sets # {}
  OBVIOUS
<1>4. \A a, b \in Sets : a \subseteq b /\ a # b => <<a, b>> \in Smaller
  BY DEF StrictSubsetOrdering
<1>5. \A x \in S : above[x] \in Sets
  OBVIOUS
<1> HIDE DEF Smaller
<1>6. PICK least \in Sets : \A a \in Sets : ~ (<<a, least>> \in Smaller)
  <2> HIDE DEF Sets
  <2> QED
    BY <1>1, <1>2, <1>3, WFMin
<1>7. PICK m \in S : above[m] = least
  BY <1>6
<1> QED
  BY <1>4, <1>5, <1>6, <1>7

(* A nonempty set of numbers up to n has a greatest and a least one. *)
LEMMA GreatestOf ==
  ASSUME NEW n \in Nat, NEW S, S \subseteq 0..n, S # {}
  PROVE  Max(S) \in S /\ \A x \in S : Max(S) >= x
<1> DEFINE above == [m \in S |-> {x \in S : x > m}]
<1>0. S \subseteq Nat /\ 0 \in Int /\ n \in Int
  OBVIOUS
<1>1. above \in [S -> SUBSET (0..n)] /\ IsFiniteSet(0..n)
  BY <1>0, FS_Interval
<1>2. \A m \in S : above[m] = {x \in S : x > m}
  OBVIOUS
<1> HIDE DEF above
<1>3. PICK m \in S : \A x \in S : ~(above[x] \subseteq above[m] /\ above[x] # above[m])
  <2> DEFINE F == 0..n
  <2>1. IsFiniteSet(F) /\ above \in [S -> SUBSET F] /\ S # {}
    BY <1>1
  <2> HIDE DEF F
  <2> QED
    BY ONLY <2>1, NoneWithin
<1>4. ASSUME NEW x \in S, x > m PROVE FALSE
  <2>0. ~(x > x)
    BY <1>0
  <2>1. x \in above[m] /\ x \notin above[x]
    BY <1>2, <1>4, <2>0
  <2>2. above[x] \subseteq above[m]
    <3>1. \A y \in S : y > x => y > m
      BY <1>0, <1>4
    <3> QED
      BY <1>2, <3>1
  <2> QED
    BY <1>3, <2>1, <2>2
<1>5. \E x \in S : \A y \in S : x >= y
  BY <1>0, <1>4
<1> QED
  BY <1>5 DEF Max

LEMMA LeastOf ==
  ASSUME NEW n \in Nat, NEW S, S \subseteq 0..n, S # {}
  PROVE  Min(S) \in S /\ \A x \in S : Min(S) <= x
<1> DEFINE below == [m \in S |-> {x \in S : x < m}]
<1>0. S \subseteq Nat /\ 0 \in Int /\ n \in Int
  OBVIOUS
<1>1. below \in [S -> SUBSET (0..n)] /\ IsFiniteSet(0..n)
  BY <1>0, FS_Interval
<1>2. \A m \in S : below[m] = {x \in S : x < m}
  OBVIOUS
<1> HIDE DEF below
<1>3. PICK m \in S : \A x \in S : ~(below[x] \subseteq below[m] /\ below[x] # below[m])
  <2> DEFINE F == 0..n
  <2>1. IsFiniteSet(F) /\ below \in [S -> SUBSET F] /\ S # {}
    BY <1>1
  <2> HIDE DEF F
  <2> QED
    BY ONLY <2>1, NoneWithin
<1>4. ASSUME NEW x \in S, x < m PROVE FALSE
  <2>0. ~(x < x)
    BY <1>0
  <2>1. x \in below[m] /\ x \notin below[x]
    BY <1>2, <1>4, <2>0
  <2>2. below[x] \subseteq below[m]
    <3>1. \A y \in S : y < x => y < m
      BY <1>0, <1>4
    <3> QED
      BY <1>2, <3>1
  <2> QED
    BY <1>3, <2>1, <2>2
<1>5. \E x \in S : \A y \in S : x =< y
  BY <1>0, <1>4
<1> QED
  BY <1>5 DEF Min

LEMMA MappedSeq ==
  ASSUME NEW S, NEW s \in Seq(S), NEW T, NEW t \in [DOMAIN s -> T]
  PROVE  t \in Seq(T) /\ Len(t) = Len(s) /\ DOMAIN t = 1..Len(s)
<1>1. Len(s) \in Nat /\ DOMAIN s = 1..Len(s)
  BY LenProperties
<1> QED
  BY <1>1

(* A finite set as a sequence has the elements of the set. *)
LEMMA SeqOfSet ==
  ASSUME NEW S, IsFiniteSet(S)
  PROVE  /\ SetToSeq(S) \in Seq(S)
         /\ \A x \in S : \E i \in DOMAIN SetToSeq(S) : SetToSeq(S)[i] = x
<1> DEFINE n == Cardinality(S)
           f == SetToSeq(S)
<1>1. n \in Nat /\ ExistsBijection(1..n, S)
  BY FS_CardinalityType
<1>2. PICK g : g \in Bijection(1..n, S)
  BY <1>1 DEF ExistsBijection
<1>3. g \in [1..n -> S] /\ IsInjective(g)
  BY <1>2 DEF Bijection, Injection, IsInjective
<1>4. f \in [1..n -> S] /\ IsInjective(f)
  BY <1>3 DEF SetToSeq
<1> HIDE DEF f
<1>5. f \in Injection(1..n, S)
  BY <1>4 DEF Injection, IsInjective
<1>6. Cardinality(1..n) = n
  BY <1>1, FS_Interval
<1>7. f \in Surjection(1..n, S)
  BY <1>5, <1>6, FS_Injection
<1>8. f \in Seq(S) /\ DOMAIN f = 1..n
  BY <1>1, <1>4
<1>9. \A x \in S : \E i \in 1..n : f[i] = x
  BY <1>7 DEF Surjection
<1> QED
  BY <1>8, <1>9 DEF f

-----------------------------------------------------------------------------
(* The log *)

(* The changes of a key lie in the log. *)
LEMMA ChangesInLog ==
  ASSUME HubTypeOK, NEW k \in Keys, NEW a \in Nat, NEW b \in Nat
  PROVE  ChangesOf(k, a, b) \subseteq 1..Len(log) /\ Len(log) \in Nat
BY LenProperties DEF HubTypeOK, ChangesOf

(* What a loader reads is as new as every change so far. *)
LEMMA LastChangeIsLast ==
  ASSUME HubTypeOK, NEW k \in Keys
  PROVE  /\ LastChange(k, Len(log)) \in 0..Len(log)
         /\ ChangesOf(k, LastChange(k, Len(log)), Len(log)) = {}
<1> DEFINE S == {0} \cup ChangesOf(k, 0, Len(log))
           m == LastChange(k, Len(log))
<1>1. S \subseteq 0..Len(log) /\ S # {} /\ Len(log) \in Nat /\ DOMAIN log = 1..Len(log)
  BY LenProperties DEF HubTypeOK, ChangesOf
<1>2. m \in S /\ \A x \in S : m >= x
  BY <1>1, GreatestOf DEF LastChange
<1> HIDE DEF m
<1>3. ASSUME NEW i \in ChangesOf(k, m, Len(log)) PROVE FALSE
  <2>1. i \in 1..Len(log) /\ m < i /\ i \in ChangesOf(k, 0, Len(log))
    BY <1>1 DEF ChangesOf
  <2> QED
    BY <1>1, <1>2, <2>1
<1> QED
  BY <1>1, <1>2, <1>3 DEF m

(* What the log says up to its end does not change when it grows. *)
LEMMA GrowingLog ==
  ASSUME HubTypeOK, NEW e \in Event, log' = Append(log, e)
  PROVE  /\ log' \in Seq(Event) /\ Len(log') = Len(log) + 1 /\ Len(log) \in Nat
         /\ \A k, a : \A b \in 0..Len(log) :
              /\ ChangesOf(k, a, b)' = ChangesOf(k, a, b)
              /\ RevokedWithin(k, a, b)' = RevokedWithin(k, a, b)
<1>1. /\ Len(log) \in Nat /\ DOMAIN log = 1..Len(log)
      /\ log' \in Seq(Event) /\ Len(log') = Len(log) + 1 /\ DOMAIN log' = 1..(Len(log) + 1)
      /\ \A i \in 1..Len(log) : log'[i] = log[i]
  BY AppendProperties, LenProperties DEF HubTypeOK
<1>2. ASSUME NEW k, NEW a, NEW b \in 0..Len(log)
      PROVE  /\ ChangesOf(k, a, b)' = ChangesOf(k, a, b)
             /\ RevokedWithin(k, a, b)' = RevokedWithin(k, a, b)
  <2>1. ChangesOf(k, a, b)' = ChangesOf(k, a, b)
    BY <1>1 DEF ChangesOf
  <2>2. RevokedWithin(k, a, b)' = RevokedWithin(k, a, b)
    BY <1>1 DEF RevokedWithin
  <2> QED
    BY <2>1, <2>2
<1> QED
  BY <1>1, <1>2

-----------------------------------------------------------------------------
(* Types *)

SocketTypeOK ==
  /\ socket \in Procs \cup {NoProc} /\ tags \subseteq Keys
  /\ vouched \in Grant /\ toClient \in Seq(Frame)

LEMMA NoGrantTyped == NoGrant \in Grant
BY LiveBoundsAssumption DEF NoGrant, Grant, Sid, Stamp

LEMMA CloseTyped == [t |-> "close"] \in Frame /\ \A k \in Keys : Changed(k) \in Frame
BY DEF Frame, Changed

(* What a process remembers of the changes it applied. *)
LEMMA RingInLog ==
  ASSUME HubTypeOK, NEW p \in Procs
  PROVE  /\ Ring(p) \subseteq 0..seen[p] /\ seen[p] \in Nat /\ Len(log) \in Nat
         /\ seen[p] <= Len(log) /\ Len(log) <= MaxEvents
         /\ Ring(p) # {} => Min(Ring(p)) \in 0..seen[p]
<1>1. seen[p] \in 0..Len(log) /\ Len(log) \in Nat /\ DOMAIN log = 1..Len(log)
      /\ Len(log) <= MaxEvents
  BY LenProperties DEF HubTypeOK
<1>2. Ring(p) \subseteq 0..seen[p]
  BY <1>1 DEF Ring, ChangesOf
<1> QED
  BY <1>1, <1>2, LeastOf

LEMMA RecordTypes ==
  ASSUME HubTypeOK, NEW p \in Procs, Record(p)
  PROVE  /\ floor' \in [Procs -> Stamp]
         /\ \A q \in Procs : floor'[q] <= seen[q]
         /\ \A q \in Procs \ {p} : floor'[q] = floor[q]
<1>1. /\ floor \in [Procs -> Stamp] /\ MaxEvents \in Nat /\ MaxHistory \in Nat \ {0}
      /\ \A q \in Procs : floor[q] <= seen[q]
  BY LiveBoundsAssumption DEF HubTypeOK
<1>2. CASE Cardinality(Ring(p)) < MaxHistory
  BY <1>1, <1>2 DEF Record
<1>3. CASE ~(Cardinality(Ring(p)) < MaxHistory)
  <2>1. Ring(p) # {}
    BY <1>1, <1>3, FS_EmptySet
  <2>2. Min(Ring(p)) \in 0..seen[p] /\ seen[p] \in Nat /\ seen[p] <= MaxEvents
    BY <1>1, <2>1, RingInLog
  <2> DEFINE m == Min(Ring(p))
  <2>3. floor' = [floor EXCEPT ![p] = m]
    BY <1>3 DEF Record
  <2>4. m \in Stamp /\ m <= seen[p]
    BY <1>1, <2>2 DEF Stamp
  <2> HIDE DEF m
  <2> QED
    BY <1>1, <2>3, <2>4
<1> QED
  BY <1>2, <1>3

LEMMA DropTypes == HubTypeOK /\ Drop => SocketTypeOK'
BY NoGrantTyped, CloseTyped, AppendProperties DEF Drop, SocketTypeOK, HubTypeOK

LEMMA CloseAllTypes ==
  ASSUME HubTypeOK, NEW p, CloseAll(p) PROVE SocketTypeOK'
BY DropTypes DEF CloseAll, SocketTypeOK, HubTypeOK, socketVars

(* The frames a window sends at its end. *)
LEMMA FlushedFrames ==
  ASSUME NEW S \in SUBSET Keys
  PROVE  /\ SetToSeq({Changed(k) : k \in S}) \in Seq(Frame)
         /\ SetToSeq({Changed(k) : k \in S}) \in Seq({Changed(k) : k \in S})
         /\ \A k \in S : \E i \in DOMAIN SetToSeq({Changed(x) : x \in S}) :
              SetToSeq({Changed(x) : x \in S})[i] = Changed(k)
<1> DEFINE F == {Changed(k) : k \in S}
           f == [k \in S |-> Changed(k)]
<1>1. f \in Surjection(S, F) /\ IsFiniteSet(S)
  BY KeysAssumption, FS_Subset DEF Surjection
<1>2. F \subseteq Frame /\ \A k \in S : Changed(k) \in F
  BY CloseTyped
<1> HIDE DEF F, f
<1>3. IsFiniteSet(F)
  BY <1>1, FS_Surjection
<1>4. /\ SetToSeq(F) \in Seq(F)
      /\ \A x \in F : \E i \in DOMAIN SetToSeq(F) : SetToSeq(F)[i] = x
  BY <1>3, SeqOfSet
<1>5. SetToSeq(F) \in Seq(Frame)
  BY <1>2, <1>4, SeqMonotonic
<1> QED
  BY <1>2, <1>4, <1>5 DEF F

LEMMA ServerTypes == HubTypeOK /\ Server => HubTypeOK'
<1> SUFFICES ASSUME HubTypeOK, Server PROVE HubTypeOK'
  OBVIOUS
<1> USE DEF logVars, socketVars
<1>0. /\ MaxEvents \in Nat /\ MaxFaults \in Nat /\ Len(log) \in Nat
      /\ \A p \in Procs : seen[p] \in 0..Len(log) /\ seen[p] \in Stamp
      /\ DOMAIN log = 1..Len(log) /\ \A i \in 1..Len(log) : log[i] \in Event
  BY LiveBoundsAssumption, LenProperties, ElementOfSeq DEF HubTypeOK, Stamp
<1>1. ASSUME NEW e \in Event, Appended(e) PROVE HubTypeOK'
  <2>1. /\ log' \in Seq(Event) /\ Len(log') = Len(log) + 1 /\ Len(log) < MaxEvents
        /\ UNCHANGED <<seen, floor, refuse, down, coalescing, socket, tags, vouched,
                       toClient, faults>>
    BY <1>1, GrowingLog DEF Appended
  <2> QED
    BY <1>0, <2>1 DEF HubTypeOK
<1>2. ASSUME NEW k \in Keys, Publish(k) \/ RevokeKey(k) PROVE HubTypeOK'
  BY <1>1, <1>2 DEF Publish, RevokeKey, Event
<1>2a. ASSUME RevokeAll PROVE HubTypeOK'
  BY <1>1, <1>2a DEF RevokeAll, Event
<1>3. ASSUME NEW p \in Procs, Apply(p) PROVE HubTypeOK'
  <2> DEFINE e == log[seen[p] + 1]
  <2>1. /\ seen[p] < Len(log) /\ seen' = [seen EXCEPT ![p] = @ + 1]
        /\ UNCHANGED <<log, down, faults>>
    BY <1>3 DEF Apply
  <2>2. /\ seen' \in [Procs -> 0..Len(log)] /\ seen'[p] = seen[p] + 1
        /\ \A q \in Procs : seen'[q] >= seen[q]
        /\ seen[p] + 1 \in Stamp /\ e \in Event
    BY <1>0, <2>1 DEF HubTypeOK, Stamp
  <2>3. CASE e.type = "change" /\ Change(p, e.key)
    <3>1. e.key \in Keys
      BY <2>2, <2>3 DEF Event
    <3>2. /\ floor' \in [Procs -> Stamp] /\ \A q \in Procs : floor'[q] <= seen[q]
      BY <2>3, RecordTypes DEF Change
    <3>3. \A q \in Procs : floor'[q] <= seen'[q]
      BY <1>0, <2>2, <3>2 DEF Stamp
    <3>4. coalescing' \in [Procs -> [Keys -> {"none", "open", "again"}]]
      BY <2>3, <3>1 DEF Change, HubTypeOK
    <3>5. toClient' \in Seq(Frame)
      BY <2>3, <3>1, CloseTyped, AppendProperties DEF Change, HubTypeOK
    <3>6. UNCHANGED <<refuse, socket, tags, vouched>>
      BY <2>3 DEF Change
    <3> QED
      BY <1>0, <2>1, <2>2, <3>2, <3>3, <3>4, <3>5, <3>6 DEF HubTypeOK, Stamp
  <2>4. CASE e.type = "revoke" /\ Revoke(p, e.key)
    <3>1. e.key \in Keys
      BY <2>2, <2>4 DEF Event
    <3>2. tags' \subseteq Keys /\ toClient' \in Seq(Frame)
      BY <2>4, <3>1, CloseTyped, AppendProperties DEF Revoke, HubTypeOK
    <3>3. UNCHANGED <<floor, refuse, coalescing, socket, vouched>>
      BY <2>4 DEF Revoke
    <3> QED
      BY <1>0, <2>1, <2>2, <3>2, <3>3 DEF HubTypeOK, Stamp
  <2>5. CASE /\ e.type = "revokeAll"
             /\ refuse' = [refuse EXCEPT ![p] = seen[p] + 1]
             /\ CloseAll(p)
             /\ UNCHANGED <<floor, coalescing>>
    <3>1. SocketTypeOK'
      BY <2>5, CloseAllTypes
    <3>2. refuse' \in [Procs -> Stamp] /\ \A q \in Procs : refuse'[q] <= seen'[q]
      BY <1>0, <2>2, <2>5 DEF HubTypeOK, Stamp
    <3>3. \A q \in Procs : floor[q] <= seen'[q]
      BY <1>0, <2>2 DEF HubTypeOK, Stamp
    <3> QED
      BY <1>0, <2>1, <2>2, <2>5, <3>1, <3>2, <3>3 DEF HubTypeOK, SocketTypeOK
  <2> QED
    BY <1>3, <2>3, <2>4, <2>5 DEF Apply
<1>4. ASSUME NEW p \in Procs, Flush(p) PROVE HubTypeOK'
  <2> DEFINE S == {q \in Keys : Subscribed(p, q) /\ coalescing[p][q] = "again"}
             T == SetToSeq({Changed(k) : k \in S})
  <2>1. T \in Seq(Frame)
    BY FlushedFrames
  <2>2. toClient' = toClient \o T
    BY <1>4 DEF Flush
  <2> HIDE DEF T
  <2>3. toClient' \in Seq(Frame)
    BY <2>1, <2>2, ConcatProperties DEF HubTypeOK
  <2>4. coalescing' \in [Procs -> [Keys -> {"none", "open", "again"}]]
    BY <1>4 DEF Flush, HubTypeOK
  <2> QED
    BY <1>4, <2>3, <2>4 DEF Flush, HubTypeOK
<1>5. ASSUME NEW p \in Procs, BusDown(p) PROVE HubTypeOK'
  <2>1. SocketTypeOK'
    BY <1>5, CloseAllTypes DEF BusDown
  <2> QED
    BY <1>0, <1>5, <2>1 DEF BusDown, HubTypeOK, SocketTypeOK
<1>6. ASSUME NEW p \in Procs, NEW head \in 0..Len(log), ForgetUntil(p, head)
      PROVE  HubTypeOK'
  <2> DEFINE upTo == Max({head, seen[p]})
  <2>1. upTo \in 0..Len(log) /\ upTo >= seen[p]
    BY <1>0, GreatestOf
  <2>2. /\ UNCHANGED <<log, coalescing>> /\ CloseAll(p)
        /\ seen' = [seen EXCEPT ![p] = upTo] /\ floor' = [floor EXCEPT ![p] = upTo]
        /\ refuse' = [refuse EXCEPT ![p] = upTo] /\ down' = [down EXCEPT ![p] = FALSE]
        /\ faults' \in 0..MaxFaults
    BY <1>0, <1>6 DEF ForgetUntil, HubTypeOK
  <2> HIDE DEF upTo
  <2>3. SocketTypeOK'
    BY <2>2, CloseAllTypes
  <2>4. /\ seen' \in [Procs -> 0..Len(log)]
        /\ floor' \in [Procs -> Stamp] /\ refuse' \in [Procs -> Stamp]
        /\ \A q \in Procs : floor'[q] <= seen'[q] /\ refuse'[q] <= seen'[q]
    BY <1>0, <2>1, <2>2 DEF HubTypeOK, Stamp
  <2> QED
    BY <2>2, <2>3, <2>4 DEF HubTypeOK, SocketTypeOK
<1> QED
  BY <1>2, <1>2a, <1>3, <1>4, <1>5, <1>6 DEF Server

FrameT == [grant: Grant, shown: [Keys -> Stamp], dirty: SUBSET Keys,
           whole: BOOLEAN, exchange: BOOLEAN, pending: BOOLEAN]

ClientTypeOK ==
  /\ frame \in FrameT
  /\ load \in Load \cup {NoLoad}
  /\ link \in Procs \cup {NoProc}
  /\ sent \in {"none", "empty", "grant"}
  /\ toServer \in Seq(Watch)
  /\ delayed \subseteq Keys
  /\ connects \in 0..ConnectsBeforePolling

LEMMA TypesSplit == TypeOK <=> HubTypeOK /\ ClientTypeOK
BY DEF TypeOK, ClientTypeOK, FrameT

(* The one load there is. *)
LEMMA RunningLoad ==
  ASSUME ClientTypeOK
  PROVE  /\ load # NoLoad => load \in Load
         /\ load.phase = "running" => load \in Load
         /\ load.phase = "answered" => load \in Load
BY DEF ClientTypeOK, NoLoad

LEMMA SealedTypes ==
  ASSUME TypeOK, load \in Load
  PROVE  Sealed \in Grant
<1>1. load.bound \in Sid /\ load.s \in Stamp /\ frame.grant \in Grant
  BY DEF TypeOK, Load
<1>2. \A k \in Keys : frame.grant.w[k] \in Stamp
  BY <1>1 DEF Grant
<1> DEFINE w == [k \in Keys |-> IF k \in load.kept THEN frame.grant.w[k] ELSE load.s]
<1>3. w \in [Keys -> Stamp]
  BY <1>1, <1>2
<1>4. Sealed = IF load.bare THEN NoGrant ELSE [sid |-> load.bound, s |-> load.s, w |-> w]
  BY DEF Sealed
<1> HIDE DEF w
<1> QED
  BY <1>1, <1>3, <1>4, NoGrantTyped DEF Grant

LEMMA InitTypeOK == Init => TypeOK
<1> SUFFICES ASSUME Init PROVE TypeOK
  OBVIOUS
<1>1. HubTypeOK
  BY NoGrantTyped, EmptySeq, LiveBoundsAssumption DEF Init, HubInit, HubTypeOK, Stamp
<1>2. frame \in FrameT
  <2> PICK sid \in {"none", "seed"} :
         frame = NewFrame([NoGrant EXCEPT !.sid = sid], [k \in Keys |-> 0], FALSE)
    BY DEF Init
  <2>1. [NoGrant EXCEPT !.sid = sid] \in Grant
    BY NoGrantTyped DEF Grant, Sid
  <2> HIDE DEF NoGrant
  <2> QED
    BY <2>1, LiveBoundsAssumption DEF NewFrame, FrameT, Stamp
<1>3. load = NoLoad /\ link = NoProc /\ sent = "none" /\ toServer = <<>> /\ delayed = {}
      /\ connects = 0
  BY DEF Init
<1>4. toServer \in Seq(Watch)
  BY <1>3, EmptySeq
<1>5. connects \in 0..ConnectsBeforePolling
  BY <1>3, ConnectsAssumption
<1>6. ClientTypeOK
  BY <1>2, <1>3, <1>4, <1>5 DEF ClientTypeOK
<1> QED
  BY <1>1, <1>6, TypesSplit

(* install(): the socket after a watch it was sent. *)
LEMMA InstallTypes ==
  ASSUME HubTypeOK, NEW p, NEW g \in Grant, NEW reply, Install(p, g, reply)
  PROVE  SocketTypeOK'
<1>1. CASE Drop
  BY <1>1, DropTypes
<1>2. CASE ~Drop
  <2> DEFINE f == [t |-> "ready", stale |-> {k \in Keys : ChangedSince(p, k, g.w[k])}]
  <2>1. f \in Frame
    BY DEF Frame
  <2>2. /\ toClient' = IF reply THEN Append(toClient, f) ELSE toClient
        /\ tags' = IF g = NoGrant THEN {} ELSE Keys
        /\ vouched' = g /\ UNCHANGED socket
    BY <1>2 DEF Install
  <2> HIDE DEF f
  <2>3. toClient' \in Seq(Frame)
    BY <2>1, <2>2, AppendProperties DEF HubTypeOK
  <2> QED
    BY <2>2, <2>3 DEF SocketTypeOK, HubTypeOK
<1> QED
  BY <1>1, <1>2

LEMMA TabTypes == TypeOK /\ Tab => TypeOK'
<1> SUFFICES ASSUME TypeOK, Tab PROVE HubTypeOK' /\ ClientTypeOK'
  BY TypesSplit DEF TypeOK, ClientTypeOK, FrameT
<1>0. HubTypeOK /\ ClientTypeOK
  BY TypesSplit
<1> USE DEF logVars, socketVars, hubVars
<1>a. ASSUME UNCHANGED <<logVars, coalescing, socketVars, faults>> PROVE HubTypeOK'
  BY <1>0, <1>a DEF HubTypeOK
<1>1. ASSUME NEW p \in Procs, Reload(p) PROVE HubTypeOK' /\ ClientTypeOK'
  <2>1. seen[p] \in Stamp /\ down[p] \in BOOLEAN
    BY <1>0, LenProperties, LiveBoundsAssumption DEF HubTypeOK, Stamp
  <2>2. \A kept \in {Keepable(p), {}} : kept \in SUBSET Keys
    BY DEF Keepable, Offered
  <2>3. Bound \in Sid
    BY DEF Bound, Sid
  <2>4. load' \in Load
    BY <1>0, <1>1, <2>1, <2>2, <2>3 DEF Reload, Load, ClientTypeOK, FrameT
  <2>5. frame' \in FrameT
    BY <1>0, <1>1 DEF Reload, ClientTypeOK, FrameT
  <2> QED
    BY <1>0, <1>a, <1>1, <2>4, <2>5 DEF Reload, ClientTypeOK
<1>2. ASSUME LoadAnswered PROVE HubTypeOK' /\ ClientTypeOK'
  <2>1. load \in Load
    BY <1>0, <1>2, RunningLoad DEF LoadAnswered
  <2>2. \A k \in Keys : LastChange(k, Len(log)) \in Stamp /\ load.shown[k] \in Stamp
    <3>1. Len(log) \in Nat /\ Len(log) <= MaxEvents /\ MaxEvents \in Nat
      BY <1>0, LenProperties, LiveBoundsAssumption DEF HubTypeOK
    <3>2. \A k \in Keys : LastChange(k, Len(log)) \in 0..Len(log)
      BY <1>0, LastChangeIsLast
    <3>3. \A k \in Keys : load.shown[k] \in Stamp
      BY <2>1 DEF Load
    <3> QED
      BY <3>1, <3>2, <3>3 DEF Stamp
  <2>3. load.at \in Procs /\ down[load.at] \in BOOLEAN
    BY <1>0, <2>1 DEF Load, HubTypeOK
  <2> DEFINE served == [k \in Keys |-> IF k \in load.kept THEN load.shown[k]
                                       ELSE LastChange(k, Len(log))]
  <2>4. served \in [Keys -> Stamp]
    BY <2>2
  <2>5. load' = [load EXCEPT !.phase = "answered", !.bare = @ \/ down[load.at],
                             !.shown = served]
    BY <1>2 DEF LoadAnswered
  <2> HIDE DEF served
  <2>6. load' \in Load
    BY <2>1, <2>3, <2>4, <2>5 DEF Load
  <2> QED
    BY <1>0, <1>a, <1>2, <2>6 DEF LoadAnswered, ClientTypeOK
<1>3. ASSUME LoadApplied PROVE HubTypeOK' /\ ClientTypeOK'
  <2>1. load \in Load
    BY <1>0, <1>3, RunningLoad DEF LoadApplied, SendWatch
  <2>2. Sealed \in Grant
    BY <2>1, SealedTypes
  <2> DEFINE watch == Sealed.sid = "current"
             M == [i \in DOMAIN toServer |-> [toServer[i] EXCEPT !.latest = FALSE]]
             x == [grant |-> IF watch THEN Sealed ELSE NoGrant, latest |-> TRUE]
             C == [i \in DOMAIN toClient |-> IF toClient[i].t = "ready"
                     THEN [t |-> "superseded"] ELSE toClient[i]]
  <2>3. frame' \in FrameT
    BY <1>3, <2>1, <2>2 DEF LoadApplied, SendWatch, NewFrame, FrameT, Load
  <2>4. M \in Seq(Watch)
    <3>1. toServer \in Seq(Watch) /\ \A i \in DOMAIN toServer : toServer[i] \in Watch
      BY <1>0, LenProperties, ElementOfSeq DEF ClientTypeOK
    <3>2. M \in [DOMAIN toServer -> Watch]
      BY <3>1 DEF Watch
    <3> QED
      BY <3>1, <3>2, MappedSeq
  <2>5. x \in Watch
    BY <2>2, NoGrantTyped DEF Watch
  <2>6. C \in Seq(Frame)
    <3>1. toClient \in Seq(Frame) /\ \A i \in DOMAIN toClient : toClient[i] \in Frame
      BY <1>0, LenProperties, ElementOfSeq DEF HubTypeOK
    <3>2. C \in [DOMAIN toClient -> Frame]
      BY <3>1 DEF Frame
    <3> QED
      BY <3>1, <3>2, MappedSeq
  <2>7. /\ load' = NoLoad /\ delayed' = {}
        /\ UNCHANGED <<logVars, coalescing, socket, tags, vouched, faults, link, connects>>
        /\ \/ /\ sent' \in {"grant", "empty"} /\ toServer' = Append(M, x) /\ toClient' = C
           \/ UNCHANGED <<sent, toServer, toClient>>
    BY <1>3 DEF LoadApplied, SendWatch
  <2> HIDE DEF M, x, C
  <2>8. toServer' \in Seq(Watch) /\ toClient' \in Seq(Frame)
    <3>1. Append(M, x) \in Seq(Watch)
      BY <2>4, <2>5, AppendProperties
    <3>2. toServer \in Seq(Watch) /\ toClient \in Seq(Frame)
      BY <1>0 DEF ClientTypeOK, HubTypeOK
    <3> QED
      BY <2>6, <2>7, <3>1, <3>2
  <2> QED
    BY <1>0, <2>3, <2>7, <2>8 DEF ClientTypeOK, HubTypeOK
<1>4. ASSUME LoadFails PROVE HubTypeOK' /\ ClientTypeOK'
  <2>1. load.full \in BOOLEAN
    BY <1>0, <1>4, RunningLoad DEF LoadFails, Load
  <2>2. faults' \in 0..MaxFaults
    BY <1>0, <1>4, LiveBoundsAssumption DEF LoadFails, HubTypeOK
  <2> QED
    BY <1>0, <1>4, <2>1, <2>2 DEF LoadFails, ClientTypeOK, FrameT, HubTypeOK
<1>5. ASSUME WatchServed PROVE HubTypeOK' /\ ClientTypeOK'
  <2> PICK i \in DOMAIN toServer :
        /\ toServer' = SubSeq(toServer, i + 1, Len(toServer))
        /\ IF socket # NoProc
           THEN Install(socket, toServer[i].grant,
                        toServer[i].latest /\ toServer[i].grant # NoGrant)
           ELSE UNCHANGED socketVars
        /\ UNCHANGED <<logVars, coalescing, faults, frame, load, link, sent,
                       delayed, connects>>
    BY <1>5 DEF WatchServed
  <2>1. /\ Len(toServer) \in Nat /\ DOMAIN toServer = 1..Len(toServer)
        /\ \A j \in 1..Len(toServer) : toServer[j] \in Watch
    BY <1>0, LenProperties, ElementOfSeq DEF ClientTypeOK
  <2>2. toServer' \in Seq(Watch)
    BY <2>1, SubSeqProperties
  <2>3. SocketTypeOK'
    <3>1. CASE socket # NoProc
      <4>1. toServer[i].grant \in Grant
        BY <2>1 DEF Watch
      <4> QED
        BY <1>0, <3>1, <4>1, InstallTypes
    <3>2. CASE socket = NoProc
      BY <1>0, <3>2 DEF SocketTypeOK, HubTypeOK
    <3> QED
      BY <3>1, <3>2
  <2> QED
    BY <1>0, <2>2, <2>3 DEF ClientTypeOK, HubTypeOK, SocketTypeOK
<1>6. ASSUME NEW p \in Procs, Welcome(p) PROVE HubTypeOK' /\ ClientTypeOK'
  <2>1. frame' \in FrameT
    BY <1>0, <1>6 DEF Welcome, ClientTypeOK, FrameT
  <2>2. /\ link' = p /\ socket' = p /\ connects' \in 0..ConnectsBeforePolling
        /\ UNCHANGED <<logVars, coalescing, tags, vouched, toClient, faults, load,
                       sent, toServer, delayed>>
    BY <1>6, ConnectsAssumption DEF Welcome
  <2> QED
    BY <1>0, <2>1, <2>2 DEF ClientTypeOK, HubTypeOK
<1>7. ASSUME ConnectFails PROVE HubTypeOK' /\ ClientTypeOK'
  BY <1>0, <1>7, ConnectsAssumption, LiveBoundsAssumption
  DEF ConnectFails, ClientTypeOK, HubTypeOK
<1>8. ASSUME Closed PROVE ClientTypeOK' /\ toClient' \in Seq(Frame)
  <2>1. \A s \in Sid : Lost(s) \in Sid
    BY DEF Lost, Sid
  <2>2. frame' \in FrameT
    <3>1. frame \in FrameT /\ frame.grant \in Grant /\ frame.grant.sid \in Sid
      BY <1>0 DEF ClientTypeOK, FrameT, Grant
    <3> DEFINE g == [frame.grant EXCEPT !.sid = Lost(@)]
    <3>2. g \in Grant
      BY <2>1, <3>1 DEF Grant
    <3>3. frame' = [frame EXCEPT !.pending = FALSE, !.grant = g]
      BY <1>8, <3>1 DEF Closed, FrameT
    <3> HIDE DEF g
    <3> QED
      BY <3>1, <3>2, <3>3 DEF FrameT
  <2>3. load' \in Load \cup {NoLoad}
    BY <1>0, <1>8, <2>1 DEF Closed, ClientTypeOK, Load
  <2> QED
    BY <1>0, <1>8, <2>2, <2>3, EmptySeq DEF Closed, ClientTypeOK
<1>9. ASSUME ConnectionLost PROVE HubTypeOK' /\ ClientTypeOK'
  <2>1. Closed
    BY <1>9 DEF ConnectionLost
  <2>2. /\ UNCHANGED <<logVars, coalescing>> /\ socket' = NoProc /\ tags' = {}
        /\ vouched' \in Grant /\ faults' \in 0..MaxFaults
    BY <1>0, <1>9, NoGrantTyped, LiveBoundsAssumption DEF ConnectionLost, Closed, HubTypeOK
  <2> QED
    BY <1>0, <1>8, <2>1, <2>2 DEF HubTypeOK
<1>10. ASSUME Receive PROVE HubTypeOK' /\ ClientTypeOK'
  <2> DEFINE f == Head(toClient)
  <2>1. f \in Frame /\ Tail(toClient) \in Seq(Frame)
    BY <1>0, <1>10, HeadTailProperties DEF Receive, HubTypeOK
  <2>2. CASE f.t = "close" /\ Closed /\ UNCHANGED <<socket, tags, vouched, faults>>
    BY <1>0, <1>8, <2>2 DEF Closed, HubTypeOK
  <2>3. CASE /\ OnReady(f) \/ OnChanged(f) \/ Ignores(f)
             /\ toClient' = Tail(toClient)
             /\ UNCHANGED <<logVars, coalescing, socket, tags, vouched, faults, load,
                            link, sent, toServer, connects>>
    <3>1. frame' \in FrameT /\ delayed' \subseteq Keys
      <4>1. CASE OnReady(f)
        <5>1. f.stale \subseteq Keys
          BY <2>1, <4>1 DEF OnReady, Frame
        <5> QED
          BY <1>0, <4>1, <5>1 DEF OnReady, ClientTypeOK, FrameT
      <4>2. CASE OnChanged(f)
        <5>1. f.key \in Keys
          BY <2>1, <4>2 DEF OnChanged, Frame
        <5> QED
          BY <1>0, <4>2, <5>1 DEF OnChanged, ClientTypeOK, FrameT
      <4>3. CASE Ignores(f)
        BY <1>0, <4>3 DEF Ignores, ClientTypeOK
      <4> QED
        BY <2>3, <4>1, <4>2, <4>3
    <3> QED
      BY <1>0, <2>1, <2>3, <3>1 DEF HubTypeOK, ClientTypeOK
  <2> QED
    BY <1>10, <2>2, <2>3 DEF Receive
<1>11. ASSUME NEW k \in Keys, Mark(k) PROVE HubTypeOK' /\ ClientTypeOK'
  BY <1>0, <1>a, <1>11 DEF Mark, ClientTypeOK, FrameT
<1> QED
  BY <1>1, <1>2, <1>3, <1>4, <1>5, <1>6, <1>7, <1>9, <1>10, <1>11
  DEF Tab, ReloadDue, Renew

LEMMA NextTypeOK == TypeOK /\ [Next]_vars => TypeOK'
<1> SUFFICES ASSUME TypeOK, [Next]_vars PROVE TypeOK'
  OBVIOUS
<1>0. HubTypeOK /\ ClientTypeOK
  BY TypesSplit
<1>1. CASE Tab
  BY <1>1, TabTypes
<1>2. CASE Server /\ UNCHANGED clientVars
  <2>1. HubTypeOK' /\ ClientTypeOK'
    BY <1>0, <1>2, ServerTypes DEF clientVars, ClientTypeOK
  <2> QED
    BY <2>1 DEF TypeOK, ClientTypeOK, FrameT
<1>3. CASE UNCHANGED vars
  BY <1>3 DEF vars, hubVars, logVars, socketVars, clientVars, TypeOK, HubTypeOK
<1> QED
  BY <1>1, <1>2, <1>3 DEF Next

(* Every variable of the hubs and of the tab keeps its type. *)
THEOREM LiveTypeCorrect == Spec => []TypeOK
BY InitTypeOK, NextTypeOK, PTL DEF Spec

-----------------------------------------------------------------------------
(* The socket and what it heard *)

NoneClosing == \A i \in DOMAIN toClient : toClient[i].t # "close"
NoneReady == \A i \in DOMAIN toClient : toClient[i].t # "ready"

(* A hub drops a socket once, and the tab learns of it by the frame behind
   which it was closed; nothing is bound to a socket that is gone. *)
SocketInv ==
  /\ socket = NoProc => tags = {}
  /\ link = NoProc => socket = NoProc /\ frame.grant.sid # "current"
  /\ link = NoProc /\ load # NoLoad => load.bound # "current"
  /\ socket # NoProc \/ link = NoProc => NoneClosing

(* GrantsAreTrue of a frame with any grant, and of the load in flight. *)
GrantInv ==
  /\ frame.grant.s <= Len(log)
  /\ \A k \in Keys :
       /\ frame.grant.w[k] <= Len(log)
       /\ AsNewAs(frame.shown, k, frame.grant.w[k])
       /\ ~RevokedWithin(k, frame.grant.w[k], frame.grant.s)

LoadInv ==
  load # NoLoad =>
    /\ load.s <= Len(log)
    /\ \A k \in load.kept :
         load.shown[k] = frame.shown[k] /\ ~RevokedWithin(k, frame.grant.w[k], load.s)
    /\ load.phase = "answered" =>
         \A k \in Keys \ load.kept : AsNewAs(load.shown, k, load.s)

(* A socket in topic k hears of the changes that are not on screen. *)
Listening(k) ==
  k \in tags /\ (AsNewAs(frame.shown, k, seen[socket]) \/ coalescing[socket][k] = "again")

ToldAfter(k, j) == \E i \in DOMAIN toClient : i > j /\ toClient[i] = Changed(k)

Asked ==
  /\ toServer # <<>> /\ toServer[Len(toServer)] = [grant |-> frame.grant, latest |-> TRUE]
  /\ \A i \in DOMAIN toServer : i < Len(toServer) => ~toServer[i].latest
  /\ NoneReady

AnsweredAt(j) ==
  /\ toServer = <<>>
  /\ toClient[j].t = "ready"
  /\ \A i \in DOMAIN toClient : i # j => toClient[i].t # "ready"
  /\ \A k \in Keys : k \in toClient[j].stale \/ ToldAfter(k, j) \/ Listening(k)

InForce ==
  /\ toServer = <<>> /\ NoneReady
  /\ \A k \in Keys : k \in frame.dirty \cup delayed \/ ToldAfter(k, 0) \/ Listening(k)

(* A watch is on its way, answered, or in force. *)
WatchInv ==
  (socket # NoProc /\ Watchable) =>
    IF frame.pending THEN Asked \/ \E j \in DOMAIN toClient : AnsweredAt(j)
                     ELSE InForce

Inv == TypeOK /\ SocketInv /\ GrantInv /\ LoadInv /\ WatchInv /\ RevokedHoldNothing

-----------------------------------------------------------------------------
(* What a hub sends *)

ChangedFrames == {Changed(k) : k \in Keys}

(* Frames of changes follow those on their way. *)
FannedOut(T) ==
  /\ T \in Seq(ChangedFrames) /\ toClient' = toClient \o T
  /\ UNCHANGED <<socket, vouched>> /\ tags' \subseteq tags

LEMMA FramesFollow ==
  ASSUME HubTypeOK, NEW T, FannedOut(T)
  PROVE  /\ DOMAIN toClient \subseteq DOMAIN toClient'
         /\ DOMAIN toClient \subseteq Nat /\ DOMAIN toClient' \subseteq Nat
         /\ \A i \in DOMAIN toClient : toClient'[i] = toClient[i]
         /\ \A i \in DOMAIN toClient' \ DOMAIN toClient : toClient'[i] \in ChangedFrames
         /\ \A i \in DOMAIN T : \E j \in DOMAIN toClient' :
              /\ toClient'[j] = T[i] /\ j > 0
              /\ \A n \in DOMAIN toClient : j > n
<1> DEFINE n == Len(toClient)
           m == Len(T)
<1>1. /\ n \in Nat /\ DOMAIN toClient = 1..n /\ m \in Nat /\ DOMAIN T = 1..m
      /\ \A i \in 1..m : T[i] \in ChangedFrames
  BY LenProperties, ElementOfSeq DEF FannedOut, HubTypeOK
<1>2. /\ DOMAIN toClient' = 1..(n + m)
      /\ \A i \in 1..(n + m) : toClient'[i] = IF i <= n THEN toClient[i] ELSE T[i - n]
  <2>1. toClient \in Seq(Frame \cup ChangedFrames) /\ T \in Seq(Frame \cup ChangedFrames)
    BY SeqMonotonic DEF FannedOut, HubTypeOK
  <2>2. /\ Len(toClient \o T) = n + m /\ toClient \o T \in Seq(Frame \cup ChangedFrames)
        /\ \A i \in 1..(n + m) :
             (toClient \o T)[i] = IF i <= n THEN toClient[i] ELSE T[i - n]
    BY <2>1, ConcatProperties
  <2>3. DOMAIN (toClient \o T) = 1..(n + m)
    BY <2>2, LenProperties
  <2> QED
    BY <2>2, <2>3 DEF FannedOut
<1> HIDE DEF n, m
<1>3. ASSUME NEW i \in 1..m
      PROVE  n + i \in DOMAIN toClient' /\ toClient'[n + i] = T[i] /\ n + i > n
  <2>1. /\ n + i \in 1..(n + m) /\ n + i > n
        /\ ~(n + i <= n) /\ (n + i) - n = i
    BY <1>1
  <2> QED
    BY <1>2, <2>1
<1>4. \A i \in DOMAIN toClient' \ DOMAIN toClient : toClient'[i] \in ChangedFrames
  <2> SUFFICES ASSUME NEW i \in 1..(n + m), ~(i <= n) PROVE toClient'[i] \in ChangedFrames
    BY <1>1, <1>2
  <2>1. i - n \in 1..m
    BY <1>1
  <2>2. toClient'[i] = T[i - n]
    BY <1>2
  <2> QED
    BY <1>1, <2>1, <2>2
<1>5. \A i \in DOMAIN T : \E j \in DOMAIN toClient' :
        toClient'[j] = T[i] /\ j > 0 /\ \A c \in DOMAIN toClient : j > c
  <2> SUFFICES ASSUME NEW i \in 1..m
               PROVE  \E j \in DOMAIN toClient' :
                        toClient'[j] = T[i] /\ j > 0 /\ \A c \in DOMAIN toClient : j > c
    BY <1>1
  <2>1. n + i > 0 /\ \A c \in DOMAIN toClient : n + i > c
    BY <1>1
  <2> QED
    BY <1>3, <2>1
<1>6. /\ DOMAIN toClient \subseteq DOMAIN toClient'
      /\ DOMAIN toClient \subseteq Nat /\ DOMAIN toClient' \subseteq Nat
      /\ \A i \in DOMAIN toClient : toClient'[i] = toClient[i]
  BY <1>1, <1>2
<1> QED
  BY <1>4, <1>5, <1>6

(* One more event applied. *)
LEMMA NextEvent ==
  ASSUME HubTypeOK, NEW p \in Procs, seen[p] < Len(log), NEW k, NEW a \in Nat
  PROVE  /\ \/ log[seen[p] + 1].type = "change" /\ log[seen[p] + 1].key = k
            \/ ChangesOf(k, a, seen[p] + 1) \subseteq ChangesOf(k, a, seen[p])
         /\ \/ log[seen[p] + 1].type = "revokeAll"
            \/ log[seen[p] + 1].type = "revoke" /\ log[seen[p] + 1].key = k
            \/ RevokedWithin(k, a, seen[p] + 1) => RevokedWithin(k, a, seen[p])
<1>1. seen[p] \in Nat /\ DOMAIN log \subseteq Nat
  BY LenProperties DEF HubTypeOK
<1>2. \A i \in DOMAIN log : i <= seen[p] + 1 /\ i # seen[p] + 1 => i <= seen[p]
  BY <1>1
<1>3. \/ log[seen[p] + 1].type = "change" /\ log[seen[p] + 1].key = k
      \/ ChangesOf(k, a, seen[p] + 1) \subseteq ChangesOf(k, a, seen[p])
  BY <1>2 DEF ChangesOf
<1>4. \/ log[seen[p] + 1].type = "revokeAll"
      \/ log[seen[p] + 1].type = "revoke" /\ log[seen[p] + 1].key = k
      \/ RevokedWithin(k, a, seen[p] + 1) => RevokedWithin(k, a, seen[p])
  BY <1>2 DEF RevokedWithin
<1> QED
  BY <1>3, <1>4

(* What the log says up to its end stays said. *)
LEMMA LogKept ==
  ASSUME HubTypeOK, Server \/ UNCHANGED log
  PROVE  /\ Len(log) \in Nat /\ Len(log') \in Nat /\ Len(log) <= Len(log')
         /\ \A k, a : \A b \in 0..Len(log) :
              /\ ChangesOf(k, a, b)' = ChangesOf(k, a, b)
              /\ RevokedWithin(k, a, b)' = RevokedWithin(k, a, b)
<1>1. CASE UNCHANGED log
  BY <1>1, LenProperties DEF ChangesOf, RevokedWithin, HubTypeOK
<1>2. ASSUME NEW e \in Event, Appended(e)
      PROVE  /\ Len(log) \in Nat /\ Len(log') \in Nat /\ Len(log) <= Len(log')
             /\ \A k, a : \A b \in 0..Len(log) :
                  /\ ChangesOf(k, a, b)' = ChangesOf(k, a, b)
                  /\ RevokedWithin(k, a, b)' = RevokedWithin(k, a, b)
  BY <1>2, GrowingLog DEF Appended
<1>3. UNCHANGED log \/ \E e \in Event : Appended(e)
  BY DEF Server, Publish, RevokeKey, RevokeAll, Event, Apply, Flush, BusDown, ForgetUntil,
         logVars
<1> QED
  BY <1>1, <1>2, <1>3

(* A step of the hubs drops the socket, or sends it what it listens for and
   what a revocation takes from it. *)
Heard(T) ==
  \A k \in Keys : Listening(k) => Listening(k)' \/ \E i \in DOMAIN T : T[i] = Changed(k)

Served ==
  \/ socket # NoProc /\ Drop
  \/ \E T : FannedOut(T) /\ (socket # NoProc => Heard(T) /\ RevokedHoldNothing')

LEMMA NothingSent ==
  ASSUME TypeOK, UNCHANGED <<socketVars, frame>>,
         socket # NoProc => \A k \in Keys : Listening(k) => Listening(k)',
         socket # NoProc => RevokedHoldNothing'
  PROVE  Served
<1>1. <<>> \in Seq(ChangedFrames) /\ toClient = toClient \o <<>>
  BY EmptySeq, ConcatEmptySeq DEF TypeOK, HubTypeOK
<1> QED
  BY <1>1 DEF Served, FannedOut, Heard, socketVars

LEMMA PublishServed ==
  ASSUME TypeOK, RevokedHoldNothing, UNCHANGED frame, NEW e \in Event, Appended(e)
  PROVE  Served
<1>1. HubTypeOK
  BY TypesSplit
<1>2. /\ UNCHANGED <<seen, refuse, coalescing, socket, tags, vouched, toClient>>
      /\ socket # NoProc => seen[socket] \in 0..Len(log)
  BY <1>1 DEF Appended, socketVars, HubTypeOK
<1>3. \A k, a : \A b \in 0..Len(log) :
        /\ ChangesOf(k, a, b)' = ChangesOf(k, a, b)
        /\ RevokedWithin(k, a, b)' = RevokedWithin(k, a, b)
  BY <1>1, GrowingLog DEF Appended
<1>4. socket # NoProc => \A k \in Keys : Listening(k) => Listening(k)'
  BY <1>2, <1>3 DEF Listening, AsNewAs
<1>5. socket # NoProc => RevokedHoldNothing'
  BY <1>2, <1>3 DEF RevokedHoldNothing, KeyRevoked
<1> QED
  BY <1>2, <1>4, <1>5, NothingSent DEF socketVars

(* One frame more, or none. *)
LEMMA OneSent ==
  ASSUME HubTypeOK, NEW k \in Keys, NEW yes \in BOOLEAN,
         toClient' = IF yes THEN Append(toClient, Changed(k)) ELSE toClient,
         UNCHANGED <<socket, vouched>>, tags' \subseteq tags
  PROVE  \E T : FannedOut(T) /\ (yes => \E i \in DOMAIN T : T[i] = Changed(k))
<1>1. CASE yes
  <2> DEFINE T == <<Changed(k)>>
  <2>1. T \in Seq(ChangedFrames) /\ DOMAIN T = {1} /\ T[1] = Changed(k)
    BY DEF ChangedFrames
  <2>2. toClient' = toClient \o T
    <3>1. toClient \in Seq(Frame) /\ Changed(k) \in Frame
      BY CloseTyped DEF HubTypeOK
    <3> HIDE DEF T
    <3>2. Append(toClient, Changed(k)) = toClient \o <<Changed(k)>>
      BY <3>1, AppendIsConcat
    <3> QED
      BY <1>1, <3>2 DEF T
  <2> QED
    BY <2>1, <2>2 DEF FannedOut
<1>2. CASE ~yes
  <2>1. <<>> \in Seq(ChangedFrames) /\ toClient = toClient \o <<>>
    BY EmptySeq, ConcatEmptySeq DEF HubTypeOK
  <2> QED
    BY <1>2, <2>1 DEF FannedOut
<1> QED
  BY <1>1, <1>2

LEMMA ApplyServed ==
  ASSUME TypeOK, RevokedHoldNothing, UNCHANGED frame, NEW p \in Procs, Apply(p)
  PROVE  Served
<1> DEFINE e == log[seen[p] + 1]
<1>0. HubTypeOK /\ ClientTypeOK
  BY TypesSplit
<1>1. /\ seen[p] < Len(log) /\ seen' = [seen EXCEPT ![p] = @ + 1]
      /\ UNCHANGED <<log, down, faults, frame>>
      /\ seen[p] \in Nat /\ Len(log) \in Nat
  BY <1>0, LenProperties DEF Apply, HubTypeOK
<1>2. seen'[p] = seen[p] + 1 /\ \A q \in Procs \ {p} : seen'[q] = seen[q]
  BY <1>0, <1>1 DEF HubTypeOK
<1>3. e \in Event
  <2>1. seen[p] + 1 \in 1..Len(log)
    BY <1>1
  <2> QED
    BY <1>0, <2>1, ElementOfSeq DEF HubTypeOK
<1>4. \A k \in Keys : frame.shown[k] \in Nat
  BY <1>0, LiveBoundsAssumption DEF ClientTypeOK, FrameT, Stamp
<1>5. \A k, a, b : ChangesOf(k, a, b)' = ChangesOf(k, a, b)
                   /\ RevokedWithin(k, a, b)' = RevokedWithin(k, a, b)
  BY <1>1 DEF ChangesOf, RevokedWithin
<1>6. vouched.s \in Nat /\ socket \in Procs \cup {NoProc} /\ NoProc \notin Procs
  BY <1>0, LiveBoundsAssumption, NoProcAssumption DEF HubTypeOK, Grant, Stamp
(* A socket of another process hears nothing. *)
<1>7. ASSUME socket # p, UNCHANGED socketVars, socket # NoProc => refuse'[socket] = refuse[socket],
             socket # NoProc => coalescing'[socket] = coalescing[socket]
      PROVE  Served
  <2>1. socket # NoProc => seen'[socket] = seen[socket]
    BY <1>2, <1>6, <1>7
  <2>2. socket # NoProc => \A k \in Keys : Listening(k) => Listening(k)'
    BY <1>1, <1>5, <1>7, <2>1 DEF Listening, AsNewAs, socketVars
  <2>3. socket # NoProc => RevokedHoldNothing'
    BY <1>5, <1>7, <2>1 DEF RevokedHoldNothing, KeyRevoked, socketVars
  <2> QED
    BY <1>1, <1>7, <2>2, <2>3, NothingSent
<1>8. CASE e.type = "change" /\ Change(p, e.key)
  <2>1. e.key \in Keys
    BY <1>3, <1>8 DEF Event
  <2> DEFINE k == e.key
             yes == Subscribed(p, k) /\ coalescing[p][k] = "none"
  <2>2. /\ toClient' = IF yes THEN Append(toClient, Changed(k)) ELSE toClient
        /\ coalescing' = IF ~Subscribed(p, k) THEN coalescing
                         ELSE [coalescing EXCEPT ![p][k] =
                                 IF @ = "none" THEN "open" ELSE "again"]
        /\ UNCHANGED <<refuse, socket, tags, vouched>>
    BY <1>8 DEF Change
  <2>3. yes \in BOOLEAN
    BY DEF Subscribed
  <2>4. CASE socket # p
    <3>1. ~Subscribed(p, k)
      BY <2>4 DEF Subscribed
    <3> QED
      BY <1>7, <2>2, <2>4, <3>1 DEF socketVars
  <2>5. CASE socket = p
    <3>1. PICK T : FannedOut(T) /\ (yes => \E i \in DOMAIN T : T[i] = Changed(k))
      BY <1>0, <2>1, <2>2, <2>3, OneSent
    <3>2. /\ \A q \in Keys : q # k => coalescing'[p][q] = coalescing[p][q]
          /\ k \in tags /\ ~yes => coalescing'[p][k] = "again"
      BY <1>0, <2>1, <2>2, <2>5 DEF HubTypeOK, Subscribed
    <3>3. ASSUME NEW q \in Keys, Listening(q)
          PROVE  Listening(q)' \/ \E i \in DOMAIN T : T[i] = Changed(q)
      <4>1. q \in tags /\ q \in tags'
        BY <2>2, <3>3 DEF Listening
      <4>2. CASE q = k
        BY <2>2, <2>5, <3>1, <3>2, <4>1, <4>2 DEF Listening
      <4>3. CASE q # k
        <5>1. ChangesOf(q, frame.shown[q], seen[p] + 1) \subseteq ChangesOf(q, frame.shown[q], seen[p])
          BY <1>0, <1>1, <1>4, <4>3, NextEvent
        <5>2. AsNewAs(frame.shown, q, seen[p]) => AsNewAs(frame.shown, q, seen[p])'
          BY <1>1, <1>2, <1>5, <5>1 DEF AsNewAs
        <5> QED
          BY <2>2, <2>5, <3>2, <3>3, <4>1, <4>3, <5>2 DEF Listening
      <4> QED
        BY <4>2, <4>3
    <3>4. RevokedHoldNothing'
      <4>1. \A q \in Keys : RevokedWithin(q, vouched.s, seen[p] + 1)
                            => RevokedWithin(q, vouched.s, seen[p])
        BY <1>0, <1>1, <1>6, <1>8, NextEvent
      <4>2. tags \subseteq Keys
        BY <1>0 DEF HubTypeOK
      <4> QED
        BY <1>2, <1>5, <2>2, <2>5, <4>1, <4>2 DEF RevokedHoldNothing, KeyRevoked
    <3> QED
      BY <3>1, <3>3, <3>4 DEF Served, Heard
  <2> QED
    BY <2>4, <2>5
<1>9. CASE e.type = "revoke" /\ Revoke(p, e.key)
  <2>1. e.key \in Keys
    BY <1>3, <1>9 DEF Event
  <2> DEFINE k == e.key
             yes == Subscribed(p, k)
  <2>2. /\ toClient' = IF yes THEN Append(toClient, Changed(k)) ELSE toClient
        /\ tags' = IF socket = p THEN tags \ {k} ELSE tags
        /\ UNCHANGED <<floor, refuse, coalescing, socket, vouched>>
    BY <1>9 DEF Revoke
  <2>3. yes \in BOOLEAN
    BY DEF Subscribed
  <2>4. CASE socket # p
    <3>1. ~Subscribed(p, k)
      BY <2>4 DEF Subscribed
    <3> QED
      BY <1>7, <2>2, <2>4, <3>1 DEF socketVars
  <2>5. CASE socket = p
    <3>1. PICK T : FannedOut(T) /\ (yes => \E i \in DOMAIN T : T[i] = Changed(k))
      BY <1>0, <2>1, <2>2, <2>3, OneSent
    <3>2. ASSUME NEW q \in Keys, Listening(q)
          PROVE  Listening(q)' \/ \E i \in DOMAIN T : T[i] = Changed(q)
      <4>1. CASE q = k
        BY <2>5, <3>1, <3>2, <4>1 DEF Listening, Subscribed
      <4>2. CASE q # k
        <5>1. ChangesOf(q, frame.shown[q], seen[p] + 1) \subseteq ChangesOf(q, frame.shown[q], seen[p])
          BY <1>0, <1>1, <1>4, <1>9, NextEvent
        <5>2. AsNewAs(frame.shown, q, seen[p]) => AsNewAs(frame.shown, q, seen[p])'
          BY <1>1, <1>2, <1>5, <5>1 DEF AsNewAs
        <5> QED
          BY <2>2, <2>5, <3>2, <4>2, <5>2 DEF Listening
      <4> QED
        BY <4>1, <4>2
    <3>3. RevokedHoldNothing'
      <4>1. \A q \in tags' : RevokedWithin(q, vouched.s, seen[p] + 1)
                            => RevokedWithin(q, vouched.s, seen[p])
        BY <1>0, <1>1, <1>6, <1>9, <2>2, <2>5, NextEvent
      <4> QED
        BY <1>2, <1>5, <2>2, <2>5, <4>1 DEF RevokedHoldNothing, KeyRevoked
    <3> QED
      BY <3>1, <3>2, <3>3 DEF Served, Heard
  <2> QED
    BY <2>4, <2>5
<1>10. CASE /\ e.type = "revokeAll"
            /\ refuse' = [refuse EXCEPT ![p] = seen[p] + 1]
            /\ CloseAll(p)
            /\ UNCHANGED <<floor, coalescing>>
  <2>1. CASE socket = p
    BY <1>6, <1>10, <2>1 DEF CloseAll, Served
  <2>2. CASE socket # p
    <3>1. socket # NoProc => refuse'[socket] = refuse[socket]
      BY <1>0, <1>6, <1>10, <2>2 DEF HubTypeOK
    <3> QED
      BY <1>7, <1>10, <2>2, <3>1 DEF CloseAll
  <2> QED
    BY <2>1, <2>2
<1> QED
  BY <1>8, <1>9, <1>10 DEF Apply

LEMMA FlushServed ==
  ASSUME TypeOK, RevokedHoldNothing, UNCHANGED frame, NEW p \in Procs, Flush(p)
  PROVE  Served
<1> DEFINE S == {q \in Keys : Subscribed(p, q) /\ coalescing[p][q] = "again"}
           T == SetToSeq({Changed(k) : k \in S})
<1>0. HubTypeOK
  BY TypesSplit
<1>1. /\ toClient' = toClient \o T
      /\ coalescing' = [coalescing EXCEPT ![p] = [k \in Keys |->
                          IF @[k] = "again" THEN "open" ELSE "none"]]
      /\ UNCHANGED <<log, seen, refuse, socket, tags, vouched>>
  BY DEF Flush, logVars
<1>2. /\ T \in Seq({Changed(k) : k \in S})
      /\ \A k \in S : \E i \in DOMAIN T : T[i] = Changed(k)
  BY FlushedFrames
<1>3. {Changed(k) : k \in S} \subseteq ChangedFrames
  BY DEF ChangedFrames
<1> HIDE DEF T
<1>4. FannedOut(T)
  BY <1>1, <1>2, <1>3, SeqMonotonic DEF FannedOut
<1>5. ASSUME NEW k \in Keys, Listening(k), socket # NoProc
      PROVE  Listening(k)' \/ \E i \in DOMAIN T : T[i] = Changed(k)
  <2>1. CASE k \in S
    BY <1>2, <2>1
  <2>2. CASE k \notin S
    <3>1. coalescing[socket][k] = "again" => socket # p
      BY <1>5, <2>2 DEF Listening, Subscribed
    <3>2. coalescing[socket][k] = "again" => coalescing'[socket][k] = "again"
      BY <1>0, <1>1, <1>5, <3>1 DEF HubTypeOK
    <3> QED
      BY <1>1, <1>5, <3>2 DEF Listening, AsNewAs, ChangesOf
  <2> QED
    BY <2>1, <2>2
<1>6. RevokedHoldNothing'
  BY <1>1 DEF RevokedHoldNothing, KeyRevoked, RevokedWithin
<1> QED
  BY <1>4, <1>5, <1>6 DEF Served, Heard

LEMMA ClosingServed ==
  ASSUME TypeOK, RevokedHoldNothing, UNCHANGED <<log, coalescing, frame>>, NEW p \in Procs,
         CloseAll(p), \A q \in Procs \ {p} : seen'[q] = seen[q] /\ refuse'[q] = refuse[q]
  PROVE  Served
<1>0. socket \in Procs \cup {NoProc} /\ NoProc \notin Procs
  BY NoProcAssumption DEF TypeOK, HubTypeOK
<1>1. CASE socket = p
  BY <1>0, <1>1 DEF CloseAll, Served
<1>2. CASE socket # p
  <2>1. UNCHANGED socketVars
    BY <1>2 DEF CloseAll
  <2>2. socket # NoProc => seen'[socket] = seen[socket] /\ refuse'[socket] = refuse[socket]
    BY <1>0, <1>2
  <2>3. socket # NoProc => \A k \in Keys : Listening(k) => Listening(k)'
    BY <2>1, <2>2 DEF Listening, AsNewAs, ChangesOf, socketVars
  <2>4. socket # NoProc => RevokedHoldNothing'
    BY <2>1, <2>2 DEF RevokedHoldNothing, KeyRevoked, RevokedWithin, socketVars
  <2> QED
    BY <2>1, <2>3, <2>4, NothingSent
<1> QED
  BY <1>1, <1>2

LEMMA ServerServed ==
  ASSUME TypeOK, RevokedHoldNothing, UNCHANGED frame, Server
  PROVE  Served
<1>1. ASSUME NEW e \in Event, Appended(e) PROVE Served
  BY <1>1, PublishServed
<1>2. ASSUME NEW p \in Procs, BusDown(p) PROVE Served
  BY <1>2, ClosingServed DEF BusDown
<1>3. ASSUME NEW p \in Procs, NEW head \in 0..Len(log), ForgetUntil(p, head) PROVE Served
  BY <1>3, ClosingServed DEF ForgetUntil, TypeOK, HubTypeOK
<1> QED
  BY <1>1, <1>2, <1>3, ApplyServed, FlushServed
  DEF Server, Publish, RevokeKey, RevokeAll, Event

-----------------------------------------------------------------------------
(* What a grant says *)

(* Every step but that of a load leaves what a frame shows and what its
   grant vouches for. *)
SameCopies ==
  /\ frame'.shown = frame.shown
  /\ frame'.grant.s = frame.grant.s /\ frame'.grant.w = frame.grant.w

LEMMA CopiesKept ==
  ASSUME TypeOK, (Server /\ UNCHANGED clientVars) \/ Tab
  PROVE  /\ LoadApplied \/ SameCopies
         /\ Server \/ UNCHANGED log
<1>0. frame \in FrameT /\ frame.grant \in Grant
  BY TypesSplit DEF ClientTypeOK, FrameT
<1> USE DEF SameCopies, FrameT
<1>1. ASSUME NEW p \in Procs, Reload(p) PROVE SameCopies /\ UNCHANGED log
  BY <1>0, <1>1 DEF Reload, hubVars, logVars
<1>2. ASSUME LoadAnswered PROVE SameCopies /\ UNCHANGED log
  BY <1>2 DEF LoadAnswered, hubVars, logVars
<1>3. ASSUME LoadApplied PROVE UNCHANGED log
  BY <1>3 DEF LoadApplied, SendWatch, logVars
<1>4. ASSUME LoadFails PROVE SameCopies /\ UNCHANGED log
  BY <1>0, <1>4 DEF LoadFails, hubVars, logVars
<1>5. ASSUME WatchServed PROVE SameCopies /\ UNCHANGED log
  BY <1>5 DEF WatchServed, logVars
<1>6. ASSUME NEW p \in Procs, Welcome(p) PROVE SameCopies /\ UNCHANGED log
  BY <1>0, <1>6 DEF Welcome, logVars
<1>7. ASSUME ConnectFails PROVE SameCopies /\ UNCHANGED log
  BY <1>7 DEF ConnectFails, hubVars, logVars
<1>8. ASSUME Closed PROVE SameCopies /\ UNCHANGED log
  <2>1. frame' = [frame EXCEPT !.pending = FALSE, !.grant.sid = Lost(@)]
    BY <1>8 DEF Closed
  <2>2. frame'.grant = [frame.grant EXCEPT !.sid = Lost(@)] /\ frame'.shown = frame.shown
    BY <1>0, <2>1
  <2>3. frame'.grant.s = frame.grant.s /\ frame'.grant.w = frame.grant.w
    BY <1>0, <2>2 DEF Grant
  <2> QED
    BY <1>8, <2>2, <2>3 DEF Closed, logVars
<1>9. ASSUME Receive PROVE SameCopies /\ UNCHANGED log
  BY <1>0, <1>8, <1>9 DEF Receive, OnReady, OnChanged, Ignores, logVars
<1>10. ASSUME NEW k \in Keys, Mark(k) PROVE SameCopies /\ UNCHANGED log
  BY <1>0, <1>10 DEF Mark, hubVars, logVars
<1> QED
  BY <1>1, <1>2, <1>3, <1>4, <1>5, <1>6, <1>7, <1>8, <1>9, <1>10
  DEF Tab, ReloadDue, Renew, ConnectionLost, clientVars

LEMMA GrantNumbers ==
  ASSUME TypeOK
  PROVE  /\ frame.grant.s \in Nat /\ \A k \in Keys : frame.grant.w[k] \in Nat
         /\ load # NoLoad => load.s \in Nat /\ load \in Load
         /\ Len(log) \in Nat
<1>1. frame.grant \in Grant /\ load \in Load \cup {NoLoad} /\ MaxEvents \in Nat
  BY LiveBoundsAssumption DEF TypeOK
<1>2. frame.grant.s \in Nat /\ \A k \in Keys : frame.grant.w[k] \in Nat
  BY <1>1 DEF Grant, Stamp
<1>3. load # NoLoad => load.s \in Nat /\ load \in Load
  BY <1>1 DEF Load, Stamp
<1> QED
  BY <1>2, <1>3, LenProperties DEF TypeOK, HubTypeOK

LEMMA GrantInvKept ==
  ASSUME TypeOK, GrantInv, SameCopies, Server \/ UNCHANGED log
  PROVE  GrantInv'
<1>1. HubTypeOK
  BY TypesSplit
<1>2. /\ Len(log) \in Nat /\ Len(log') \in Nat /\ Len(log) <= Len(log')
      /\ \A k, a : \A b \in 0..Len(log) :
           /\ ChangesOf(k, a, b)' = ChangesOf(k, a, b)
           /\ RevokedWithin(k, a, b)' = RevokedWithin(k, a, b)
  BY <1>1, LogKept
<1>3. frame.grant.s \in 0..Len(log) /\ \A k \in Keys : frame.grant.w[k] \in 0..Len(log)
  BY <1>2, GrantNumbers DEF GrantInv
<1>4. frame'.grant.s <= Len(log')
  BY <1>2, <1>3 DEF SameCopies
<1>5. ASSUME NEW k \in Keys
      PROVE  /\ frame'.grant.w[k] <= Len(log')
             /\ AsNewAs(frame.shown, k, frame.grant.w[k])'
             /\ ~RevokedWithin(k, frame.grant.w[k], frame.grant.s)'
  <2> PICK a, w, s : a = frame.shown[k] /\ w = frame.grant.w[k] /\ s = frame.grant.s
    OBVIOUS
  <2>1. frame'.shown[k] = a /\ frame'.grant.w[k] = w /\ frame'.grant.s = s
    BY DEF SameCopies
  <2>2. w <= Len(log) /\ ChangesOf(k, a, w) = {} /\ ~RevokedWithin(k, w, s)
    BY DEF GrantInv, AsNewAs
  <2>3. w \in 0..Len(log) /\ s \in 0..Len(log)
    BY <1>3
  <2>4. ChangesOf(k, a, w)' = {} /\ ~RevokedWithin(k, w, s)'
    BY <1>2, <2>2, <2>3
  <2>5. w <= Len(log')
    BY <1>2, <2>3
  <2> QED
    BY <2>1, <2>4, <2>5 DEF AsNewAs
<1> QED
  BY <1>4, <1>5 DEF GrantInv

LEMMA GrantInvApplied ==
  ASSUME TypeOK, GrantInv, LoadInv, LoadApplied
  PROVE  GrantInv'
<1>1. /\ load \in Load /\ load # NoLoad /\ load.phase = "answered" /\ UNCHANGED log
      /\ frame' = NewFrame(Sealed, load.shown, Sealed.sid = "current")
      /\ load.s \in Nat /\ load.s <= Len(log)
  BY RunningLoad, TypesSplit, GrantNumbers DEF LoadApplied, SendWatch, logVars, NoLoad, LoadInv
<1>2. frame'.grant = Sealed /\ frame'.shown = load.shown
  BY <1>1 DEF NewFrame
<1>3. \A k, a, b : ChangesOf(k, a, b)' = ChangesOf(k, a, b)
                   /\ RevokedWithin(k, a, b)' = RevokedWithin(k, a, b)
  BY <1>1 DEF ChangesOf, RevokedWithin
<1>4. CASE load.bare
  <2>1. Sealed.s = 0 /\ \A k \in Keys : Sealed.w[k] = 0
    BY <1>4 DEF Sealed, NoGrant
  <2>2. \A k, a : ~RevokedWithin(k, 0, 0) /\ (a \in Nat => ChangesOf(k, a, 0) = {})
    <3>1. \A i \in DOMAIN log : i \in Nat
      BY LenProperties DEF TypeOK, HubTypeOK
    <3> QED
      BY <3>1 DEF RevokedWithin, ChangesOf
  <2>3. \A k \in Keys : load.shown[k] \in Nat
    BY <1>1, LiveBoundsAssumption DEF Load, Stamp
  <2> QED
    BY <1>1, <1>2, <1>3, <2>1, <2>2, <2>3, GrantNumbers DEF GrantInv, AsNewAs
<1>5. CASE ~load.bare
  <2>1. /\ Sealed.s = load.s
        /\ \A k \in Keys : Sealed.w[k] = IF k \in load.kept THEN frame.grant.w[k] ELSE load.s
    BY <1>5 DEF Sealed
  <2>2. ASSUME NEW k \in Keys
        PROVE  /\ Sealed.w[k] <= Len(log)
               /\ AsNewAs(load.shown, k, Sealed.w[k])
               /\ ~RevokedWithin(k, Sealed.w[k], load.s)
    <3>1. CASE k \in load.kept
      BY <1>1, <2>1, <3>1 DEF LoadInv, GrantInv, AsNewAs
    <3>2. CASE k \notin load.kept
      <4>1. ~RevokedWithin(k, load.s, load.s)
        <5>1. \A i \in DOMAIN log : i \in Nat
          BY LenProperties DEF TypeOK, HubTypeOK
        <5> QED
          BY <1>1, <5>1 DEF RevokedWithin
      <4> QED
        BY <1>1, <2>1, <3>2, <4>1 DEF LoadInv
    <3> QED
      BY <3>1, <3>2
  <2> QED
    BY <1>1, <1>2, <1>3, <2>1, <2>2 DEF GrantInv, AsNewAs
<1> QED
  BY <1>4, <1>5

(* A load keeps what its grant may keep, at the seq the process has. *)
LEMMA ReloadKeeps ==
  ASSUME TypeOK, GrantInv, NEW p \in Procs, Reload(p)
  PROVE  LoadInv'
<1>1. /\ UNCHANGED <<log, seen>> /\ SameCopies
      /\ seen[p] <= Len(log) /\ seen[p] \in Nat /\ Len(log) \in Nat
  <2>1. frame \in FrameT
    BY TypesSplit DEF ClientTypeOK
  <2> QED
    BY <2>1, LenProperties DEF Reload, hubVars, logVars, SameCopies, FrameT, TypeOK, HubTypeOK
<1>2. PICK kept \in {Keepable(p), {}} :
        load' = [phase |-> "running", at |-> p, bound |-> Bound,
                 full |-> frame.whole \/ frame.exchange, s |-> seen[p],
                 kept |-> kept, bare |-> down[p], shown |-> frame.shown]
  BY DEF Reload
<1>3. ASSUME NEW k \in kept PROVE ~RevokedWithin(k, frame.grant.w[k], seen[p])
  <2>1. k \in Keepable(p) /\ Presented = frame.grant /\ ~KeyRevoked(p, k, Presented) /\ k \in Keys
    BY <1>2, <1>3 DEF Keepable, Honoured, Presented, Offered
  <2>2. ~RevokedWithin(k, frame.grant.s, seen[p])
    BY <2>1 DEF KeyRevoked
  <2>3. ~RevokedWithin(k, frame.grant.w[k], frame.grant.s)
    BY <2>1 DEF GrantInv
  <2>4. \A i \in DOMAIN log : i \in Nat
    BY LenProperties DEF TypeOK, HubTypeOK
  <2>5. frame.grant.s \in Nat /\ frame.grant.w[k] \in Nat
    BY <2>1, GrantNumbers
  <2>6. \A i \in DOMAIN log : frame.grant.w[k] < i => i <= frame.grant.s \/ frame.grant.s < i
    BY <2>4, <2>5
  <2> QED
    BY <2>2, <2>3, <2>6 DEF RevokedWithin
<1>4. \A k, a, b : RevokedWithin(k, a, b)' = RevokedWithin(k, a, b)
  BY <1>1 DEF RevokedWithin
<1>5. load'.s <= Len(log') /\ load'.phase # "answered"
  BY <1>1, <1>2
<1>6. \A k \in load'.kept : /\ load'.shown[k] = frame'.shown[k]
                            /\ ~RevokedWithin(k, frame.grant.w[k], load.s)'
  BY <1>1, <1>2, <1>3, <1>4 DEF SameCopies
<1> QED
  BY <1>5, <1>6 DEF LoadInv

LEMMA AnsweredFresh ==
  ASSUME TypeOK, LoadInv, LoadAnswered
  PROVE  LoadInv'
<1>1. load \in Load /\ load # NoLoad /\ UNCHANGED <<log, frame>> /\ HubTypeOK
  BY RunningLoad, TypesSplit DEF LoadAnswered, NoLoad, hubVars, logVars
<1>2. /\ load'.s = load.s /\ load'.kept = load.kept
      /\ \A k \in Keys : load'.shown[k] = IF k \in load.kept THEN load.shown[k]
                                          ELSE LastChange(k, Len(log))
  BY <1>1 DEF LoadAnswered, Load
<1>3. load.s \in Nat /\ load.s <= Len(log) /\ Len(log) \in Nat
  BY <1>1, GrantNumbers DEF LoadInv
<1>4. ASSUME NEW k \in Keys \ load.kept PROVE AsNewAs(load.shown, k, load.s)'
  <2>1. ChangesOf(k, LastChange(k, Len(log)), Len(log)) = {}
    BY <1>1, LastChangeIsLast
  <2>2. \A i \in DOMAIN log : i \in Nat
    BY <1>1, LenProperties DEF HubTypeOK
  <2>3. ChangesOf(k, LastChange(k, Len(log)), load.s) = {}
    BY <1>3, <2>1, <2>2 DEF ChangesOf
  <2> QED
    BY <1>1, <1>2, <2>3 DEF AsNewAs, ChangesOf
<1>5. \A k \in load.kept : k \in Keys
  BY <1>1 DEF Load
<1>6. \A k \in load'.kept : /\ load'.shown[k] = frame'.shown[k]
                            /\ ~RevokedWithin(k, frame.grant.w[k], load.s)'
  BY <1>1, <1>2, <1>5 DEF LoadInv, RevokedWithin
<1> QED
  BY <1>1, <1>2, <1>3, <1>4, <1>6 DEF LoadInv

LEMMA LoadInvKept ==
  ASSUME TypeOK, GrantInv, LoadInv, SameCopies, Server \/ UNCHANGED log,
         \/ load' = NoLoad
         \/ /\ load # NoLoad /\ load' # NoLoad
            /\ load'.s = load.s /\ load'.kept = load.kept /\ load'.shown = load.shown
            /\ load'.phase = load.phase
  PROVE  LoadInv'
<1>1. /\ Len(log) \in Nat /\ Len(log') \in Nat /\ Len(log) <= Len(log')
      /\ \A k, a : \A b \in 0..Len(log) :
           /\ ChangesOf(k, a, b)' = ChangesOf(k, a, b)
           /\ RevokedWithin(k, a, b)' = RevokedWithin(k, a, b)
  BY TypesSplit, LogKept
<1>2. CASE load' = NoLoad
  BY <1>2 DEF LoadInv
<1>3. CASE load # NoLoad /\ load' # NoLoad
  <2>1. load \in Load /\ load.s \in 0..Len(log)
    BY <1>1, <1>3, GrantNumbers DEF LoadInv
  <2>2. /\ load'.s = load.s /\ load'.kept = load.kept /\ load'.shown = load.shown
        /\ load'.phase = load.phase
    BY <1>3
  <2>3. load'.s <= Len(log')
    BY <1>1, <2>1, <2>2
  <2>4. \A k \in load'.kept : /\ load'.shown[k] = frame'.shown[k]
                              /\ ~RevokedWithin(k, frame.grant.w[k], load.s)'
    BY <1>1, <1>3, <2>1, <2>2 DEF LoadInv, SameCopies
  <2>5. load'.phase = "answered" => \A k \in Keys \ load'.kept : AsNewAs(load.shown, k, load.s)'
    <3> SUFFICES ASSUME load'.phase = "answered", NEW k \in Keys \ load'.kept
                 PROVE  AsNewAs(load.shown, k, load.s)'
      OBVIOUS
    <3> PICK a, b : a = load.shown[k] /\ b = load.s
      OBVIOUS
    <3>1. b \in 0..Len(log) /\ ChangesOf(k, a, b) = {}
      BY <1>3, <2>1, <2>2 DEF LoadInv, AsNewAs
    <3>2. ChangesOf(k, a, b)' = {}
      BY <1>1, <3>1
    <3> QED
      BY <2>2, <3>2 DEF AsNewAs
  <2> QED
    BY <2>3, <2>4, <2>5 DEF LoadInv
<1> QED
  BY <1>2, <1>3

LEMMA GrantsStep ==
  ASSUME TypeOK, GrantInv, LoadInv, (Server /\ UNCHANGED clientVars) \/ Tab
  PROVE  GrantInv' /\ LoadInv'
<1>0. (LoadApplied \/ SameCopies) /\ (Server \/ UNCHANGED log)
  BY CopiesKept
<1>1. GrantInv'
  BY <1>0, GrantInvKept, GrantInvApplied
<1>2. CASE LoadApplied
  BY <1>1, <1>2 DEF LoadApplied, SendWatch, LoadInv
<1>3. CASE LoadAnswered
  BY <1>1, <1>3, AnsweredFresh
<1>4. CASE \E p \in Procs : Reload(p)
  BY <1>1, <1>4, ReloadKeeps
<1>5. CASE ~LoadApplied /\ ~LoadAnswered /\ ~(\E p \in Procs : Reload(p))
  <2>1. load \in Load \cup {NoLoad}
    BY DEF TypeOK
  <2>2. ASSUME Closed, load # NoLoad
        PROVE  /\ load' # NoLoad /\ load'.s = load.s /\ load'.kept = load.kept
               /\ load'.shown = load.shown /\ load'.phase = load.phase
    <3>1. load \in Load /\ load' = [load EXCEPT !.bound = Lost(@)]
      BY <2>1, <2>2 DEF Closed
    <3> QED
      BY <3>1 DEF Load, NoLoad
  <2>3. \/ load' = NoLoad \/ UNCHANGED load
        \/ /\ load # NoLoad /\ load' # NoLoad
           /\ load'.s = load.s /\ load'.kept = load.kept /\ load'.shown = load.shown
           /\ load'.phase = load.phase
    BY <1>5, <2>2 DEF Tab, ReloadDue, Renew, LoadFails, WatchServed, Welcome, ConnectFails,
       ConnectionLost, Receive, Mark, Closed, clientVars
  <2> QED
    <3>2. CASE load = NoLoad /\ load' = load
      BY <1>0, <1>1, <1>5, <3>2, LoadInvKept
    <3>3. CASE load # NoLoad /\ load' = load
      BY <1>0, <1>1, <1>5, <3>3, LoadInvKept
    <3>4. CASE load' # load
      BY <1>0, <1>1, <1>5, <2>3, <3>4, LoadInvKept
    <3> QED
      BY <3>2, <3>3, <3>4
<1> QED
  BY <1>1, <1>2, <1>3, <1>4, <1>5

-----------------------------------------------------------------------------
(* The socket *)

LEMMA TailFrames ==
  ASSUME HubTypeOK, toClient # <<>>, toClient' = Tail(toClient)
  PROVE  /\ DOMAIN toClient \subseteq Nat \ {0} /\ 1 \in DOMAIN toClient
         /\ Head(toClient) = toClient[1]
         /\ \A i \in DOMAIN toClient' :
              i \in Nat \ {0} /\ i + 1 \in DOMAIN toClient /\ toClient'[i] = toClient[i + 1]
         /\ \A i \in DOMAIN toClient :
              i > 1 => i - 1 \in DOMAIN toClient' /\ toClient'[i - 1] = toClient[i]
<1>1. /\ Len(toClient) \in Nat /\ DOMAIN toClient = 1..Len(toClient) /\ Len(toClient) > 0
      /\ Head(toClient) = toClient[1]
  BY LenProperties, EmptySeq, HeadTailProperties DEF HubTypeOK
<1>2. /\ DOMAIN toClient' = 1..(Len(toClient) - 1)
      /\ \A i \in 1..(Len(toClient) - 1) : toClient'[i] = toClient[i + 1]
  BY <1>1, LenProperties, HeadTailProperties DEF HubTypeOK
<1> QED
  BY <1>1, <1>2

LEMMA DropMeansGone ==
  ASSUME Drop PROVE socket' = NoProc /\ tags' = {}
BY DEF Drop

(* What install() leaves in force. *)
LEMMA InstalledHoldNothing ==
  ASSUME TypeOK, NEW g \in Grant, NEW reply, Install(socket, g, reply), UNCHANGED logVars
  PROVE  RevokedHoldNothing'
<1>1. CASE Refused(socket, g) /\ Drop
  BY <1>1, DropMeansGone DEF RevokedHoldNothing
<1>2. CASE ~(Refused(socket, g) /\ Drop)
  <2>1. /\ ~Refused(socket, g) /\ tags' = (IF g = NoGrant THEN {} ELSE Keys)
        /\ vouched' = g /\ UNCHANGED socket
    BY <1>2 DEF Install
  <2>2. CASE g = NoGrant
    BY <2>1, <2>2 DEF RevokedHoldNothing
  <2>3. ASSUME g # NoGrant, socket # NoProc PROVE RevokedHoldNothing'
    <3>1. ~(g.s < refuse[socket]) /\ \A k \in Keys : ~RevokedWithin(k, g.s, seen[socket])
      BY <2>1, <2>3 DEF Refused, GrantRevoked, KeyRevoked
    <3>2. UNCHANGED <<log, seen, refuse>>
      BY DEF logVars
    <3>3. \A k \in Keys : ~RevokedWithin(k, vouched.s, seen[socket])'
      BY <2>1, <3>1, <3>2 DEF RevokedWithin
    <3>4. g.s >= refuse[socket]
      BY <2>3, <3>1, LiveBoundsAssumption DEF TypeOK, HubTypeOK, Grant, Stamp
    <3> QED
      BY <2>1, <3>2, <3>3, <3>4 DEF RevokedHoldNothing, KeyRevoked
  <2> QED
    BY <2>1, <2>2, <2>3 DEF RevokedHoldNothing
<1> QED
  BY <1>1, <1>2

(* A hub and its tab agree on which sockets there are. *)
LEMMA SocketServed ==
  ASSUME TypeOK, SocketInv, Served, UNCHANGED clientVars
  PROVE  SocketInv'
<1>1. CASE socket # NoProc /\ Drop
  BY <1>1, DropMeansGone DEF SocketInv, clientVars
<1>2. CASE \E T : FannedOut(T)
  <2> PICK T : FannedOut(T)
    BY <1>2
  <2>1. NoneClosing => NoneClosing'
    <3>1. \A c \in ChangedFrames : c.t # "close"
      BY DEF ChangedFrames, Changed
    <3> QED
      BY <3>1, FramesFollow, TypesSplit DEF NoneClosing
  <2> QED
    BY <2>1 DEF FannedOut, SocketInv, clientVars
<1> QED
  BY <1>1, <1>2 DEF Served

LEMMA SocketStep ==
  ASSUME TypeOK, SocketInv, Tab
  PROVE  SocketInv'
<1>0. HubTypeOK /\ ClientTypeOK /\ frame \in FrameT /\ frame.grant \in Grant /\ NoProc \notin Procs
  BY TypesSplit, NoProcAssumption DEF ClientTypeOK, FrameT
<1> USE DEF socketVars, hubVars
<1>1. ASSUME NEW p \in Procs, Reload(p) PROVE SocketInv'
  <2>1. load'.bound = Bound /\ frame'.grant = frame.grant
    BY <1>0, <1>1 DEF Reload, FrameT
  <2> QED
    BY <1>1, <2>1 DEF Reload, Bound, Connected, SocketInv, NoneClosing
<1>2. ASSUME LoadAnswered PROVE SocketInv'
  <2>1. load # NoLoad /\ load'.bound = load.bound
    BY <1>0, <1>2, RunningLoad DEF LoadAnswered, NoLoad, Load
  <2> QED
    BY <1>2, <2>1 DEF LoadAnswered, SocketInv, NoneClosing
<1>3. ASSUME LoadApplied PROVE SocketInv'
  <2>1. load # NoLoad /\ frame'.grant = Sealed /\ load' = NoLoad
        /\ UNCHANGED <<socket, tags, link>>
    BY <1>3 DEF LoadApplied, SendWatch, NoLoad, NewFrame
  <2>2. link = NoProc => Sealed.sid # "current"
    BY <2>1 DEF Sealed, NoGrant, SocketInv
  <2>3. NoneClosing => NoneClosing'
    <3> DEFINE C == [i \in DOMAIN toClient |-> IF toClient[i].t = "ready"
                       THEN [t |-> "superseded"] ELSE toClient[i]]
    <3>1. toClient' = C \/ toClient' = toClient
      BY <1>3 DEF LoadApplied, SendWatch
    <3> QED
      BY <3>1 DEF NoneClosing
  <2> QED
    BY <2>1, <2>2, <2>3 DEF SocketInv
<1>4. ASSUME LoadFails PROVE SocketInv'
  <2>1. frame'.grant = frame.grant
    BY <1>0, <1>4 DEF LoadFails, FrameT
  <2> QED
    BY <1>4, <2>1 DEF LoadFails, SocketInv, NoneClosing
<1>5. ASSUME WatchServed PROVE SocketInv'
  <2> PICK i \in DOMAIN toServer :
        /\ IF socket # NoProc
           THEN Install(socket, toServer[i].grant,
                        toServer[i].latest /\ toServer[i].grant # NoGrant)
           ELSE UNCHANGED socketVars
        /\ UNCHANGED <<frame, load, link>>
    BY <1>5 DEF WatchServed
  <2>1. CASE socket = NoProc
    BY <2>1 DEF SocketInv, NoneClosing
  <2>2. CASE socket # NoProc /\ Drop
    BY <2>2, DropMeansGone DEF SocketInv
  <2>3. CASE socket # NoProc /\ ~Drop
    <3> DEFINE g == toServer[i].grant
               f == [t |-> "ready", stale |-> {k \in Keys : ChangedSince(socket, k, g.w[k])}]
    <3>1. (toClient' = Append(toClient, f) \/ toClient' = toClient) /\ UNCHANGED socket
      BY <2>3 DEF Install
    <3>2. f.t # "close" /\ f \in Frame
      BY DEF Frame
    <3> HIDE DEF f
    <3>3. NoneClosing'
      <4>1. NoneClosing
        BY <2>3 DEF SocketInv
      <4>2. CASE toClient' = Append(toClient, f)
        <5>1. /\ DOMAIN toClient = 1..Len(toClient) /\ Len(toClient) \in Nat
              /\ DOMAIN toClient' = 1..(Len(toClient) + 1)
              /\ \A n \in 1..Len(toClient) : toClient'[n] = toClient[n]
              /\ toClient'[Len(toClient) + 1] = f
          BY <1>0, <3>2, <4>2, AppendProperties, LenProperties DEF HubTypeOK
        <5> QED
          BY <3>2, <4>1, <5>1 DEF NoneClosing
      <4> QED
        BY <3>1, <4>1, <4>2 DEF NoneClosing
    <3> QED
      BY <2>3, <3>1, <3>3 DEF SocketInv
  <2> QED
    BY <2>1, <2>2, <2>3
<1>6. ASSUME NEW p \in Procs, Welcome(p) PROVE SocketInv'
  BY <1>0, <1>6 DEF Welcome, Connected, SocketInv, NoneClosing
<1>7. ASSUME ConnectFails PROVE SocketInv'
  BY <1>7 DEF ConnectFails, SocketInv, NoneClosing
<1>8. ASSUME Closed, socket' = NoProc, tags' = {} PROVE SocketInv'
  <2>1. \A x : Lost(x) # "current"
    BY DEF Lost
  <2>2. frame'.grant.sid # "current"
    <3>1. frame' = [frame EXCEPT !.pending = FALSE, !.grant.sid = Lost(@)]
      BY <1>8 DEF Closed
    <3>2. frame'.grant = [frame.grant EXCEPT !.sid = Lost(@)]
      BY <1>0, <3>1 DEF FrameT
    <3> QED
      BY <1>0, <2>1, <3>2 DEF Grant
  <2>3. load' # NoLoad => load'.bound # "current"
    <3>1. load # NoLoad => load \in Load
      BY <1>0, RunningLoad
    <3>2. CASE load # NoLoad
      <4>1. load' = [load EXCEPT !.bound = Lost(@)]
        BY <1>8, <3>2 DEF Closed
      <4> QED
        BY <2>1, <3>1, <3>2, <4>1 DEF Load
    <3> QED
      BY <1>8, <3>2 DEF Closed
  <2>4. NoneClosing'
    BY <1>8 DEF Closed, NoneClosing
  <2> QED
    BY <1>8, <2>2, <2>3, <2>4 DEF SocketInv
<1>9. ASSUME ConnectionLost PROVE SocketInv'
  BY <1>8, <1>9 DEF ConnectionLost
<1>10. ASSUME Receive PROVE SocketInv'
  <2>0. toClient # <<>>
    BY <1>10 DEF Receive
  <2>1. CASE /\ Head(toClient).t = "close"
             /\ Closed
             /\ UNCHANGED <<socket, tags, vouched, faults>>
    <3>1. ~NoneClosing
      <4>1. 1 \in DOMAIN toClient /\ Head(toClient) = toClient[1]
        BY <1>0, <2>0, LenProperties, EmptySeq, HeadTailProperties DEF HubTypeOK
      <4> QED
        BY <2>1, <4>1 DEF NoneClosing
    <3> QED
      BY <1>8, <2>1, <3>1 DEF SocketInv
  <2>2. CASE ~(Head(toClient).t = "close" /\ Closed)
    <3>1. /\ toClient' = Tail(toClient) /\ UNCHANGED <<socket, tags, load, link>>
          /\ OnReady(Head(toClient)) \/ OnChanged(Head(toClient)) \/ Ignores(Head(toClient))
      BY <1>10, <2>2 DEF Receive
    <3>2. frame'.grant = frame.grant
      BY <1>0, <3>1 DEF OnReady, OnChanged, Ignores, FrameT
    <3>3. NoneClosing => NoneClosing'
      BY <1>0, <2>0, <3>1, TailFrames DEF NoneClosing
    <3> QED
      BY <3>1, <3>2, <3>3 DEF SocketInv
  <2> QED
    BY <1>10, <2>1, <2>2 DEF Receive
<1>11. ASSUME NEW k \in Keys, Mark(k) PROVE SocketInv'
  <2>1. frame'.grant = frame.grant
    BY <1>0, <1>11 DEF Mark, FrameT
  <2> QED
    BY <1>11, <2>1 DEF Mark, SocketInv, NoneClosing
<1> QED
  BY <1>1, <1>2, <1>3, <1>4, <1>5, <1>6, <1>7, <1>9, <1>10, <1>11
  DEF Tab, ReloadDue, Renew

LEMMA RevokedStep ==
  ASSUME TypeOK, SocketInv, RevokedHoldNothing, Tab
  PROVE  RevokedHoldNothing'
<1> USE DEF socketVars, hubVars, logVars
<1>1. ASSUME UNCHANGED <<log, seen, refuse>>, UNCHANGED <<socket, tags, vouched>>
      PROVE  RevokedHoldNothing'
  BY <1>1 DEF RevokedHoldNothing, KeyRevoked, RevokedWithin
<1>2. ASSUME WatchServed PROVE RevokedHoldNothing'
  <2> PICK i \in DOMAIN toServer :
        /\ IF socket # NoProc
           THEN Install(socket, toServer[i].grant,
                        toServer[i].latest /\ toServer[i].grant # NoGrant)
           ELSE UNCHANGED socketVars
        /\ UNCHANGED <<log, seen, floor, refuse, down>>
    BY <1>2 DEF WatchServed
  <2>1. toServer[i].grant \in Grant
    <3>1. toServer[i] \in Watch
      BY LenProperties, ElementOfSeq, TypesSplit DEF ClientTypeOK
    <3> QED
      BY <3>1 DEF Watch
  <2> QED
    BY <1>1, <2>1, InstalledHoldNothing
<1>3. ASSUME NEW p \in Procs, Welcome(p) PROVE RevokedHoldNothing'
  BY <1>3 DEF Welcome, Connected, SocketInv, RevokedHoldNothing
<1>4. ASSUME ConnectionLost PROVE RevokedHoldNothing'
  BY <1>4 DEF ConnectionLost, RevokedHoldNothing
<1>5. ASSUME Receive PROVE RevokedHoldNothing'
  BY <1>1, <1>5 DEF Receive, Closed
<1> QED
  BY <1>1, <1>2, <1>3, <1>4, <1>5
  DEF Tab, ReloadDue, Renew, Reload, LoadAnswered, LoadApplied, SendWatch, LoadFails, ConnectFails, Mark

-----------------------------------------------------------------------------
(* What the tab is told *)

LEMMA FrameKinds ==
  /\ \A c \in ChangedFrames : c.t = "changed"
  /\ \A k : Changed(k).t = "changed" /\ Changed(k).key = k
BY DEF ChangedFrames, Changed

LEMMA WatchServer ==
  ASSUME TypeOK, WatchInv, Served, UNCHANGED clientVars
  PROVE  WatchInv'
<1> SUFFICES ASSUME socket' # NoProc, Watchable'
             PROVE  IF frame'.pending THEN Asked' \/ \E j \in DOMAIN toClient' : AnsweredAt(j)'
                                      ELSE InForce'
  BY DEF WatchInv
<1>1. ~(socket # NoProc /\ Drop)
  BY DropMeansGone
<1>2. PICK T : FannedOut(T) /\ (socket # NoProc => Heard(T))
  BY <1>1 DEF Served
<1>3. /\ UNCHANGED <<frame, toServer, delayed>> /\ socket # NoProc /\ Watchable
      /\ Heard(T)
  BY <1>2 DEF FannedOut, clientVars, Watchable
<1>4. /\ DOMAIN toClient \subseteq DOMAIN toClient'
      /\ DOMAIN toClient \subseteq Nat
      /\ \A i \in DOMAIN toClient : toClient'[i] = toClient[i]
      /\ \A i \in DOMAIN toClient' \ DOMAIN toClient : toClient'[i] \in ChangedFrames
      /\ \A i \in DOMAIN T : \E j \in DOMAIN toClient' :
           /\ toClient'[j] = T[i] /\ j > 0
           /\ \A n \in DOMAIN toClient : j > n
  BY <1>2, FramesFollow, TypesSplit
<1>5. NoneReady => NoneReady'
  BY <1>4, FrameKinds DEF NoneReady
<1>6. ASSUME NEW k \in Keys, NEW j \in DOMAIN toClient \cup {0},
             ToldAfter(k, j) \/ Listening(k)
      PROVE  (\E i \in DOMAIN toClient' : i > j /\ toClient'[i] = Changed(k)) \/ Listening(k)'
  <2>1. CASE ToldAfter(k, j)
    BY <1>4, <2>1 DEF ToldAfter
  <2>2. CASE Listening(k) /\ ~Listening(k)'
    <3>1. PICK i \in DOMAIN T : T[i] = Changed(k)
      BY <1>3, <2>2 DEF Heard
    <3> QED
      BY <1>4, <3>1
  <2> QED
    BY <1>6, <2>1, <2>2
<1>7. CASE frame.pending /\ Asked
  BY <1>3, <1>5, <1>7 DEF Asked
<1>8. ASSUME NEW j \in DOMAIN toClient, AnsweredAt(j) PROVE \E i \in DOMAIN toClient' : AnsweredAt(i)'
  <2>1. j \in DOMAIN toClient' /\ toClient'[j] = toClient[j]
    BY <1>4
  <2>2. \A i \in DOMAIN toClient' : i # j => toClient'[i].t # "ready"
    BY <1>4, <1>8, FrameKinds DEF AnsweredAt
  <2>3. \A k \in Keys : \/ k \in toClient'[j].stale
                        \/ (\E i \in DOMAIN toClient' : i > j /\ toClient'[i] = Changed(k))
                        \/ Listening(k)'
    BY <1>6, <1>8, <2>1 DEF AnsweredAt
  <2> QED
    BY <1>3, <1>8, <2>1, <2>2, <2>3 DEF AnsweredAt, ToldAfter
<1>9. CASE ~frame.pending /\ InForce
  <2>1. \A k \in Keys : \/ k \in frame.dirty \cup delayed
                        \/ (\E i \in DOMAIN toClient' : i > 0 /\ toClient'[i] = Changed(k))
                        \/ Listening(k)'
    BY <1>6, <1>9 DEF InForce
  <2> QED
    BY <1>3, <1>5, <1>9, <2>1 DEF InForce, ToldAfter
<1> QED
  BY <1>3, <1>7, <1>8, <1>9 DEF WatchInv

LEMMA WatchKept ==
  ASSUME WatchInv, UNCHANGED <<log, seen, coalescing, socket, tags, toClient, toServer, delayed>>,
         frame'.grant = frame.grant, frame'.shown = frame.shown,
         frame'.pending = frame.pending, frame'.dirty = frame.dirty
  PROVE  WatchInv'
<1>1. \A k : Listening(k)' = Listening(k)
  BY DEF Listening, AsNewAs, ChangesOf
<1>2. \A k, j : ToldAfter(k, j)' = ToldAfter(k, j)
  BY DEF ToldAfter
<1>3. Asked' = Asked /\ InForce' = InForce
  BY <1>1, <1>2 DEF Asked, InForce, NoneReady
<1>4. \A j : AnsweredAt(j)' = AnsweredAt(j)
  BY <1>1, <1>2 DEF AnsweredAt
<1> QED
  BY <1>3, <1>4 DEF WatchInv, Watchable

(* A load with a grant of this socket asks for its watch. *)
LEMMA WatchAsked ==
  ASSUME TypeOK, LoadApplied
  PROVE  WatchInv'
<1> SUFFICES ASSUME Watchable' PROVE frame'.pending /\ Asked'
  BY DEF WatchInv
<1> DEFINE M == [i \in DOMAIN toServer |-> [toServer[i] EXCEPT !.latest = FALSE]]
           C == [i \in DOMAIN toClient |-> IF toClient[i].t = "ready"
                   THEN [t |-> "superseded"] ELSE toClient[i]]
           x == [grant |-> Sealed, latest |-> TRUE]
<1>1. /\ frame'.grant = Sealed /\ frame'.pending = (Sealed.sid = "current")
      /\ Sealed.sid = "current"
  BY DEF LoadApplied, SendWatch, NewFrame, Watchable
<1>2. toServer' = Append(M, x) /\ toClient' = C
  BY <1>1 DEF LoadApplied, SendWatch
<1>3. /\ M \in Seq(Watch) /\ Len(M) = Len(toServer) /\ DOMAIN toServer = 1..Len(toServer)
      /\ Len(toServer) \in Nat /\ \A i \in 1..Len(toServer) : ~M[i].latest
  <2>1. /\ toServer \in Seq(Watch) /\ Len(toServer) \in Nat /\ DOMAIN toServer = 1..Len(toServer)
        /\ \A i \in 1..Len(toServer) : toServer[i] \in Watch
    BY LenProperties, ElementOfSeq, TypesSplit DEF ClientTypeOK
  <2>2. M \in [DOMAIN toServer -> Watch]
    BY <2>1 DEF Watch
  <2>3. \A i \in 1..Len(toServer) : ~M[i].latest
    BY <2>1 DEF Watch
  <2>4. M \in Seq(Watch) /\ Len(M) = Len(toServer)
    BY <2>1, <2>2, MappedSeq
  <2> QED
    BY <2>1, <2>3, <2>4
<1>4. x \in Watch
  <2>1. load \in Load
    BY RunningLoad, TypesSplit DEF LoadApplied, SendWatch
  <2> QED
    BY <2>1, SealedTypes DEF Watch
<1>5. NoneReady'
  BY <1>2 DEF NoneReady
<1> HIDE DEF M, C, x
<1>6. /\ Len(toServer') = Len(toServer) + 1 /\ DOMAIN toServer' = 1..(Len(toServer) + 1)
      /\ toServer'[Len(toServer) + 1] = x
      /\ \A i \in 1..Len(toServer) : toServer'[i] = M[i]
      /\ toServer' # <<>>
  BY <1>2, <1>3, <1>4, AppendProperties, LenProperties
<1>7. \A i \in DOMAIN toServer' : i < Len(toServer') => ~toServer'[i].latest
  BY <1>3, <1>6
<1> QED
  BY <1>1, <1>5, <1>6, <1>7 DEF Asked, x

(* install() scans history for what the grant's watermarks leave open, in
   the step that subscribes. *)
LEMMA ScanCovers ==
  ASSUME TypeOK, GrantInv, NEW p \in Procs, NEW k \in Keys,
         ~ChangedSince(p, k, frame.grant.w[k])
  PROVE  AsNewAs(frame.shown, k, seen[p])
<1> PICK w, a : w = frame.grant.w[k] /\ a = frame.shown[k]
  OBVIOUS
<1>1. /\ w \in Nat /\ floor[p] \in Nat /\ seen[p] \in Nat
  BY GrantNumbers, LiveBoundsAssumption, LenProperties DEF TypeOK, HubTypeOK, Stamp
<1>2. /\ floor[p] <= w /\ w <= seen[p]
      /\ ChangesOf(k, Max({w, floor[p]}), seen[p]) = {}
  BY DEF ChangedSince, Known
<1>3. Max({w, floor[p]}) = w
  <2>1. {w, floor[p]} \subseteq 0..w /\ w \in {w, floor[p]}
    BY <1>1, <1>2
  <2>2. Max({w, floor[p]}) \in {w, floor[p]} /\ Max({w, floor[p]}) >= w
    BY <1>1, <2>1, GreatestOf
  <2> QED
    BY <1>1, <1>2, <2>2
<1>4. ChangesOf(k, a, w) = {}
  BY DEF GrantInv, AsNewAs
<1>5. \A i \in DOMAIN log : i \in Nat
  BY LenProperties DEF TypeOK, HubTypeOK
<1>6. \A i \in DOMAIN log : i <= seen[p] => w < i \/ i <= w
  BY <1>1, <1>5
<1>7. ChangesOf(k, w, seen[p]) = {}
  BY <1>2, <1>3
<1>8. ChangesOf(k, a, seen[p]) = {}
  BY <1>4, <1>6, <1>7 DEF ChangesOf
<1> QED
  BY <1>8 DEF AsNewAs

LEMMA WatchAnswered ==
  ASSUME TypeOK, GrantInv, WatchInv, WatchServed
  PROVE  WatchInv'
<1> SUFFICES ASSUME socket' # NoProc, Watchable'
             PROVE  IF frame'.pending THEN Asked' \/ \E j \in DOMAIN toClient' : AnsweredAt(j)'
                                      ELSE InForce'
  BY DEF WatchInv
<1> PICK i \in DOMAIN toServer :
      /\ toServer' = SubSeq(toServer, i + 1, Len(toServer))
      /\ IF socket # NoProc
         THEN Install(socket, toServer[i].grant,
                      toServer[i].latest /\ toServer[i].grant # NoGrant)
         ELSE UNCHANGED socketVars
      /\ UNCHANGED <<logVars, coalescing, faults, frame, load, link, sent,
                     delayed, connects>>
  BY DEF WatchServed
<1> DEFINE n == Len(toServer)
           g == toServer[i].grant
           f == [t |-> "ready", stale |-> {k \in Keys : ChangedSince(socket, k, g.w[k])}]
<1>1. socket # NoProc /\ Watchable /\ ~Drop
  BY DropMeansGone DEF socketVars, Watchable
<1>2. /\ tags' = (IF g = NoGrant THEN {} ELSE Keys) /\ UNCHANGED socket
      /\ toClient' = IF toServer[i].latest /\ g # NoGrant THEN Append(toClient, f) ELSE toClient
  BY <1>1 DEF Install
<1>3. n \in Nat /\ DOMAIN toServer = 1..n /\ toServer \in Seq(Watch) /\ toServer # <<>>
  BY LenProperties, EmptySeq, TypesSplit DEF ClientTypeOK
<1>4. frame.pending /\ Asked
  BY <1>1, <1>3 DEF WatchInv, AnsweredAt, InForce
<1>5. CASE i = n
  <2>1. g = frame.grant /\ toServer[i].latest /\ g # NoGrant
    BY <1>1, <1>4, <1>5 DEF Asked, Watchable, NoGrant
  <2>2. toServer' = <<>>
    BY <1>3, <1>5, SubSeqProperties, EmptySeq
  <2> PICK j : j = Len(toClient) + 1
    OBVIOUS
  <2>3. f \in Frame /\ toClient \in Seq(Frame)
    BY DEF Frame, TypeOK, HubTypeOK
  <2>4. f.t = "ready" /\ f.stale = {k \in Keys : ChangedSince(socket, k, g.w[k])}
    OBVIOUS
  <2> HIDE DEF f
  <2>5. /\ j \in DOMAIN toClient' /\ toClient'[j] = f
        /\ \A c \in DOMAIN toClient' : c # j => c \in DOMAIN toClient /\ toClient'[c] = toClient[c]
    <3>1. toClient' = Append(toClient, f)
      BY <1>2, <2>1
    <3>2. /\ Len(toClient) \in Nat /\ DOMAIN toClient = 1..Len(toClient)
          /\ DOMAIN toClient' = 1..(Len(toClient) + 1)
          /\ \A c \in 1..Len(toClient) : toClient'[c] = toClient[c]
          /\ toClient'[Len(toClient) + 1] = f
      BY <2>3, <3>1, AppendProperties, LenProperties
    <3> QED
      BY <3>2
  <2>6. \A c \in DOMAIN toClient' : c # j => toClient'[c].t # "ready"
    BY <1>4, <2>5 DEF Asked, NoneReady
  <2>7. \A k \in Keys : k \in f.stale \/ Listening(k)'
    <3> SUFFICES ASSUME NEW k \in Keys, k \notin f.stale PROVE Listening(k)'
      OBVIOUS
    <3>1. socket \in Procs /\ UNCHANGED <<log, seen>>
      BY <1>1 DEF TypeOK, HubTypeOK, logVars
    <3>2. AsNewAs(frame.shown, k, seen[socket])
      BY <2>1, <2>4, <3>1, ScanCovers
    <3>3. AsNewAs(frame.shown, k, seen[socket])'
      BY <1>2, <3>1, <3>2 DEF AsNewAs, ChangesOf
    <3> QED
      BY <1>2, <2>1, <3>3 DEF Listening
  <2>8. AnsweredAt(j)'
    BY <2>2, <2>4, <2>5, <2>6, <2>7 DEF AnsweredAt
  <2> QED
    BY <1>4, <2>5, <2>8
<1>6. CASE i # n
  <2>1. i < n
    BY <1>3, <1>6
  <2>2. ~toServer[i].latest
    BY <1>4, <2>1 DEF Asked
  <2>3. UNCHANGED toClient
    BY <1>2, <2>2
  <2>4. /\ Len(toServer') = n - i /\ DOMAIN toServer' = 1..(n - i)
        /\ \A c \in 1..(n - i) : toServer'[c] = toServer[i + c]
    <3>1. i + 1 \in 1..(n + 1) /\ \A c \in (i + 1)..n : toServer[c] \in Watch
      BY <1>3, <2>1, ElementOfSeq
    <3>2. i + 1 \in Int /\ n \in Int /\ i + 1 <= n + 1
      BY <1>3, <2>1
    <3> QED
      BY <1>3, <2>1, <3>1, <3>2, SubSeqProperties
  <2>5. toServer'[Len(toServer')] = toServer[n] /\ toServer' # <<>>
    <3>1. n - i \in 1..(n - i) /\ i + (n - i) = n
      BY <1>3, <2>1
    <3>2. toServer'[n - i] = toServer[n] /\ n - i \in DOMAIN toServer'
      BY <2>4, <3>1
    <3>3. toServer'[Len(toServer')] = toServer[n]
      BY <2>4, <3>2
    <3>4. DOMAIN toServer' # DOMAIN <<>>
      BY <3>2
    <3> QED
      BY <3>3, <3>4
  <2>6. \A c \in DOMAIN toServer' : c < Len(toServer') => ~toServer'[c].latest
    BY <1>3, <1>4, <2>1, <2>4 DEF Asked
  <2> QED
    BY <1>4, <2>3, <2>5, <2>6 DEF Asked, NoneReady
<1> QED
  BY <1>5, <1>6

LEMMA WatchReceived ==
  ASSUME TypeOK, WatchInv, Receive, ~Closed
  PROVE  WatchInv'
<1> SUFFICES ASSUME socket' # NoProc, Watchable'
             PROVE  IF frame'.pending THEN Asked' \/ \E j \in DOMAIN toClient' : AnsweredAt(j)'
                                      ELSE InForce'
  BY DEF WatchInv
<1> DEFINE f == Head(toClient)
<1>1. /\ toClient # <<>> /\ toClient' = Tail(toClient)
      /\ OnReady(f) \/ OnChanged(f) \/ Ignores(f)
      /\ UNCHANGED <<log, seen, coalescing, socket, tags, toServer>>
  BY DEF Receive, logVars
<1>2. /\ frame'.grant = frame.grant /\ frame'.shown = frame.shown /\ frame \in FrameT
      /\ frame'.pending \in {frame.pending, FALSE}
  <2>1. frame \in FrameT
    BY TypesSplit DEF ClientTypeOK
  <2> QED
    BY <1>1, <2>1 DEF OnReady, OnChanged, Ignores, FrameT
<1>3. socket # NoProc /\ Watchable
  BY <1>1, <1>2 DEF Watchable
<1>4. /\ DOMAIN toClient \subseteq Nat \ {0} /\ 1 \in DOMAIN toClient /\ f = toClient[1]
      /\ \A i \in DOMAIN toClient' :
           i \in Nat \ {0} /\ i + 1 \in DOMAIN toClient /\ toClient'[i] = toClient[i + 1]
      /\ \A i \in DOMAIN toClient :
           i > 1 => i - 1 \in DOMAIN toClient' /\ toClient'[i - 1] = toClient[i]
  BY <1>1, TailFrames, TypesSplit
<1>5. \A k : Listening(k) => Listening(k)'
  BY <1>1, <1>2 DEF Listening, AsNewAs, ChangesOf
<1>6. NoneReady => NoneReady'
  BY <1>4 DEF NoneReady
<1>7. \A k, j : j \in Nat \ {0} /\ ToldAfter(k, j) =>
        \E i \in DOMAIN toClient' : i > j - 1 /\ toClient'[i] = Changed(k)
  <2> SUFFICES ASSUME NEW k, NEW j \in Nat \ {0}, NEW i \in DOMAIN toClient,
                      i > j, toClient[i] = Changed(k)
               PROVE  \E c \in DOMAIN toClient' : c > j - 1 /\ toClient'[c] = Changed(k)
    BY DEF ToldAfter
  <2>1. i \in Nat /\ i > 1 /\ i - 1 > j - 1
    BY <1>4
  <2> QED
    BY <1>4, <2>1
<1> HIDE DEF f
<1>8. CASE frame.pending /\ Asked
  <2>1. ~OnReady(f)
    BY <1>4, <1>8 DEF Asked, NoneReady, OnReady
  <2>2. UNCHANGED frame
    BY <1>1, <1>8, <2>1 DEF OnChanged, Ignores
  <2> QED
    BY <1>1, <1>6, <1>8, <2>2 DEF Asked
<1>9. ASSUME frame.pending, NEW j \in DOMAIN toClient, AnsweredAt(j)
      PROVE  IF frame'.pending THEN \E c \in DOMAIN toClient' : AnsweredAt(c)' ELSE InForce'
  <2>1. CASE j = 1
    <3>1. f.t = "ready"
      BY <1>4, <1>9, <2>1 DEF AnsweredAt
    <3>2. OnReady(f)
      BY <1>1, <3>1 DEF OnChanged, Ignores
    <3>3. ~frame'.pending /\ frame'.dirty = f.stale
      BY <1>2, <3>2 DEF OnReady, FrameT
    <3>4. NoneReady'
      <4>1. \A c \in DOMAIN toClient' : c + 1 # 1
        BY <1>4
      <4> QED
        BY <1>4, <1>9, <2>1, <4>1 DEF AnsweredAt, NoneReady
    <3>5. ASSUME NEW k \in Keys
          PROVE  k \in frame'.dirty \/ ToldAfter(k, 0)' \/ Listening(k)'
      <4>1. CASE ToldAfter(k, j)
        BY <1>7, <2>1, <4>1 DEF ToldAfter
      <4> QED
        BY <1>4, <1>5, <1>9, <2>1, <3>3, <4>1 DEF AnsweredAt
    <3> QED
      BY <1>1, <1>9, <3>3, <3>4, <3>5 DEF InForce, AnsweredAt
  <2>2. CASE j # 1
    <3>1. f.t # "ready"
      BY <1>4, <1>9, <2>2 DEF AnsweredAt
    <3>2. UNCHANGED frame
      BY <1>1, <1>9, <3>1 DEF OnReady, OnChanged, Ignores
    <3>3. /\ j \in Nat /\ j > 1 /\ j - 1 \in DOMAIN toClient' /\ toClient'[j - 1] = toClient[j]
      BY <1>4, <2>2
    <3>4. \A c \in DOMAIN toClient' : c # j - 1 => toClient'[c].t # "ready"
      <4>1. \A c \in DOMAIN toClient' : c # j - 1 => c + 1 # j
        BY <1>4, <3>3
      <4> QED
        BY <1>4, <1>9, <4>1 DEF AnsweredAt
    <3>5. ASSUME NEW k \in Keys
          PROVE  \/ k \in toClient'[j - 1].stale
                 \/ (\E i \in DOMAIN toClient' : i > j - 1 /\ toClient'[i] = Changed(k))
                 \/ Listening(k)'
      BY <1>5, <1>7, <1>9, <3>3 DEF AnsweredAt
    <3> QED
      BY <1>1, <1>9, <3>2, <3>3, <3>4, <3>5 DEF AnsweredAt, ToldAfter
  <2> QED
    BY <2>1, <2>2
<1>10. CASE ~frame.pending /\ InForce
  <2>1. ~OnReady(f)
    BY <1>4, <1>10 DEF InForce, NoneReady, OnReady
  <2>2. /\ ~frame'.pending
        /\ frame.dirty \cup delayed \subseteq frame'.dirty \cup delayed'
        /\ f.t = "changed" => f.key \in frame'.dirty \cup delayed'
    <3>1. CASE OnChanged(f)
      BY <1>2, <1>3, <1>10, <3>1 DEF OnChanged, FrameT
    <3>2. CASE Ignores(f)
      BY <1>10, <3>2 DEF Ignores
    <3> QED
      BY <1>1, <2>1, <3>1, <3>2
  <2>3. ASSUME NEW k \in Keys, ToldAfter(k, 0)
        PROVE  k \in frame'.dirty \cup delayed' \/ ToldAfter(k, 0)'
    <3>1. PICK i \in DOMAIN toClient : toClient[i] = Changed(k)
      BY <2>3 DEF ToldAfter
    <3>2. CASE i = 1
      BY <1>4, <2>2, <3>1, <3>2, FrameKinds
    <3>3. CASE i # 1
      <4>1. ToldAfter(k, 1)
        BY <1>4, <3>1, <3>3 DEF ToldAfter
      <4> QED
        BY <1>7, <4>1 DEF ToldAfter
    <3> QED
      BY <3>2, <3>3
  <2> QED
    BY <1>1, <1>5, <1>6, <1>10, <2>2, <2>3 DEF InForce
<1> QED
  BY <1>3, <1>8, <1>9, <1>10 DEF WatchInv

LEMMA WatchStep ==
  ASSUME TypeOK, SocketInv, GrantInv, WatchInv, SocketInv', Tab
  PROVE  WatchInv'
<1>0. frame \in FrameT
  BY TypesSplit DEF ClientTypeOK
<1> USE DEF hubVars, logVars, socketVars
<1>1. ASSUME NEW p \in Procs, Reload(p) PROVE WatchInv'
  BY <1>0, <1>1, WatchKept DEF Reload, FrameT
<1>2. CASE LoadAnswered
  BY <1>2, WatchKept DEF LoadAnswered
<1>3. CASE LoadFails
  BY <1>0, <1>3, WatchKept DEF LoadFails, FrameT
<1>4. CASE ConnectFails
  BY <1>4, WatchKept DEF ConnectFails
<1>5. ASSUME NEW p \in Procs, Welcome(p) PROVE WatchInv'
  <2>1. frame'.grant = frame.grant /\ frame.grant.sid # "current"
    BY <1>0, <1>5 DEF Welcome, FrameT, SocketInv, Connected
  <2> QED
    BY <2>1 DEF WatchInv, Watchable
<1>6. CASE Closed
  <2>1. frame'.grant.sid # "current"
    BY <1>6 DEF Closed, SocketInv
  <2> QED
    BY <2>1 DEF WatchInv, Watchable
<1>7. CASE Receive
  BY <1>6, <1>7, WatchReceived
<1>8. ASSUME NEW k \in Keys, Mark(k) PROVE WatchInv'
  <2>1. /\ UNCHANGED <<log, seen, coalescing, socket, tags, toClient, toServer>>
        /\ frame'.grant = frame.grant /\ frame'.shown = frame.shown
        /\ frame'.pending = frame.pending
        /\ ~frame.pending => frame'.dirty \cup delayed' = frame.dirty \cup delayed
    BY <1>0, <1>8 DEF Mark, FrameT
  <2>2. \A c : Listening(c)' = Listening(c)
    BY <2>1 DEF Listening, AsNewAs, ChangesOf
  <2>3. \A c, j : ToldAfter(c, j)' = ToldAfter(c, j)
    BY <2>1 DEF ToldAfter
  <2>4. Asked' = Asked
    BY <2>1 DEF Asked, NoneReady
  <2>5. \A j : AnsweredAt(j)' = AnsweredAt(j)
    BY <2>1, <2>2, <2>3 DEF AnsweredAt
  <2>6. ~frame.pending => InForce' = InForce
    BY <2>1, <2>2, <2>3 DEF InForce, NoneReady
  <2> QED
    BY <2>1, <2>4, <2>5, <2>6 DEF WatchInv, Watchable
<1> QED
  BY <1>1, <1>2, <1>3, <1>4, <1>5, <1>6, <1>7, <1>8, WatchAsked, WatchAnswered
  DEF Tab, ReloadDue, Renew, ConnectionLost

-----------------------------------------------------------------------------
LEMMA InitInv == Init => Inv
<1> SUFFICES ASSUME Init PROVE Inv
  OBVIOUS
<1>1. TypeOK
  BY InitTypeOK
<1>2. /\ log = <<>> /\ socket = NoProc /\ tags = {} /\ toClient = <<>> /\ load = NoLoad
      /\ link = NoProc
  BY DEF Init, HubInit
<1>3. PICK sid \in {"none", "seed"} :
        frame = NewFrame([NoGrant EXCEPT !.sid = sid], [k \in Keys |-> 0], FALSE)
  BY DEF Init
<1>4. /\ frame.grant.sid # "current" /\ frame.grant.s = 0
      /\ \A k \in Keys : frame.grant.w[k] = 0
  BY <1>3 DEF NewFrame, NoGrant
<1>5. Len(log) = 0 /\ DOMAIN log = {} /\ DOMAIN toClient = {}
  BY <1>2
<1>6. SocketInv
  BY <1>2, <1>4, <1>5 DEF SocketInv, NoneClosing
<1>7. GrantInv
  BY <1>4, <1>5 DEF GrantInv, AsNewAs, ChangesOf, RevokedWithin
<1> QED
  BY <1>1, <1>2, <1>6, <1>7 DEF Inv, LoadInv, WatchInv, RevokedHoldNothing

LEMMA NextInv == Inv /\ [Next]_vars => Inv'
<1> SUFFICES ASSUME Inv, [Next]_vars PROVE Inv'
  OBVIOUS
<1>0. TypeOK /\ SocketInv /\ GrantInv /\ LoadInv /\ WatchInv /\ RevokedHoldNothing
  BY DEF Inv
<1>1. TypeOK'
  BY <1>0, NextTypeOK
<1>2. CASE Server /\ UNCHANGED clientVars
  <2>1. UNCHANGED frame
    BY <1>2 DEF clientVars
  <2>2. Served
    BY <1>0, <1>2, <2>1, ServerServed
  <2>3. RevokedHoldNothing'
    BY <2>2, DropMeansGone DEF Served, FannedOut, RevokedHoldNothing
  <2> QED
    <3>1. GrantInv' /\ LoadInv'
      BY <1>0, <1>2, GrantsStep
    <3>2. SocketInv'
      BY <1>0, <1>2, <2>2, SocketServed
    <3>3. WatchInv'
      BY <1>0, <1>2, <2>2, WatchServer
    <3> QED
      BY <1>1, <2>3, <3>1, <3>2, <3>3 DEF Inv
<1>3. CASE Tab
  <2>1. GrantInv' /\ LoadInv'
    BY <1>0, <1>3, GrantsStep
  <2>2. SocketInv'
    BY <1>0, <1>3, SocketStep
  <2>3. RevokedHoldNothing'
    BY <1>0, <1>3, RevokedStep
  <2>4. WatchInv'
    BY <1>0, <1>3, <2>2, WatchStep
  <2> QED
    BY <1>1, <2>1, <2>2, <2>3, <2>4 DEF Inv
<1>4. CASE UNCHANGED vars
  <2>1. UNCHANGED <<log, seen, refuse, coalescing, socket, tags, vouched, toClient, toServer,
                    delayed, frame, load, link>>
    BY <1>4 DEF vars, hubVars, logVars, socketVars, clientVars
  <2>2. WatchInv'
    BY <1>0, <2>1, WatchKept
  <2>3. SocketInv' /\ RevokedHoldNothing'
    BY <1>0, <2>1 DEF SocketInv, NoneClosing, RevokedHoldNothing, KeyRevoked, RevokedWithin
  <2>4. GrantInv' /\ LoadInv'
    BY <1>0, <2>1 DEF GrantInv, LoadInv, AsNewAs, ChangesOf, RevokedWithin
  <2> QED
    BY <1>1, <2>2, <2>3, <2>4 DEF Inv
<1> QED
  BY <1>2, <1>3, <1>4 DEF Next

THEOREM AlwaysInv == Spec => []Inv
BY InitInv, NextInv, PTL DEF Spec

(* A change is never lost on the way to the page, whichever processes serve
   its loads and its socket: the join of install() and the answer to the
   latest watch leave no stretch of the log unread. *)
THEOREM ChangesReachThePage == Spec => []NothingMissed
<1>1. Inv => NothingMissed
  <2> SUFFICES ASSUME Inv, socket # NoProc, Watchable, ~frame.pending PROVE NothingMissed
    BY DEF NothingMissed
  <2>1. InForce
    BY DEF Inv, WatchInv
  <2> QED
    BY <2>1 DEF InForce, ToldAfter, Listening, NothingMissed
<1> QED
  BY <1>1, AlwaysInv, PTL

(* Each copy on screen is as new as the watermark its grant gives it, and
   no grant outlives a revocation its seq covers, through any chain of loads
   that keep and re-sign it. *)
THEOREM GrantsAreAlwaysTrue == Spec => []GrantsAreTrue
<1>1. Inv => GrantsAreTrue
  BY DEF Inv, GrantInv, GrantsAreTrue
<1> QED
  BY <1>1, AlwaysInv, PTL

(* A socket never holds a topic by a grant a revocation its process applied
   has withdrawn. *)
THEOREM NeverHeldWhenRevoked == Spec => []RevokedHoldNothing
<1>1. Inv => RevokedHoldNothing
  BY DEF Inv
<1> QED
  BY <1>1, AlwaysInv, PTL
=============================================================================
