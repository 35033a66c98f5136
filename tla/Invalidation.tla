---------------------------- MODULE Invalidation ----------------------------
(***************************************************************************)
(* An action changes the data and has everything made from it dropped      *)
(* before its answer leaves: the pipeline of packages/web/src/internal/    *)
(* invalidation.ts, over the loaders' data cache, the page cache, the live *)
(* pages and a CDN, in this order, with its retries.                       *)
(*                                                                         *)
(* An operation names the page by its path, its tag or both, and always a  *)
(* live key.  A retry may be given up at any time, as inline retries are   *)
(* when their deadline comes.                                              *)
(***************************************************************************)
EXTENDS PageCache

CONSTANTS
  Writers,   \* actions, each of which changes the data once
  Targets,   \* how they may name the page: by its path, its tag or both
  MaxRetries \* RETRY_MS.length

ASSUME TargetsAssumption == Targets \subseteq (SUBSET {"path", "tag"}) \ {{}}
ASSUME RetriesAssumption == MaxRetries \in Nat
ASSUME WritersAssumption == Writers \cap (Renders \cup {NoOne}) = {}

VARIABLES
  stage,   \* what an operation awaits
  place,   \* the location that runs it
  targets, \* whether it names the page by its path, by its tag
  change,  \* the version of the data it has made
  failed,  \* the first stage that failed in this run of it, or "none"
  tries,   \* its retries so far
  told     \* operations that live pages have heard of

opVars == <<stage, place, targets, change, failed, tries, told>>
pipelineVars == <<pagesVars, cacheVars, opVars>>

Stages == {"data", "path", "tag", "publish", "cdn"}

PipelineTypeOK ==
  /\ CacheTypeOK
  /\ \A c \in calls :
       /\ c.by \in UNION {Renders, Writers, {NoOne}} /\ c.at \in Locations
       /\ \/ c.do = "set" /\ c.made \in Version /\ c.fence \in Nat
          \/ c.do = "put" /\ c.name \in Names /\ c.value \in (IF c.name = "page" THEN Page ELSE Epoch)
  /\ stage \in [Writers -> Stages \cup {"idle", "failed", "done", "abandoned"}]
  /\ place \in [Writers -> Locations \cup {NoOne}]
  /\ targets \in [Writers -> Targets \cup {{}}]
  /\ change \in [Writers -> Version]
  /\ failed \in [Writers -> {"none", "data", "pages", "publish", "cdn"}]
  /\ tries \in [Writers -> 0..MaxRetries]
  /\ told \subseteq Writers

PipelineInit ==
  /\ CacheInit
  /\ stage = [w \in Writers |-> "idle"]
  /\ place = [w \in Writers |-> NoOne]
  /\ targets = [w \in Writers |-> {}]
  /\ change = [w \in Writers |-> 0]
  /\ failed = [w \in Writers |-> "none"]
  /\ tries = [w \in Writers |-> 0]
  /\ told = {}

-----------------------------------------------------------------------------
(* runInvalidation(): the stages that have work, from the i-th on. *)
Order == <<"data", "pages", "publish", "cdn">>

Place(s) == CHOOSE i \in DOMAIN Order : Order[i] = s

HasWork(s, T) == s = "data" => "tag" \in T /\ loaded # Off

(* What a purge promises: the operation's change; or, of one by path alone,
   which leaves the data cache as it is, what loaders read. *)
Covers(T, v) == IF "tag" \in T \/ loaded \notin Version THEN v ELSE loaded

PurgeBy(name, w, l, T, v) ==
  stage' = [stage EXCEPT ![w] = name] /\ Purge(w, l, name, Covers(T, v))

To(w, s) == stage' = [stage EXCEPT ![w] = s] /\ UNCHANGED pagesVars

RunFrom(i, w, l, T, v) ==
  LET s == IF HasWork(Order[i], T) THEN Order[i] ELSE Order[i + 1]
  IN IF s = "pages" THEN PurgeBy(IF "path" \in T THEN "path" ELSE "tag", w, l, T, v)
                    ELSE To(w, s)

GoOn(w, s) == RunFrom(Place(s) + 1, w, place[w], targets[w], change[w])

(* The operation ends, and its run is forgotten. *)
Over(w, s) ==
  /\ stage' = [stage EXCEPT ![w] = s]
  /\ place' = [place EXCEPT ![w] = NoOne]
  /\ failed' = [failed EXCEPT ![w] = "none"]
  /\ tries' = [tries EXCEPT ![w] = 0]

-----------------------------------------------------------------------------
(* The action's handler has changed the data, and its operation begins. *)
Act(w, l, T) ==
  /\ stage[w] = "idle"
  /\ data < MaxChanges
  /\ data' = data + 1
  /\ place' = [place EXCEPT ![w] = l]
  /\ targets' = [targets EXCEPT ![w] = T]
  /\ change' = [change EXCEPT ![w] = data + 1]
  /\ RunFrom(1, w, l, T, data + 1)
  /\ UNCHANGED <<kind, loaded, cold, memo, pc, at, made, tag, fence, owed, troubles>>
  /\ UNCHANGED <<failed, tries, told>>

ClearsData(w) ==
  /\ stage[w] = "data"
  /\ loaded' = Empty
  /\ GoOn(w, "data")
  /\ UNCHANGED <<data, kind, cold, memo, pc, at, made, tag, fence, owed, troubles>>
  /\ UNCHANGED <<place, targets, change, failed, tries, told>>

PurgedPath(w) ==
  /\ stage[w] = "path"
  /\ ~Waits(w)
  /\ IF "tag" \in targets[w]
     THEN PurgeBy("tag", w, place[w], targets[w], change[w])
     ELSE GoOn(w, "pages")
  /\ UNCHANGED <<cacheVars, place, targets, change, failed, tries, told>>

PurgedTag(w) ==
  /\ stage[w] = "tag"
  /\ ~Waits(w)
  /\ GoOn(w, "pages")
  /\ UNCHANGED <<cacheVars, place, targets, change, failed, tries, told>>

Publishes(w) ==
  /\ stage[w] = "publish"
  /\ told' = told \cup {w}
  /\ GoOn(w, "publish")
  /\ UNCHANGED <<cacheVars, place, targets, change, failed, tries>>

PurgesCdn(w) ==
  /\ stage[w] = "cdn"
  /\ IF failed[w] = "none" THEN Over(w, "done")
     ELSE stage' = [stage EXCEPT ![w] = "failed"] /\ UNCHANGED <<place, failed, tries>>
  /\ UNCHANGED <<pagesVars, cacheVars, targets, change, told>>

-----------------------------------------------------------------------------
(* A cache stage that fails ends the run, whether or not it took effect. *)

(* Mutant: the run goes on to the live pages. *)
BreaksNever(w, s) ==
  /\ failed' = [failed EXCEPT ![w] = s]
  /\ stage' = [stage EXCEPT ![w] = "publish"]
Breaks(w, s) ==
  /\ failed' = [failed EXCEPT ![w] = s]
  /\ stage' = [stage EXCEPT ![w] = "failed"]

DataFails(w) ==
  /\ stage[w] = "data"
  /\ Trouble
  /\ loaded' \in {loaded, Empty}
  /\ Breaks(w, "data")
  /\ UNCHANGED <<pagesVars, data, kind, cold, memo, pc, at, made, tag, fence, owed>>
  /\ UNCHANGED <<place, targets, change, tries, told>>

PurgeFails(w) ==
  /\ stage[w] \in {"path", "tag"}
  /\ Trouble
  /\ Fails(w)
  /\ Breaks(w, "pages")
  /\ UNCHANGED <<data, kind, loaded, cold, memo, pc, at, made, tag, fence, owed>>
  /\ UNCHANGED <<place, targets, change, tries, told>>

(* A publish that fails does not stop the CDN from being purged. *)
PublishFails(w) ==
  /\ stage[w] = "publish"
  /\ Trouble
  /\ told' \in {told, told \cup {w}}
  /\ failed' = [failed EXCEPT ![w] = "publish"]
  /\ GoOn(w, "publish")
  /\ UNCHANGED <<data, kind, loaded, cold, memo, pc, at, made, tag, fence, owed>>
  /\ UNCHANGED <<place, targets, change, tries>>

(* Only a CDN may refuse for good. *)
CdnFails(w) ==
  /\ stage[w] = "cdn"
  /\ Trouble
  /\ \/ /\ stage' = [stage EXCEPT ![w] = "failed"]
        /\ failed' = [failed EXCEPT ![w] = IF @ = "none" THEN "cdn" ELSE @]
        /\ UNCHANGED <<place, tries>>
     \/ failed[w] = "none" /\ Over(w, "abandoned")
  /\ UNCHANGED <<pagesVars, data, kind, loaded, cold, memo, pc, at, made, tag, fence, owed>>
  /\ UNCHANGED <<targets, change, told>>

(* settleInvalidation(): a retry goes on from the stage that failed. *)
Retry(w) ==
  /\ stage[w] = "failed"
  /\ tries[w] < MaxRetries
  /\ tries' = [tries EXCEPT ![w] = @ + 1]
  /\ failed' = [failed EXCEPT ![w] = "none"]
  /\ RunFrom(Place(failed[w]), w, place[w], targets[w], change[w])
  /\ UNCHANGED <<cacheVars, place, targets, change, told>>

GiveUp(w) ==
  /\ stage[w] = "failed"
  /\ Over(w, "abandoned")
  /\ UNCHANGED <<pagesVars, cacheVars, targets, change, told>>

-----------------------------------------------------------------------------
Running(w) ==
  \/ ClearsData(w) \/ PurgedPath(w) \/ PurgedTag(w) \/ Publishes(w) \/ PurgesCdn(w)
  \/ DataFails(w) \/ PurgeFails(w) \/ PublishFails(w) \/ CdnFails(w)
  \/ Retry(w) \/ GiveUp(w)

PipelineNext ==
  \/ UNCHANGED opVars /\ CacheNext
  \/ \E w \in Writers :
       \/ \E l \in Locations, T \in Targets : Act(w, l, T)
       \/ Running(w)

PipelineSpec == PipelineInit /\ [][PipelineNext]_pipelineVars

-----------------------------------------------------------------------------
Answers(r) == pc[r] # "done" /\ pc'[r] = "done"

(* "Without it, a purge that lands while a page renders is undone when the
   render stores the page": a request that reaches a location with a purge
   known there is answered with a page as new as the purge promises, from the
   store or rendered, however renders, lost calls and late puts cross it.
   (Not if an older purge is put over a newer one, and not if the request is
   handed the page of a render it joins: see README.) *)
AnswersAreFresh ==
  [][\A r \in Requests :
       Answers(r) /\ pc[r] \in {"tag", "store"} /\ ~overtaken
         => made[r] >= owed[r]]_pipelineVars

(* "Clients told to reload would read the stale data": once live pages have
   heard of a change, or its operation is done, neither the loaders nor the
   page in the store are older. *)
ToldReadsFresh ==
  \A w \in Writers :
    (w \in told \/ stage[w] = "done") =>
      /\ "tag" \in targets[w] => Visible >= change[w]
      /\ Readable(kv) /\ ~overtaken /\ ("tag" \in targets[w] \/ loaded = Off)
           => kv.page.made >= change[w]

(* "A failed write still answers with the page, and still hands it to
   concurrent misses": whoever waits for another's render has one to wait for,
   which answers all of them as it ends, however it ends. *)
WaitersHaveARender ==
  \A r \in Requests : pc[r] = "wait" =>
    \E q \in Requests : q = cold[at[r]] /\ at[q] = at[r] /\ pc[q] \in {"render", "store"}

(* The same of a request that is handed the page of a render it joins, as "so
   a writer reads its own write" (README.md) has it.  The code does not keep it:
   see Divergences in the README. *)
JoinedAnswersAreFresh ==
  [][\A r \in Requests :
       Answers(r) /\ pc[r] = "wait" /\ ~overtaken => made[cold[at[r]]] >= owed[r]]_pipelineVars
=============================================================================
