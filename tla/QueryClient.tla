---------------------------- MODULE QueryClient ----------------------------
(***************************************************************************)
(* The keyed query cache of the browser (packages/web/src/query.ts,        *)
(* createQueryClient): plain and paged queries, the fetches in flight for  *)
(* them, invalidation, and the visitor changes a client hears of when the  *)
(* identity epoch cookie is new.                                           *)
(*                                                                         *)
(* The code numbers generations, visitors and epochs; a fetch compares the *)
(* numbers it began under with those of the moment.  Only the outcomes of  *)
(* the comparisons are kept, so that nothing has to be counted.  What runs *)
(* between two awaits, and the microtask it queues, is one action.         *)
(*                                                                         *)
(* A fetch that comes back to another visitor awaits a reload, which may   *)
(* come back to yet another and await the next one.  Of the calls that     *)
(* wait for a fetch in this way two numbers are kept, of rejections: how   *)
(* many it takes, its own and those of the reloads that follow, until none *)
(* of them waits any more, and until none does that `reloading` counts.    *)
(***************************************************************************)
EXTENDS Naturals, Sequences, SequencesExt

CONSTANTS
  Plain,      \* keys queried with query()
  Paged,      \* keys queried with infiniteQuery()
  MaxPages,   \* pages after which getNextPageParam returns undefined
  MaxFlights, \* bound: fetches in flight when the application asks for more
  MaxWaits    \* bound: rejections a call may wait for then

ASSUME KindsAssumption == Plain \cap Paged = {}
ASSUME PagesAssumption == MaxPages \in Nat \ {0} /\ MaxFlights \in Nat
ASSUME WaitsAssumption == MaxWaits \in Nat

Queries == Plain \cup Paged

VARIABLES
  entries, \* the cache
  heard,   \* epoch = documentEpoch()
  final    \* lastFor = visitor

vars == <<entries, heard, final>>

(* What a page was read after and for: the last invalidation of its query or
   write to it, the present visitor - of whom the epoch in the cookie is, or
   one that was taken for theirs. *)
Page == [new: BOOLEAN, mine: BOOLEAN]
NewPage == [new |-> TRUE, mine |-> TRUE]
OldPage == [new |-> FALSE, mine |-> FALSE]

(* A fetch: what it will publish; generation = its own; it is what
   `promise` holds; its visitor is the present one, the one of `lastFor`,
   or another; run(_, forChange); and how many rejections end the last call
   that waits for it, and the last one that `reloading` counts. *)
Flight == [pages: Seq(Page), current: BOOLEAN, slot: BOOLEAN,
           seen: {"now", "final", "past"}, forChange: BOOLEAN,
           waiting: Nat, counted: Nat]

Entry == [status: {"pending", "success", "error"}, pages: Seq(Page),
          fetching: BOOLEAN, answered: BOOLEAN, invalidated: BOOLEAN,
          mounted: BOOLEAN, flights: Seq(Flight)]

Client == [entries: [Queries -> Entry], heard: BOOLEAN, final: BOOLEAN]
client == [entries |-> entries, heard |-> heard, final |-> final]
Becomes(c) == entries' = c.entries /\ heard' = c.heard /\ final' = c.final

Init ==
  /\ entries = [q \in Queries |->
       [status |-> "pending", pages |-> <<>>, fetching |-> FALSE,
        answered |-> FALSE, invalidated |-> FALSE, mounted |-> FALSE,
        flights |-> <<>>]]
  /\ heard = TRUE /\ final = FALSE

-----------------------------------------------------------------------------
(* Fetching *)

Each(s, Op(_)) == [i \in DOMAIN s |-> Op(s[i])]
Current(e) == \E i \in DOMAIN e.flights : e.flights[i].current

Larger(m, n) == IF m < n THEN n ELSE m
Awaited(f, waiting, counted) ==
  [f EXCEPT !.waiting = Larger(@, waiting), !.counted = Larger(@, counted)]
Start(e, pages, forChange, waiting, counted) ==
  [e EXCEPT
    !.fetching = TRUE,
    !.flights = Append(Each(@, LAMBDA f : [f EXCEPT !.slot = FALSE]),
      [pages |-> pages, current |-> TRUE, slot |-> TRUE, seen |-> "now",
       forChange |-> forChange, waiting |-> waiting, counted |-> counted])]

(* Mutant: any fetch in flight is joined. *)
LoadJoinsAny(e, pages, forChange, waiting, counted) ==
  IF e.flights # <<>>
  THEN [e EXCEPT !.flights = Each(@, LAMBDA f : Awaited(f, waiting, counted))]
  ELSE Start(e, pages, forChange, waiting, counted)
(* run() and runPaged(): join the fetch of this generation or start one. *)
Load(e, pages, forChange, waiting, counted) ==
  IF Current(e)
  THEN [e EXCEPT !.flights = Each(@, LAMBDA f :
          IF f.current THEN Awaited(f, waiting, counted) ELSE f)]
  ELSE Start(e, pages, forChange, waiting, counted)

(* reload(): every page that is loaded, or the first. *)
Reload(e, forChange, waiting, counted) ==
  Load(e, IF e.pages = <<>> THEN <<NewPage>> ELSE Each(e.pages, LAMBDA p : NewPage),
       forChange, waiting, counted)

-----------------------------------------------------------------------------
(* Visitors *)

Reloading(c) ==
  \E q \in Queries : \E i \in DOMAIN c.entries[q].flights :
    LET f == c.entries[q].flights[i] IN f.forChange \/ f.counted > 0

(* No longer of this generation: how old its pages are does not matter. *)
Superseded(f) == [f EXCEPT !.current = FALSE, !.pages = <<OldPage>>]
Outdated(f, wasFinal, last) ==
  [Superseded(f) EXCEPT
            !.seen = IF last THEN "past"
                     ELSE IF @ # "now" THEN @
                     ELSE IF wasFinal THEN "final" ELSE "past"]

(* Mutant: what nobody shows is left alone. *)
EmptiedIfMounted(e, wasFinal, last) ==
  IF e.mounted
  THEN [e EXCEPT !.status = "pending", !.pages = <<>>, !.fetching = FALSE,
            !.answered = FALSE, !.invalidated = TRUE,
            !.flights = Each(@, LAMBDA f : Outdated(f, wasFinal, last))]
  ELSE [e EXCEPT !.answered = FALSE,
            !.flights = Each(@, LAMBDA f : Outdated(f, wasFinal, last))]
Emptied(e, wasFinal, last) ==
  [e EXCEPT !.status = "pending", !.pages = <<>>, !.fetching = FALSE,
            !.answered = FALSE, !.invalidated = TRUE,
            !.flights = Each(@, LAMBDA f : Outdated(f, wasFinal, last))]

Forget(c, last) ==
  [entries |-> [q \in Queries |-> Emptied(c.entries[q], c.final, last)],
   heard |-> TRUE, final |-> last]

(* The reloads of mounted queries that follow it. *)
Tell(c, forChange) ==
  [c EXCEPT !.entries = [q \in Queries |->
     IF @[q].mounted THEN Reload(@[q], forChange, 0, 0) ELSE @[q]]]

(* Whether what the cache holds, and what may yet be published, is taken
   for the present visitor's. *)
Attributed(es, mine) ==
  LET Marked(pages) == Each(pages, LAMBDA p : [p EXCEPT !.mine = mine]) IN
  [q \in Queries |->
    [es[q] EXCEPT !.pages = Marked(@),
       !.flights = Each(@, LAMBDA f :
         IF f.current THEN [f EXCEPT !.pages = Marked(@)] ELSE f)]]

(* A new epoch while the reloads for the second change in a row run is the
   same visitor's. *)
Taken(c) == [c EXCEPT !.heard = TRUE, !.entries = Attributed(@, TRUE)]

(* checkEpoch: every read of the client. *)

(* Mutant: every new epoch is a change. *)
ForgetsAlways(c) == ~c.heard
Forgets(c) == ~c.heard /\ ~(Reloading(c) /\ c.final)
Checked(c) ==
  IF c.heard THEN c
  ELSE IF Forgets(c) THEN Forget(c, Reloading(c))
  ELSE Taken(c)

(* A read that does op to the entry of q, and the microtask it queued. *)
Reads(q, Op(_)) ==
  LET c == [Checked(client) EXCEPT !.entries[q] = Op(@)] IN
  Becomes(IF Forgets(client) THEN Tell(c, TRUE) ELSE c)

-----------------------------------------------------------------------------
(* Calls of the application *)

InFlight == FoldFunction(LAMBDA e, n : n + Len(e.flights), 0, entries)
Room(q) ==
  /\ InFlight < MaxFlights
  /\ \A k \in Queries : \A i \in DOMAIN entries[k].flights :
       entries[k].flights[i].waiting <= MaxWaits

ReadQuery(q) == Reads(q, LAMBDA e : e)

(* fetch() of a fresh entry does nothing. *)
Fetched(e) == Load(e, <<NewPage>>, FALSE, 0, 0)
MayBeFresh(e) == e.status = "success" /\ ~e.invalidated
Fetch(q) ==
  /\ Room(q)
  /\ \/ Reads(q, Fetched)
     \/ Reads(q, LAMBDA e : IF MayBeFresh(e) THEN e ELSE Fetched(e))

Refetch(q) == Room(q) /\ Reads(q, LAMBDA e : Reload(e, FALSE, 0, 0))

(* fetchNextPage and fetchPreviousPage: pages are kept in the order they
   were asked for. *)
WithPage(e) ==
  IF e.pages = <<>> THEN Fetched(e)
  ELSE IF Len(e.pages) = MaxPages THEN e
  ELSE Load(e, Append(e.pages, NewPage), FALSE, 0, 0)
FetchPage(q) == q \in Paged /\ Room(q) /\ Reads(q, WithPage)

SetQueryData(q) ==
  /\ q \in Plain
  /\ Reads(q, LAMBDA e :
       [e EXCEPT !.status = "success", !.pages = <<NewPage>>, !.fetching = FALSE,
                 !.invalidated = FALSE,
                 !.flights = Each(@, Superseded)])

(* invalidateQueries, and a live change. *)
Old(pages) == Each(pages, LAMBDA p : [p EXCEPT !.new = FALSE])
Invalidated(e) ==
  [e EXCEPT !.invalidated = TRUE, !.pages = Old(@),
            !.flights = Each(@, Superseded)]
Invalidate(q) ==
  /\ Room(q)
  /\ Reads(q, LAMBDA e : LET d == Invalidated(e) IN
                         IF d.mounted THEN Reload(d, FALSE, 0, 0) ELSE d)

ClearClient ==
  (\A q \in Queries : Room(q)) /\ Becomes(Tell(Forget(client, FALSE), FALSE))

(* A component binds the query, subscribes and fetches; it goes away. *)
Mount(q) ==
  /\ ~entries[q].mounted /\ Room(q)
  /\ \/ Reads(q, LAMBDA e : Fetched([e EXCEPT !.mounted = TRUE]))
     \/ Reads(q, LAMBDA e : IF MayBeFresh(e) THEN [e EXCEPT !.mounted = TRUE]
                            ELSE Fetched([e EXCEPT !.mounted = TRUE]))
Unmount(q) ==
  /\ entries[q].mounted
  /\ entries' = [entries EXCEPT ![q].mounted = FALSE]
  /\ UNCHANGED <<heard, final>>

-----------------------------------------------------------------------------
(* A fetch lands *)

Without(e, i) == [e EXCEPT !.flights = RemoveAt(@, i)]

(* again(), a visitor change while it loaded: the call answers as what was
   loaded since, or as a reload. *)
Busy(q, e) ==
  IF q \in Paged THEN Current(e) ELSE \E j \in DOMAIN e.flights : e.flights[j].slot
Answered(q, e) == ~Busy(q, e) /\ e.answered /\ ~e.invalidated /\ e.status # "pending"

(* What landed was awaited in the try, whose catch hears the reload be
   rejected and loads once more; what failed is awaited in the catch, and
   a rejection there is its own. *)
Tries(ok) == IF ok THEN 2 ELSE 1
(* Those that waited for the call wait until it rejects as well. *)
Through(n, ok) == IF n = 0 THEN Tries(ok) ELSE n + Tries(ok) - 1
Again(q, e, i, ok) ==
  LET f == e.flights[i] IN
  IF Answered(q, e) THEN Without(e, i)
  ELSE Reload(Without(e, i), TRUE, Through(f.waiting, ok),
              IF f.forChange \/ f.counted > 0 THEN Through(f.counted, ok) ELSE 0)

(* Fetch f was rejected, which left e: of the calls that wait for it, one
   whose catch hears it calls again() a second time.  The epoch it hears
   then is the one f has just heard. *)
Heard(n) == IF n = 0 THEN 0 ELSE n - 1
Rejected(q, e, f) ==
  IF f.waiting <= 1 \/ Answered(q, e) THEN e
  ELSE Reload(e, TRUE, Heard(f.waiting), Heard(f.counted))

Published(e, i) ==
  [Without(e, i) EXCEPT !.status = "success", !.pages = e.flights[i].pages,
     !.fetching = FALSE, !.answered = TRUE, !.invalidated = FALSE]
Failed(e, i) ==
  [Without(e, i) EXCEPT !.status = "error", !.fetching = FALSE, !.answered = TRUE]

(* Mutant: the generation is not compared. *)
SettledAnyway(q, e, i, ok) ==
  IF e.flights[i].seen # "now" THEN Again(q, e, i, ok)
  ELSE IF ok THEN Published(e, i)
  ELSE Rejected(q, Failed(e, i), e.flights[i])
Settled(q, e, i, ok) ==
  LET f == e.flights[i] IN
  IF f.seen # "now" THEN Again(q, e, i, ok)
  ELSE IF ok THEN IF f.current THEN Published(e, i) ELSE Without(e, i)
  ELSE Rejected(q, IF f.current THEN Failed(e, i) ELSE Without(e, i), f)

(* landed(): a reload for the change of `lastFor` takes any epoch. *)
Takes(f) == f.forChange /\ (f.seen = "final" \/ (f.seen = "now" /\ final))

Land(q, i, ok) ==
  LET takes == Takes(entries[q].flights[i])
      c == IF takes THEN Taken(client) ELSE Checked(client)
      d == [c EXCEPT !.entries[q] = Settled(q, @, i, ok)]
  IN Becomes(IF ~takes /\ Forgets(client) THEN Tell(d, TRUE) ELSE d)

Lands == \E q \in Queries : \E i \in DOMAIN entries[q].flights, ok \in BOOLEAN :
           Land(q, i, ok)

(* A response rotates the cookie, in this tab or another. *)
ChangeEpoch ==
  /\ InFlight <= MaxFlights
  /\ entries' = Attributed(entries, FALSE)
  /\ heard' = FALSE
  /\ UNCHANGED final

-----------------------------------------------------------------------------
ClientCalls ==
  \/ \E q \in Queries :
       \/ ReadQuery(q) \/ Fetch(q) \/ Refetch(q) \/ FetchPage(q) \/ SetQueryData(q)
       \/ Invalidate(q) \/ Mount(q) \/ Unmount(q)
  \/ ClearClient

Next == ClientCalls \/ Lands \/ ChangeEpoch

Spec == Init /\ [][Next]_vars

(* fn() settles. *)
FairSpec == Spec /\ WF_vars(Lands)

-----------------------------------------------------------------------------
(* Properties *)

TypeOK == client \in Client

(* "Discard this result rather than publishing pre-mutation data as fresh
   or clearing `invalidated`" (packages/web/src/query.ts:482): data that
   counts as fresh was asked for after the last invalidation, whatever
   fetches land in whatever order. *)
CountsAsFresh(e) == e.status = "success" /\ ~e.invalidated
AllNew(e) == \A i \in DOMAIN e.pages : e.pages[i].new
FreshAfterInvalidation ==
  \A q \in Plain : CountsAsFresh(entries[q]) => AllNew(entries[q])

(* The same of paged queries, every page of which an invalidation marks
   stale (packages/web/src/query.ts:156). *)
PagesFreshAfterInvalidation ==
  \A q \in Paged : CountsAsFresh(entries[q]) => AllNew(entries[q])

(* A page kept mounted for one visitor is never shown to the next: once a
   read has heard of the present epoch, nothing the cache holds was asked
   for under an earlier visitor's.  An epoch that comes while the reloads for
   a second change in a row run is no change of visitor: they "take any epoch
   during them as theirs" (packages/web/src/query.ts:1042), and what they had
   read by then with it. *)
ShownIsTheirs ==
  heard =>
    \A q \in Queries : \A i \in DOMAIN entries[q].pages : entries[q].pages[i].mine

(* A mounted query is never left waiting for nothing: while it is pending
   or says it is fetching, a fetch that may publish is in flight, and while
   one is, it says so. *)
MountedIsLoaded ==
  \A q \in Queries : entries[q].mounted =>
    /\ entries[q].fetching <=> Current(entries[q])
    /\ entries[q].status = "pending" => Current(entries[q])

(* "A server that rotates it on every response costs two reloads, never a
   loop" (packages/web/src/query.ts:1042): once the application asks for
   nothing more, the fetches come to an end, however often the epoch
   changes. *)
ReloadsEnd ==
  <>[][Lands \/ ChangeEpoch]_vars => <>[](\A q \in Queries : entries[q].flights = <<>>)
=============================================================================
