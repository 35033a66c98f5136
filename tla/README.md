# nifra: a TLA+ verification of the framework's coordination core

nifra is a TypeScript web framework: typed HTTP routing, server rendering, and a set of
packages for what a web application does besides answering requests (jobs, caches, sagas,
idempotency keys, agents). Most of it transforms data: routing, validation, rendering,
code generation. The part that is hard to get right, and that a unit test reaches only in
the order its author thought of, is the code that coordinates concurrent work over a store
that can be slow, fail, or be shared with another process. This directory models that part
in TLA+, checks it with TLC on small instances, and proves the properties that matter most
with TLAPS for instances of any size.

Paths below are relative to `packages/` of the repository.

## Inventory

### Modelled

| Component | State it keeps | Operations | What is hard | What makes it correct |
|---|---|---|---|---|
| **Job queue** `jobs/src/queue.ts`, `memory-store.ts` | store: record with attempt, runAt, leaseUntil, lease token; queue: timer, the lease() in flight, runs, holds | enqueue, lease, renew, complete, retry, deadLetter; poll, admit, begin, runOne, start, stop | two processes and one job; a lease that runs out under a live worker; a settle call that throws after it was applied; stop() racing a poll; a rolling deploy in which one process lacks a handler | a token speaks for one run; a worker that lost its lease cannot settle; no process runs one job twice; every job settles; stop() leaves nothing behind |
| **Durable sagas** `core/src/durable-saga.ts`, `effect-scope.ts` | saga record with state, steps, owner, lease, version | execute, resume, compensate, resolveAmbiguity | a crash between an effect and its record; a call that lost its lease while its step runs; failed compensations and their retries; reviews | no effect is started twice; rollback is in reverse order and complete; only the owner writes; what is in doubt stays visible |
| **Owned effects** `core/src/capabilities.ts` (`executeCapability`), `durable-effect.ts`, `durable-approval.ts` | effect record and version; approval record; the call's position | intent, authorize (ask or present a token), executing, committed, failed; decide, expire | a transition that rejects after it was applied, or is applied later; one resume token presented by two calls; a crash around the executor | an approval lets one call through; the journal neither denies an effect that began nor claims one that did not |
| **Request idempotency** `core/src/idempotency.ts`, `server/idempotency-lane.ts` | entries with reservation, fingerprint, response, expiry; per-tenant counts | begin, complete, abandon, renew, sweep; the gate's admit() | leases that lapse while a route runs; a deadline between the grant and the route; deciding between releasing a key and storing the answer; a full store | a key that guards an effect is not granted again; a stored answer stays; only live entries turn a request away; every key frees |
| **Cache** `cache/src/cache.ts`, `memory-cache.ts` | rows; fence epochs; loads in flight, withdrawn loads, writes on their way | wrap (load, join, background refresh), set, delete, invalidateTag, clear | a load that read before an invalidation and stores after it; a store that applies requests out of order; fences that remember only so many changes | after a change is answered, no load stores, and nobody joins, anything older |
| **Reconciliation worker** `core/src/reconciliation-worker.ts`, `internal/durable-shared.ts` | lease with holder and cursor; a run's page, handlers, next cursor | acquire, renew, scan, handle, checkpoint, release | processes that take over one sweep from each other in the middle of a page; records that appear and vanish; a failing handler with siblings running | no finding is skipped; the lease is not given away under running handlers; every sweep gets through |
| **Live refresh** `web/src/live/hub.ts`, `history.ts`, `revocations.ts`, `live.ts`, `live-client.ts` | the bus's log; each process's place in it, ring of changes, refusals and coalescing windows; the socket's topics; the tab's frame, reload, watches and delayed marks | publish, revokeKey, revokeAll, apply, flush, down, gap; prepareLoad, finish; install; reload, renew, poll, welcome, closed, onReady, onChanged | a load, its watch and the fan-out served by different processes that lag behind the log; a ring that forgets; a bus that resumes with a gap; sockets that come and go under a reload | no change is lost between a load and its watch; a grant is true of what is on screen; revoked access hears nothing |
| **Query client** `web/src/query.ts` | entries with data, flags and a generation; fetches in flight; visitor, epoch, reloads for a change | fetch, refetch, fetchNextPage, setQueryData, invalidateQueries, clear, subscribe; a fetch lands, fails, or loads again | a fetch begun before an invalidation or for another visitor lands after it; pages with one flag for all; an epoch that every response rotates | nothing stale counts as fresh; no data outlives its visitor; a mounted query is loaded or being loaded; reloads end |
| **Page cache and invalidation** `web/src/isr.ts` (`withISR`, `KVCacheStore`), `web/src/internal/invalidation.ts` | the namespace and what each location reads of it; cold renders and who waits for them, the regeneration of a page, the memo of private pages; an operation's stage, failure and retries | get, set, delete, invalidateTag; hit, stale hit, cold render, regenerate, withdraw; the stages in order, a failing stage, a retry, giving up | a page rendered before a purge and stored after it; a namespace that brings page and epochs to each location one by one; a call that times out and still takes effect; a stage that fails half-way | who knows of a purge is answered with what it promises; nobody is told to reload before what they reload is new; who waits for a render has one |
| **Admission control** `middleware/src/admission.ts` | inFlight, queue of waiters | admit, release, a waiter's timer and abort | handing a slot on while waiters time out and the policy uses reserved headroom | slots are neither lost nor doubled; headroom stays reserved; no waiter is forgotten |

How they interact: an idempotency key is reserved before a route runs and is settled by
what the route's effects did (`effect-scope.ts` leaves it the evidence of whether one
began); `executeCapability()` and the sagas order their transitions through the same
`effect-scope.ts`; the reconciliation worker sweeps the sagas and effects left unfinished
(`reconcileSagasPage()` and its siblings), which is why the sagas' property
`UnfinishedIsScanned` matters; admission control stands in front of all routes. They share
no mutable state but their stores, so each is modelled with its own. In the browser, live
refresh tells the query client of changed keys through `invalidateEntry()`, which the query
client's model has as `Invalidate`; the two share nothing else. An action's invalidation clears
the loaders' data cache, purges the page cache and publishes to live refresh, in this order;
`Invalidation` composes it with the page cache, the other two being a version and a message there.

### Not modelled

| Part | Why |
|---|---|
| Channel hub `core/src/channel.ts` | next on the plan |
| Cron scheduler `cron/src/scheduler.ts` | on the plan; small |
| Of the page cache: requests with cookies or credentials, drafts, signatures, cache keys | each decides before the cache is asked whether it is; `MemoryCacheStore` purges at once, what a CDN holds is the CDN's |
| TTLs of the namespace (`expirationTtl`) and epochs that expired | a page and its epochs are taken to last for the run; an entry that expires is a miss, and a path epoch outlives by its margin (`web/src/isr.ts:394`) the pages it guards |
| Idempotency middleware `middleware/src/idempotency.ts` | on the plan; a second implementation of begin, complete and release |
| Durable adapters `core/src/durable-adapters.ts` | Postgres, SQLite and Durable Object stores; each operation is one compare-and-set statement, which is what the models take a store operation to be |
| Agent runs, gateway, a2a | call the approval and effect protocol that is modelled; projections of events are pure |
| Rate limiting, deadlines (`budget.ts`) | one synchronous decision each; nothing interleaves |
| HTTP servers, proxy, client | transport and I/O of the runtime |
| Rendering, routing, build, schema, CLI | transformations of data |

## Modules

Each component has a module of its own, parameterised by CONSTANTS with named
assumptions; a second module where the store behind it is a component of its own; an
abstract specification where what it promises can be stated without its mechanism; an MC
module with the constants of its instances; and a `_proofs` module, which two components share
where they are two sides of one thing: the caches that share loads (`Caches_proofs`), and what
keeps a page true to the data (`Pages_proofs`).

```
JobStore ── JobQueue ── MCJobQueue        JobDelivery      (implemented by JobQueue)
                └────── JobQueue_proofs
DurableSaga ── MCDurableSaga              SagaOutcome      (implemented by DurableSaga)
     └──────── DurableSaga_proofs
Effects ── MCEffects                      EffectOutcome    (implemented by Effects)
     └──── Effects_proofs
Idempotency ── MCIdempotency, Idempotency_proofs
Admission ── MCAdmission, Admission_proofs
ReconciliationWorker ── MCReconciliationWorker, ReconciliationWorker_proofs
MemoryCache ── Cache ── MCCache
               QueryClient ── MCQueryClient
Cache, QueryClient ── Caches_proofs
LiveHub ── LiveRefresh ── MCLiveRefresh
KVPages ── PageCache ── Invalidation ── MCInvalidation
Invalidation, LiveRefresh ── Pages_proofs
```

The common convention: **every await is a boundary between two actions**. What runs
between two awaits is one action, with all the state changes of that stretch of code; an
action that stands at an await first says which operation it waits for (`pc`, `phase` or
the name of the call). A store operation takes place in one step, may throw with or
without having taken effect, and everything else may happen while it is awaited.

Definitions that begin with a comment "Mutant:" are not part of a model. Each is a
plausible bug, a changed form of the definition below it; they are there to show that
the property it is paired with in `PROJECT.json` really depends on that code.

**JobStore / JobQueue.** `JobStore` has the state and the operations of the `JobStore`
interface as `MemoryJobStore` implements it; `JobQueue` adds processes, each with one
`createQueue()`. lease() is asked for, served and answered in three actions (`Poll`,
`LeaseServed`, `Admit`), a settle in three as well (`HandlerEnds`, `SettleServed`,
`Release`). Time is a `Tick` that counts leases and delays down. A lease that runs out
while its process lives (a paused process, renewals that fail) counts as a lapse.
`JobDelivery` is what an enqueuer is promised: handled before completed, dead-lettered only
after all attempts failed or when the job cannot be run, settled once.

**DurableSaga.** One stored saga and the calls that work on it. A version grows with every
write, so a compareAndSet succeeds exactly if nobody wrote since: `fresh` holds the calls
whose copy is current, which is all that is kept of versions. The provider is modelled
too, `landed` and `undone` being what really happened. `run()` takes its steps one after
the other, and each call of `step()` may throw before it reads the record: the signal has
fired, or the deploy has no compensator for the step. `SagaOutcome` is the saga as its caller sees it.

**Effects.** A call of `executeCapability()` in the order that `createEffectScope().run()`
prescribes: intent, admission (with the approval), executing, the executor, committed; any
error leads to the catch block, which reads the record and settles it. A journal call that
rejects may leave its request under way (`sent`), which arrives at any later time or never.
A call stands for its effect id, and for the id of the approval it asks for.
`EffectOutcome` relates the record to what happened in the world.

**Idempotency.** `MemoryIdempotencyStore` and the gate's `admit()`. A request is used once;
a retry is another request with the same key. Handlers start their effects before they
settle. What a replay goes through before the stored response is sent is left out, as are
bodies and their serialisation.

**MemoryCache / Cache.** `MemoryCache` has the rows and the fence epochs; `Cache` the
instances of `createCache()`. The store is asynchronous: an operation takes place some time
after it is sent, in any order with others, and is answered as it takes place. A value is
the version of the data it was made from. Time is a choice: a row turns stale or expires at
any moment. `maxEntries` is 0 (nothing is evicted for room). A store without fences belongs
to one cache, as `cache/src/cache.ts` asks for.

**ReconciliationWorker.** Processes that run one worker. The clock is left out: a lease may
lapse at any moment, which counts as trouble when it is held by a run. `left` is history:
findings that were open all through a sweep, and that the cursor passed unhandled.

**LiveHub / LiveRefresh.** `LiveHub` is the server: one log of changes and revocations, the
processes that apply it each at its own pace, and the one socket of the tab. All a process
knows is the log up to `seen`, so its ring is the log's changes above `floor`, and its
refusals are those of the log. `LiveRefresh` composes it with the load endpoint and the tab:
a reload takes place in three steps (it reads the log's seq; its loaders read the data and a
grant is sealed; the tab applies it), each of which may see a different world. The copy an
owner shows is the last change it is as new as. Grants are bound to a socket id, which is
kept as its relation to the tab (`seed`, `local`, `current`, `gone`), since ids are random
and only ever compared. Frames and watches travel in order. The clock is left out: what
`wakeOf()` waits for may happen at any time once it is due. Subjects and viewer changes,
intercepted frames, idle limits and grant expiry are not modelled, and the Workers hub runs
this same hub behind a store.

**QueryClient.** `createQueryClient()`. A synchronous call and the microtask it queues are one
action; a fetch lands (resolves or rejects) in another. The code counts generations,
visitors and epochs and only ever compares the numbers, so a fetch keeps the outcome of the
comparison: is it of the current generation, and does it belong to the present visitor, to
the one of `lastFor`, or to another. A page remembers whether it was asked for after the last
invalidation, and for the visitor of the present epoch; an epoch that the client takes for the
same visitor's takes the pages it holds with it (`Taken`). What a superseded fetch brings is
not told apart, as it is not published. Staleness by age is a choice at each `fetch()`.

A fetch that comes back to another visitor awaits a reload (`again()`), which may come back to
yet another and await the next. Awaited in the `try`, a reload that is rejected lands in the
`catch`, where `again()` is called once more and starts another reload that `reloading` counts
(`query.ts:480` and 490 to 492, paged 858 and 865 to 867); awaited in the `catch`, its rejection is
the call's own. So each fetch carries two numbers of rejections: after how many none of the calls
that wait for it, through however many reloads, waits any more (`waiting`), and after how many
`reloading` counts none of them (`counted`). A fetch that ends otherwise ends them all. `Rejected`
is the second call of `again()`. Only the longest chain of waiting calls is kept, since the
others join the reload it starts.

`Mount` subscribes and fetches, as the components' bindings do. `useQuery` with `enabled: false`
subscribes and does not fetch: it stays idle, is documented to, and is outside `MountedIsLoaded`.

Left out: garbage collection and the cap on entries, dehydrate and hydrate, and mutations
that touch no query.

**KVPages / PageCache / Invalidation.** `KVPages` is `KVCacheStore` and the namespace behind it
(external): `kv` is what it holds, `view` what each location reads, which catches up name by name
(`Spread`) whenever it likes, and at once where the location wrote itself. set() takes two steps, as
it reads the epochs it stores the page under before it puts it. The clocks of all locations agree
and tell two moments apart, so an epoch is its place among the purges; a purge and a fence of one
millisecond are not told apart by the code, which then stores the page. `PageCache` is `withISR()`
of each location, with one page that has one tag. get() takes two steps, as the tag's epoch is read
last; that the page and the epoch of its path are read together is a simplification. A page is the
version of the data it was rendered from. Freshness, memos that run out, and renders that fail are
choices. A failed store call is lost, or goes on with nobody waiting for it. `Invalidation` is the
pipeline that an action runs before it answers. An operation that ends forgets its run, a request that is
answered what it held. `owed` and `covers` are history: what the purges promise, to whom.

**Admission.** The gate. `admit()`, `release()`, a timer and an abort listener each run to
the end without yielding, so each is one action; the policy's verdict and the event loop's
lag are choices at each arrival.

## What is checked

| Run | Instance | Shows |
|---|---|---|
| `jobs_fencing` | 2 processes of 2 slots, 1 job of 1 or 2 attempts, retried at once; one process lacks a handler; 2 faults of different kinds (a lapse, a crash, a failing call, a stop()) | tokens fence the settles (`NeverSettledUnderRunner`); a process never has two runs of one job (`OneRunPerQueue`); without a lapse nobody handles a job twice (`ExclusiveWhileRenewed`, `AttemptLeftWhileRenewed`); `JobQueue` implements `JobDelivery` (`Delivers`); each job settles; stop() resolves and leaves nothing behind |
| `saga_rollback` | 2 calls at a time, 2 steps, 2 attempts a compensation; 1 crash, 1 failing store call, 1 abort | effects are not repeated, a step in doubt stays in the states that are scanned, one handler at a time, bounded compensations, only the owner writes; `DurableSaga` implements `SagaOutcome` |
| `saga_recovery` | 2 calls, 2 steps, `run()` catches errors, a retired compensator; 1 crash | a saga that somebody keeps calling settles |
| `admission` | 6 requests, 2 slots, 1 reserved, queue of 2 | slots are exact, the headroom stays reserved, no idle slot, waiters are served |
| `idempotency` | 2 requests, 2 keys, 2 bodies, 1 tenant with room for 1 entry; 1 failing call, 1 crash | a key with an effect is not granted again, answers are kept, capacity is real, keys free |
| `cache_loads` | 3 calls of any method, 1 unfenced cache or 2 fenced ones, 1 key, 2 tags, 1 change of the data, 1 failure, the fence remembers 1 change of each kind | no load stores or hands on anything older than an answered change |
| `reconciliation` | 2 processes, 4 records of which the filter selects 3, pages of 2, limits of 1 and 2 pages; 1 trouble | no finding is left, handlers hold the lease, sweeps finish |
| `effects` | 3 calls, 2 bindings; 1 rejected store call; any number of crashes | approvals are spent once; `Effects` implements `EffectOutcome` |
| `live_refresh` | 2 processes, a layout and a page, 2 events of any kind, a ring of 1 change; 1 fault (lost connection, refused load, bus down, gap) | nothing is missed while a watch is in force, grants are true of what is on screen, revoked keys hear nothing |
| `live_stranded` | 1 process, 1 key, as above | **violation**: see Findings |
| `query` | a plain query and a paged one of 2 pages, 2 fetches in flight when another is asked for, any number of epochs | what counts as fresh is as new as the last invalidation, what is shown is the visitor's, a mounted query is loaded, reloads end |
| `pages` | 2 locations, 2 requests, 1 action that names the page by its path, or by path and tag; pages that stay, are withdrawn or become public; 1 trouble: a call that fails, or a request at the other location | requests are answered with what the purges known to their location promise (`AnswersAreFresh`), loaders and store are new before live pages hear of a change (`ToldReadsFresh`), nobody waits for a render that has ended (`WaitersHaveARender`) |

### Bounds, and why they are enough

All bounds stand in guards, never in a state constraint, so that liveness is checked on
complete behaviours. They are of two kinds.

*Sizes.* The hazards are about two actors and one piece of state: two holders of one lease,
two requests for one key, two presenters of one token. Two processes and one record are the
smallest instance in which all of them occur. Three calls are used where the third is the
one that finds the damage (a load, a change, and a reader; an approval's owner and two who
present it). The sizes in which a boundary matters are chosen to hit it: a fence that
remembers one change, a tenant with room for one entry, a queue of two, pages of two over
three findings; a ring of one change under a log of two.

`MaxFlights` in `QueryClient` bounds the fetches in flight when the application asks for
more, not the reloads the client starts by itself; epochs are not bounded at all, since the
model keeps how a number compares and not the number. Two fetches are what it takes for one
to be superseded by another. `MaxWaits` bounds in the same way the rejections a call may wait
for when the application asks for more; chains of reloads go past it.

In `pages` the two requests arrive at one location, and one of them at the other in the runs in
which no call fails; the action runs at either. That is enough for a page that one location
stores and another reads, and for a purge that either hears of late.

*Trouble.* Each lapse, crash and failing call is counted, and one of each is allowed (in
`jobs_fencing` any two of the four kinds). One is enough to reach each error path, and
different kinds combine within a run. That no
number of them breaks a property is what the proofs are for: none of them uses a bound.

Where TLC's instance is small in another way, the proof covers the rest: requests that fill
an idempotency store of more than one entry, queues of any length, any number of pages.
`saga_recovery` has one attempt a compensation, so liveness across retries is not checked;
the retries themselves are, for safety, in `saga_rollback`.

### Fairness

Fairness is stated of nothing that goes wrong: no lapse, crash, failure, abort or decision
has to happen, and only the following are assumed to.

- *Awaited calls are answered and user code settles.* Weak fairness of each process's own
  steps. A promise that never settles stops any of these programs, and their docs ask for
  handlers that honour their signal.
- *Timers fire.* `setInterval(poll)`, heartbeats and the clock: weak fairness of `Poll`,
  `Renew`, `Tick` and `Expire`.
- *Jobs*: a crashed process is started again (`Start`): otherwise nobody is left to run a
  job.
- *Sagas*: somebody keeps calling `resume()` for a running saga and `compensate()` for one
  that is rolling back (strong fairness, because each call makes the next one impossible
  while it holds the lease), as `reconcileSagas()` exists to do; and eventually no step
  outlasts `leaseMs`, which its documentation requires ("longer than any one step should
  run"). Without the latter, calls may take the saga over from each other forever.
- *Reconciliation*: the worker is run again and again, by someone.
- *Admission*: handlers release their slots. Waiters' timers are not relied on, and
  `WaitersAreServed` speaks of behaviours in which the policy admits finitely often: a
  policy may keep the gate above its limit for as long as it likes.
- *Query client*: `fn()` settles: weak fairness of `Lands`. The epoch may change whenever it
  likes; `ReloadsEnd` asks for nothing but that the application stops calling.
- *Live refresh* states no fairness: what it must eventually do hangs on timers the model
  has no clock for. `NothingMissed` says instead that in every state a reload is on its way.
- *Pages* states none: a purge that never reaches a location is allowed, as is an operation
  that dies with its process.
- *Idempotency*: heartbeats need not be on time, and nobody need call `sweep()`.

Runs without liveness properties use the bare specification, and a system whose calls are
all used up may stop: those runs do not check for deadlock. `reconciliation` does.

## What is proved

All theorems are about the same modules that TLC checks, for every value of the constants
that satisfies the named assumptions: any number of processes, calls, keys and records, and
any number of lapses, crashes and failures.

| Module | Theorems | Inductive invariant |
|---|---|---|
| `JobQueue_proofs` | `TypeCorrect`, `Fencing`, `NeverTwiceOnOneQueue`, `NotSettledUnderItsRunner`, `RenewedLeasesExclude`, `StoppedQueuesAreIdle`, `NeverMoreThanItsSlots`, `QueuedJobsHaveAttempts`, `PromisesAreKept` | `TokenInv`: a token has been issued, is in one reply or one run, and a settle call that carries it comes from a run that has stopped handling. `OneRunPerToken` alone is not inductive: a reply not yet admitted would bring a second run with the same token. `RenewInv` adds, while nothing has lapsed, that whoever was given a job has its current token and the job is hidden; `AttemptInv`, on top of it, that the job's attempts are those its runs count. `SlotsFit`: the runs of a process and the reply it has yet to admit fit its slots. `PromiseInv`: every settle call under way is justified by what handlers did (`JobDelivery`'s guards), and stays so, as returns and throws are never taken back. `PromisesAreKept` is the whole refinement of `JobDelivery`. |
| `DurableSaga_proofs` | `TypeCorrect`, `EffectsStartOnce`, `CompensationsAreBounded`, `OnlyTheOwnerEverWrites`, `OneHandlerAtATime`, `SagasKeepTheirPromise`, `UnfinishedIsAlwaysScanned` | `Once` ties the history of an effect to the record and to the positions of the calls: a call about to record an intent with a current copy finds the step unrecorded; a step whose intent is recorded and whose effect is still to begin belongs to one call; and an unrecorded step has neither begun nor been undone. `Bounded`: compensators are called no more often than the record counts. `Owned`: a call with a current copy past its claim is the owner. `OneActive`: while a call is at the provider, no other is, its step is the only one in doubt, and whoever owns the saga by now is reading or about to find that step. `InStep`: an unbegun or failed step has no effect and one that counts as committed has (`Honest`); nothing precedes a step in doubt but committed steps and nothing follows one being undone but steps that are over (`Ordered`); and a call knows as much, as owner, by a current copy, or by what it did itself. The last three theorems ask for `~Fallbacks`, that is, a `run()` that passes on the error of a step. With one that catches it, and a store that fails as the failure is recorded or a deploy that lacks the step's compensator, the saga goes past a step in doubt (Divergences). |
| `Effects_proofs` | `TypeCorrect`, `ApprovalsAreAlwaysSpentOnce`, `JournalIsTruthful` | `Spent`: an approval exists only once the call that asked for it has ended, and a grant has used it up. `Truth`: the position of a call that goes on determines its record (`Agrees`), the record is true of the effect (`Truthful`), and a request under way comes from a call that has ended and stays true until it arrives (`Justified`); there is one settling request at most. `JournalIsTruthful` is the whole refinement of `EffectOutcome`. |
| `Idempotency_proofs` | `TypeCorrect`, `NamespacesAlwaysExact`, `GrantsAreAlwaysSafe`, `CapacityIsAlwaysReal`, `AnswersAreAlwaysKept` | `Exact`: the counts kept by hand are those of the entries; the type invariant (no count below zero) needs it. `Guarded`: a key that guards an effect is held by a live entry, of the request that began the effect or with its response. |
| `ReconciliationWorker_proofs` | `TypeCorrect`, `HandlersAlwaysHoldTheLease`, `NothingIsEverLeft` | `SweepInv`: what the sweep owes lies beyond the cursor, and what lies between the cursor and a run's next one is in its page, handled or about to be. It rests on `PageIsCut` and `WholePage`: a keyset page is what lies up to its last id. |
| `Admission_proofs` | `TypeCorrect`, `SlotsAreAlwaysHeld`, `AlwaysWithinCapacity`, `NeverAnIdleSlot`, `QueueAlwaysExact`, `HeadroomStaysReserved` | The conjunction of the invariants: a slot handed to the head of the queue goes to somebody new only because the queue is exact. |
| `Caches_proofs`, the cache | `CacheTypeCorrect`, `StoredLoadsAreFresh`, `JoinedLoadsAreFresh` | `CacheInv`. `Table`: `inflight` holds the one load of a key that no change has withdrawn. `HomeFresh`: what such a load may yet store is as new as all its cache has answered. That is inductive only with `Newer`, which says it of the changes still under way: each load that one covers is as new as the change, or was withdrawn before it stores, or is among the writes the change waits for. `OutrunOrFresh` is for the other caches over a store with a fence: a load's token has been outrun, or its value is fresh for all of them. It needs `RecordKeeps` and `StoreMoves`: what `MAX_TRACKED_CHANGES` makes the store forget, it remembers as `forgottenAt`, so a token once outrun stays so, though the fence keeps but one change. |
| `Caches_proofs`, the query client | `ClientTypeCorrect`, `AlwaysFreshAfterInvalidation`, `ShownIsAlwaysTheirs`, `MountedIsAlwaysLoaded` | One invariant of an entry. `Sound`: one fetch at most may publish, it is of the present visitor and was begun after the last invalidation, and the entry says that it is fetching. `Kept`: a mounted one waits for nothing but such a fetch. A step that forgets the visitor passes through states in which entries are only sound, which is why there are two. |
| `Pages_proofs`, the pages | `PipelineTypeCorrect`, `WaitersAreRenderedFor`, `PromisesAreKept`, `ToldClientsReadFresh` | `PipelineInv`. An epoch `e` of a name *seals* a version of the data (`SealedAt`) if every page made of older data, be it stored, in a location's view, in a put on its way or still under the fence of a set(), has an epoch of that name below `e`: it is not read under `e`, and no render under way will bring one that is. A seal is never broken (`SealedStays`), because a render begun later reads newer data and one begun earlier carries an older fence, and a purge's epoch seals all there is (`NextEpochSeals`, by `Clocked`). `EpochsSealed` says it of every epoch anywhere with the version it `covers`; `OperationsSeal` of an operation past its page stages with its change, under each name it purged, a purge on its way included; `RequestsOwed` of a request with what it was promised, by the path's epoch or by the tag's until it has read the page, and by the tag's alone while it awaits that. `ChangesVisible`: past its data stage, loaders read an operation's change. `ColdOnes`: who renders for others is rendering or storing. Freshness alone is not inductive: it speaks of pages that can be read now, and nothing in it says that a page on its way will not be readable later. |
| `Pages_proofs`, live refresh | `LiveTypeCorrect`, `ChangesReachThePage`, `GrantsAreAlwaysTrue`, `NeverHeldWhenRevoked` | `SocketInv`: a hub drops a socket once, and nothing is bound to one that is gone. `GrantInv` and `LoadInv`: the copies on screen, and those of the load in flight, are as new as the grant beside them says, and nothing in it was revoked meanwhile. `WatchInv`: the watch of a frame on screen is on its way (`Asked`), answered (`AnsweredAt`) or in force (`InForce`), and each key is then marked in the tab, named in a frame ahead, or a topic of a socket whose process has its last change before it. That a change is never lost holds only of the whole path; no part of it is inductive. |

The assumptions are those the modules state of their constants (counts are naturals, null
values are none of the things they stand in for, sets that are counted are finite); TLC
evaluates them in every run. Those of the pages are of this kind: an empty or switched-off data
cache is no version (`MarkersAssumption`), a location's regeneration is no request and nobody is
no render (`RendersAssumption`), operations are not renders (`WritersAssumption`), and they are
those that concern the page: each names its path or its tag (`TargetsAssumption`).

### Only model-checked

- Liveness (`EveryJobSettles`, `StopResolves`, `SagaSettles`, `WaitersAreServed`,
  `KeysFree`, `SweepsFinish`, `ReloadsEnd`): leads-to under fairness needs ENABLED, which is
  beyond this prover.
- `~overtaken`, under which `AnswersAreFresh` and `ToldReadsFresh` are stated and proved, is no
  consequence of anything: the code does let an older epoch be put last (Divergences).

The other way round, the type invariants and `WithinCapacity` are proved and no longer among the
runs' properties. The inductive invariants of the cache and of the pages were checked by TLC on
the runs' instances before they were proved, that of the pages also along simulated behaviours of
two operations, three requests and two changes.

## Findings

- **`live_stranded`**: a load that is bound to no socket, or to the last one, may be in flight
  when the next socket is welcomed. `reconcile()` marks the frame on screen for a load and
  remembers the socket as `tried`; the answer in flight then makes a new frame without the
  mark, whose grant is bound to another id. It is not watched, not due for a load and not
  polled until the socket closes. `web/src/live-client.ts:160` says such a frame "gets one
  load for one under each socket; after that it polls".

`PROJECT.json` quotes the lines.

### Divergences

Found by the models, reproducible by hand, and not among the runs:

- `tlc -config MCCache_writes.cfg MCCache` violates `WritesStayFresh`: `after()` waits for the
  writes already on their way, but not for a set() that waits itself. A delete() called
  meanwhile is sent together with it, and a store that applies requests out of order may
  apply the older set() last (`cache/src/cache.ts:147`, against the comment at line 122).
- `tlc -config MCDurableSaga_review.cfg MCDurableSaga` violates `UnfinishedIsScanned`: when the
  store fails as a failed step is recorded, the error is swallowed because "Reconciliation
  sees the unfinished durable state" (`core/src/effect-scope.ts:255`); if `run()` goes on
  without the step, the saga is saved as completed with the step still executing, in a state
  that reconciliation does not scan (`core/src/durable-saga.ts:592`).
- `tlc -config MCDurableSaga_retired.cfg MCDurableSaga` reaches such a saga without any failing
  call: a process dies as a step executes, and a deploy that no longer has the step's compensator
  resumes the saga. `step()` throws before it reads the record (`core/src/durable-saga.ts:504`),
  so the step is not put up for review as by a deploy that has the compensator; `run()` catches
  the TypeError and returns, and line 593 saves the saga as completed. A signal that has fired by
  the time the step is called throws at line 500, to the same effect. `UnfinishedIsScanned` is
  therefore checked and proved of sagas whose `run()` passes on what its steps throw.
- A run that is adopted under a new lease goes on counting from the attempt it was first
  leased with, so a job whose stored attempts reach `maxAttempts` is retried once more.
  `jobs/src/types.ts` says "Total attempts before dead-lettering". It takes two queues over
  one store and renewals that fail for a whole lease. `AttemptLeftWhileRenewed` is the part
  that does hold: it speaks of runs without a lapse, and says nothing of this retry.
- `tlc -config MCQueryClient_pages.cfg MCQueryClient` violates `PagesFreshAfterInvalidation`:
  `fetchNextPage()` keeps the pages it has and clears `invalidated` (`web/src/query.ts:860`). On a
  paged query that was invalidated and not refetched since (nobody showed it, or the refetch
  failed), the old pages count as fresh for a whole `staleTime`; line 156 says of
  `invalidateQueries`: "Mark matching cached queries, infinite ones included, stale".
- `tlc -config MCInvalidation_joins.cfg MCInvalidation` violates `JoinedAnswersAreFresh`: a request
  that misses because of a purge may join a cold render that began before it (`coldRenders`,
  `web/src/isr.ts:1334`, which a purge leaves alone), and is handed the page of before. The store
  refuses that page, the request does not; the repository's README (line 132) has the purges in
  order "so a writer reads its own write".
- A purge writes its epoch whatever is there (`KVCacheStore.delete()`, `web/src/isr.ts:539`): of two
  purges of one page, or of one that timed out and its retry, the older may be put last. A render
  that began between them is then stored, and a page stored under the older epoch reads as
  current again, although `set` is said to refuse "a render begun before the purge". The
  properties of `Invalidation` exempt it (`overtaken`).
- `landed()` (`web/src/query.ts:1056`) compares a reload's visitor with `lastFor` alone. The
  reload of the second of two changes in a row that lands after `clear()` takes an epoch
  that came since as its own, and the cache keeps what it holds. `ShownIsTheirs` exempts it, as
  it does what the comment at line 1042 allows: `Taken` attributes what is held to that epoch.

## Plan

Done, in this order: jobs, sagas, admission, idempotency, cache, reconciliation, effects,
live refresh, the query client, the page cache with its invalidation, with their runs; and the
proofs of all their safety properties.

To extend the model:

1. Durable sagas whose `run()` starts several steps at once: `compareAndSet` then fails
   between steps of one call.
2. `ChannelHub`: publish, bounded queues, resume from a cursor, close on backpressure;
   abstractly, each subscriber reads a gapless part of one log. Two subscribers, histories
   of two, four events.
3. `MemoryCacheStore` and its fences under `PageCache`, against the same properties; two
   operations at once, once an epoch cannot be put over a later one.
4. The idempotency middleware, against the same properties as the lane.
5. `CronScheduler`: at most one firing a minute, no overlap.
6. The job queue's process()/drain(), which share slots with start().

To prove more: every safety property and action property that a run expects to hold is proved, so
what is added to the models is to be proved with them. Next are two operations whose purges cannot
overtake one another, for which the properties should hold without `~overtaken`, and the sagas that start
several steps at once, for which `OneActive` is to become a statement about each step.
