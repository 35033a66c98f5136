------------------------------ MODULE JobQueue ------------------------------
(***************************************************************************)
(* The queue of @nifrajs/jobs (packages/jobs/src/queue.ts): a set of       *)
(* processes, each with one createQueue() over the same JobStore, polling  *)
(* for due jobs and running them with bounded concurrency.                 *)
(*                                                                         *)
(* Every await on the store is split at the await: lease() is asked for,   *)
(* served by the store and answered in three steps, and complete / retry / *)
(* deadLetter are issued, applied and answered in three, so everything     *)
(* else may happen in between - a poll, a tick, a crash, another process   *)
(* taking the job over.                                                    *)
(***************************************************************************)
EXTENDS JobStore

CONSTANTS
  Workers,     \* processes, each with a queue over the shared store
  Defs,        \* Defs[w]: the names process w has define()d
  Concurrency, \* WorkerOptions.concurrency
  MaxLapses,   \* bound: leases that run out while their process is alive
  MaxCrashes,  \* bound: process crashes
  MaxFailures, \* bound: store calls that throw
  MaxStops,    \* bound: graceful stop() calls
  MaxFaults    \* bound: all of these together

ASSUME DefsAssumption == Defs \in [Workers -> SUBSET Names]
ASSUME ConcurrencyAssumption == Concurrency \in Nat \ {0}
ASSUME BoundsAssumption ==
  /\ MaxLapses \in Nat
  /\ MaxCrashes \in Nat
  /\ MaxFailures \in Nat
  /\ MaxStops \in Nat
  /\ MaxFaults \in Nat

VARIABLES
  timer,    \* "on" while setInterval(poll) is armed, "stopping" inside stop()
  leasing,  \* the one lease() call in flight: "called", "replied" or "none"
  free,     \* its limit: the slots free when it was issued
  grant,    \* its reply: the token of each leased job
  prior,    \* its reply: the attempt count of each leased job
  runs,     \* `running`: the runs of each process, with their Hold
  holds,    \* `holds`: for each job, the id of the run holding it
  calls,    \* settle calls on their way to the store
  returned, \* history: jobs whose handler has returned
  thrown,   \* history: how often each job's handler has thrown
  unusable, \* history: jobs with no handler or a non-finite backoff
  lapses, crashes, failures, stops

workerVars == <<timer, leasing, free, grant, prior, runs, holds, calls>>
historyVars == <<returned, thrown, unusable>>
boundVars == <<lapses, crashes, failures, stops>>
vars == <<storeVars, workerVars, historyVars, boundVars>>

NoRun == 0

Faults == lapses + crashes + failures + stops

(* A run is named by the token it began under: tokens are never reused. *)
Run == [id: Nat \ {0}, job: Job, attempt: Nat, lease: Nat \ {0},
        phase: {"handler", "settling", "answered"}]

Call == [run: Nat \ {0}, job: Job, lease: Nat \ {0},
         op: {"complete", "retry", "deadLetter"}, delay: 0..MaxDelay]

CallOf(r, op, d) ==
  [run |-> r.id, job |-> r.job, lease |-> r.lease, op |-> op, delay |-> d]

TypeOK ==
  /\ StoreTypeOK
  /\ timer \in [Workers -> {"on", "stopping", "off"}]
  /\ leasing \in [Workers -> {"none", "called", "replied"}]
  /\ free \in [Workers -> Nat]
  /\ grant \in [Workers -> [Job -> Nat]]
  /\ prior \in [Workers -> [Job -> Nat]]
  /\ runs \in [Workers -> SUBSET Run]
  /\ holds \in [Workers -> [Job -> Nat]]
  /\ calls \subseteq Call
  /\ returned \subseteq Job
  /\ thrown \in [Job -> Nat]
  /\ unusable \subseteq Job
  /\ lapses \in 0..MaxLapses
  /\ crashes \in 0..MaxCrashes
  /\ failures \in 0..MaxFailures
  /\ stops \in 0..MaxStops

NoGrant == [j \in Job |-> NoLease]

Init ==
  /\ StoreInit
  /\ timer = [w \in Workers |-> "on"]
  /\ leasing = [w \in Workers |-> "none"]
  /\ free = [w \in Workers |-> 0]
  /\ grant = [w \in Workers |-> NoGrant]
  /\ prior = [w \in Workers |-> [j \in Job |-> 0]]
  /\ runs = [w \in Workers |-> {}]
  /\ holds = [w \in Workers |-> [j \in Job |-> NoRun]]
  /\ calls = {}
  /\ returned = {}
  /\ thrown = [j \in Job |-> 0]
  /\ unusable = {}
  /\ lapses = 0 /\ crashes = 0 /\ failures = 0 /\ stops = 0

-----------------------------------------------------------------------------
(* Producers *)

Enqueue(w, n, d) ==
  /\ n \in Defs[w]
  /\ StoreEnqueue(n, d)
  /\ UNCHANGED <<workerVars, historyVars, boundVars>>

-----------------------------------------------------------------------------
(* admit(): one lease() at a time, sized to the slots free when it starts *)

Poll(w) ==
  /\ timer[w] = "on"
  /\ leasing[w] = "none"
  /\ Cardinality(runs[w]) < Concurrency
  /\ leasing' = [leasing EXCEPT ![w] = "called"]
  /\ free' = [free EXCEPT ![w] = Concurrency - Cardinality(runs[w])]
  /\ UNCHANGED <<storeVars, timer, grant, prior, runs, holds, calls,
                 historyVars, boundVars>>

LeaseServed(w) ==
  /\ leasing[w] = "called"
  /\ StoreLease(free[w])
  /\ leasing' = [leasing EXCEPT ![w] = "replied"]
  /\ grant' = [grant EXCEPT ![w] = [j \in Job |-> Token(free[w], j)]]
  /\ prior' = [prior EXCEPT ![w] =
                 [j \in Job |-> IF j \in Leased(free[w]) THEN attempt[j] ELSE 0]]
  /\ UNCHANGED <<timer, free, runs, holds, calls, historyVars, boundVars>>

NoReply(w) ==
  /\ leasing' = [leasing EXCEPT ![w] = "none"]
  /\ free' = [free EXCEPT ![w] = 0]
  /\ grant' = [grant EXCEPT ![w] = NoGrant]
  /\ prior' = [prior EXCEPT ![w] = [j \in Job |-> 0]]

(* store.lease() rejects, before or after it took effect in the store. *)
LeaseFails(w) ==
  /\ leasing[w] # "none"
  /\ failures < MaxFailures /\ Faults < MaxFaults
  /\ failures' = failures + 1
  /\ NoReply(w)
  /\ UNCHANGED <<storeVars, timer, runs, holds, calls, historyVars,
                 lapses, crashes, stops>>

(* The loop over the reply: a job still held here only changes the lease
   of its Hold, every other one begins a run.  A run without a definition
   goes straight to deadLetter. *)
Adopts(w, r) == grant[w][r.job] # NoLease /\ holds[w][r.job] = r.id
(* Mutant: every leased job begins a run. *)
StartedEvenIfHeld(w) == {j \in Job : grant[w][j] # NoLease}
Started(w) == {j \in Job : grant[w][j] # NoLease /\ holds[w][j] = NoRun}

Begun(w, j) ==
  [id |-> grant[w][j], job |-> j, attempt |-> prior[w][j],
   lease |-> grant[w][j],
   phase |-> IF jobName[j] \in Defs[w] THEN "handler" ELSE "settling"]

Undefined(w) == {j \in Started(w) : jobName[j] \notin Defs[w]}

Adopt(w, r) ==
  IF Adopts(w, r) THEN [r EXCEPT !.lease = grant[w][r.job]] ELSE r

Admit(w) ==
  /\ leasing[w] = "replied"
  /\ runs' = [runs EXCEPT ![w] =
                {Adopt(w, r) : r \in runs[w]}
                  \cup {Begun(w, j) : j \in Started(w)}]
  /\ holds' = [holds EXCEPT ![w] =
                 [j \in Job |-> IF j \in Started(w) THEN grant[w][j]
                                                    ELSE holds[w][j]]]
  /\ calls' = calls \cup
       {CallOf(Begun(w, j), "deadLetter", 0) : j \in Undefined(w)}
  /\ unusable' = unusable \cup Undefined(w)
  /\ NoReply(w)
  /\ UNCHANGED <<storeVars, timer, returned, thrown, boundVars>>

-----------------------------------------------------------------------------
(* runOne() and attemptJob() *)

(* The run issues its settle call under the lease its Hold has now. *)
Settle(w, r, op, d) ==
  /\ runs' = [runs EXCEPT ![w] = (@ \ {r}) \cup {[r EXCEPT !.phase = "settling"]}]
  /\ calls' = calls \cup {CallOf(r, op, d)}
  /\ UNCHANGED <<storeVars, timer, leasing, free, grant, prior, holds, boundVars>>

HandlerReturns(w, r) ==
  /\ r.phase = "handler"
  /\ Settle(w, r, "complete", 0)
  /\ returned' = returned \cup {r.job}
  /\ UNCHANGED <<thrown, unusable>>

(* Mutants: attempts counted from 0, and the last attempt given away. *)
LastAttemptOneLate(r) == r.attempt >= MaxAttempts[jobName[r.job]]
LastAttemptOneEarly(r) == r.attempt + 2 >= MaxAttempts[jobName[r.job]]
LastAttempt(r) == r.attempt + 1 >= MaxAttempts[jobName[r.job]]

(* A throw, a rejection or a JobTimeoutError with attempts left. *)
HandlerThrowsAndRetries(w, r, d) ==
  /\ r.phase = "handler"
  /\ ~LastAttempt(r)
  /\ Settle(w, r, "retry", d)
  /\ thrown' = [thrown EXCEPT ![r.job] = @ + 1]
  /\ UNCHANGED <<returned, unusable>>

(* A throw on the last attempt, or one whose backoff is NaN or Infinity. *)
HandlerThrowsForGood(w, r) ==
  /\ r.phase = "handler"
  /\ Settle(w, r, "deadLetter", 0)
  /\ thrown' = [thrown EXCEPT ![r.job] = @ + 1]
  /\ unusable' = IF LastAttempt(r) THEN unusable ELSE unusable \cup {r.job}
  /\ UNCHANGED returned

(* The heartbeat: renew under the Hold's lease until the run settles. *)
Renew(w, r) ==
  /\ r.phase # "answered"
  /\ jobName[r.job] \in Defs[w]
  /\ StoreRenew(r.job, r.lease)
  /\ UNCHANGED <<workerVars, historyVars, boundVars>>

(* The store's answer resolves or rejects the await of the run, if its
   process still runs it. *)
Answer(c) ==
  /\ calls' = calls \ {c}
  /\ runs' = [w \in Workers |->
               {IF r.id = c.run THEN [r EXCEPT !.phase = "answered"] ELSE r :
                  r \in runs[w]}]
  /\ UNCHANGED <<timer, leasing, free, grant, prior, holds, historyVars>>

SettleServed(c) ==
  /\ \/ c.op = "complete" /\ StoreRemove(c.job, c.lease, "completed")
     \/ c.op = "deadLetter" /\ StoreRemove(c.job, c.lease, "dead")
     \/ c.op = "retry" /\ StoreRetry(c.job, c.lease, c.delay)
     \/ Ignored(c.job, c.lease)
  /\ Answer(c)
  /\ UNCHANGED boundVars

SettleFails(c) ==
  /\ failures < MaxFailures /\ Faults < MaxFaults
  /\ failures' = failures + 1
  /\ Answer(c)
  /\ UNCHANGED <<storeVars, lapses, crashes, stops>>

(* begin()'s release: the slot frees, and the hold if it is still ours. *)

(* Mutant: the run never leaves `running`. *)
ReleaseKeepsSlot(w, r) ==
  /\ r.phase = "answered"
  /\ holds' = [holds EXCEPT ![w][r.job] = IF @ = r.id THEN NoRun ELSE @]
  /\ UNCHANGED <<storeVars, timer, leasing, free, grant, prior, runs, calls,
                 historyVars, boundVars>>
Release(w, r) ==
  /\ r.phase = "answered"
  /\ runs' = [runs EXCEPT ![w] = @ \ {r}]
  /\ holds' = [holds EXCEPT ![w][r.job] = IF @ = r.id THEN NoRun ELSE @]
  /\ UNCHANGED <<storeVars, timer, leasing, free, grant, prior, calls,
                 historyVars, boundVars>>

-----------------------------------------------------------------------------
(* Start, stop, crash, and the passing of time *)

Stop(w) ==
  /\ timer[w] = "on"
  /\ stops < MaxStops /\ Faults < MaxFaults
  /\ stops' = stops + 1
  /\ timer' = [timer EXCEPT ![w] = "stopping"]
  /\ UNCHANGED <<storeVars, leasing, free, grant, prior, runs, holds, calls,
                 historyVars, lapses, crashes, failures>>

(* stop() resolves once the lease in flight and every run have ended. *)

(* Mutant: the lease in flight is not awaited. *)
StoppedIgnoringLease(w) ==
  /\ timer[w] = "stopping"
  /\ runs[w] = {}
  /\ timer' = [timer EXCEPT ![w] = "off"]
  /\ UNCHANGED <<storeVars, leasing, free, grant, prior, runs, holds, calls,
                 historyVars, boundVars>>
Stopped(w) ==
  /\ timer[w] = "stopping"
  /\ leasing[w] = "none"
  /\ runs[w] = {}
  /\ timer' = [timer EXCEPT ![w] = "off"]
  /\ UNCHANGED <<storeVars, leasing, free, grant, prior, runs, holds, calls,
                 historyVars, boundVars>>

Start(w) ==
  /\ timer[w] = "off"
  /\ timer' = [timer EXCEPT ![w] = "on"]
  /\ UNCHANGED <<storeVars, leasing, free, grant, prior, runs, holds, calls,
                 historyVars, boundVars>>

(* The process dies: its memory is gone, its calls may still arrive. *)
Crash(w) ==
  /\ crashes < MaxCrashes /\ Faults < MaxFaults
  /\ crashes' = crashes + 1
  /\ timer' = [timer EXCEPT ![w] = "off"]
  /\ NoReply(w)
  /\ runs' = [runs EXCEPT ![w] = {}]
  /\ holds' = [holds EXCEPT ![w] = [j \in Job |-> NoRun]]
  /\ UNCHANGED <<storeVars, calls, historyVars, lapses, failures, stops>>

(* A live process has the job's current lease: in a run, or in a reply. *)
Guarded(j) ==
  \E w \in Workers :
    \/ grant[w][j] # NoLease /\ grant[w][j] = lease[j]
    \/ \E r \in runs[w] : r.job = j /\ r.lease = lease[j]

(* A lease that runs out while Guarded - renewals failing, or the process
   paused for a whole leaseMs - uses up one of MaxLapses. *)
Lapsing == {j \in Job : hidden[j] = 1 /\ Guarded(j)}

Tick ==
  /\ \E j \in Job : wait[j] > 0 \/ hidden[j] > 0
  /\ lapses + Cardinality(Lapsing) <= MaxLapses
  /\ Faults + Cardinality(Lapsing) <= MaxFaults
  /\ lapses' = lapses + Cardinality(Lapsing)
  /\ StoreTick
  /\ UNCHANGED <<workerVars, historyVars, crashes, failures, stops>>

-----------------------------------------------------------------------------
Producing == \E w \in Workers, n \in Names, d \in 0..MaxDelay : Enqueue(w, n, d)

HandlerEnds(w, j) ==
  \E r \in runs[w] :
    /\ r.job = j
    /\ \/ HandlerReturns(w, r)
       \/ \E d \in 0..MaxDelay : HandlerThrowsAndRetries(w, r, d)
       \/ HandlerThrowsForGood(w, r)

Next ==
  \/ Producing
  \/ \E w \in Workers :
       \/ Poll(w) \/ LeaseServed(w) \/ LeaseFails(w) \/ Admit(w)
       \/ \E j \in Job : HandlerEnds(w, j)
       \/ \E r \in runs[w] : Renew(w, r) \/ Release(w, r)
       \/ Stop(w) \/ Stopped(w) \/ Start(w) \/ Crash(w)
  \/ \E c \in calls : SettleServed(c) \/ SettleFails(c)
  \/ Tick

Spec == Init /\ [][Next]_vars

(* What the event loop and the store guarantee: a poll timer keeps firing,
   a call is answered, a heartbeat fires, a handler ends (timeoutMs, or a
   handler that terminates), a supervisor restarts a process. *)
Fairness ==
  /\ WF_vars(Tick)
  /\ \A w \in Workers :
       /\ WF_vars(Poll(w)) /\ WF_vars(LeaseServed(w)) /\ WF_vars(Admit(w))
       /\ WF_vars(Stopped(w)) /\ WF_vars(Start(w))
       /\ \A j \in Job :
            /\ WF_vars(HandlerEnds(w, j))
            /\ WF_vars(\E r \in runs[w] : r.job = j /\ Renew(w, r))
            /\ WF_vars(\E r \in runs[w] : r.job = j /\ Release(w, r))
  /\ \A j \in Job : WF_vars(\E c \in calls : c.job = j /\ SettleServed(c))

FairSpec == Spec /\ Fairness

-----------------------------------------------------------------------------
(* Properties *)

(* A queue never runs one job twice at the same time, even when the store
   hands back a job whose lease ran out under it: admit() keeps the run it
   has (packages/jobs/README.md:64). *)
OneRunPerQueue ==
  \A w \in Workers : \A r1, r2 \in runs[w] : r1.job = r2.job => r1 = r2

(* Callers sharing the slots never over-lease: no process has more runs
   than `concurrency`, whatever settles or is adopted while its lease()
   is in flight. *)
WithinConcurrency == \A w \in Workers : Cardinality(runs[w]) <= Concurrency

(* Fencing: a token names one run at most, across every process, so a
   settle call can only speak for the run that was given the lease. *)
OneRunPerToken ==
  \A w1, w2 \in Workers : \A r1 \in runs[w1], r2 \in runs[w2] :
    r1.lease = r2.lease => w1 = w2 /\ r1 = r2

(* A stop() that has resolved leaves nothing behind: no run in flight and
   no lease() whose reply would begin one, even if a poll raced it. *)
StoppedMeansIdle ==
  \A w \in Workers : timer[w] = "off" => runs[w] = {} /\ leasing[w] = "none"

(* As long as no lease has run out under a live process, no job is being
   handled twice, by one process or by two, through crashes, failed calls
   and late replies. *)
ExclusiveWhileRenewed ==
  lapses = 0 =>
    \A w1, w2 \in Workers : \A r1 \in runs[w1], r2 \in runs[w2] :
      (r1.phase = "handler" /\ r2.phase = "handler" /\ r1.job = r2.job)
         => w1 = w2

(* As long as no lease has run out under a live process, a job that is
   still queued has an attempt left. *)
AttemptLeftWhileRenewed ==
  lapses = 0 =>
    \A j \in Job : status[j] = "queued" => attempt[j] < MaxAttempts[jobName[j]]

(* A worker whose lease was taken over cannot settle the job under the
   worker that now holds it: no step settles a job while a handler runs
   under the job's current lease. *)
SettledOrRetried(j) ==
  status[j] = "queued" /\ (status'[j] # "queued" \/ attempt'[j] # attempt[j])

NeverSettledUnderRunner ==
  [][\A j \in Job : SettledOrRetried(j) =>
       ~\E w \in Workers : \E r \in runs[w] :
          r.job = j /\ r.phase = "handler" /\ r.lease = lease[j]]_vars

(* Every job enqueued is completed or dead-lettered in the end. *)
EveryJobSettles ==
  \A j \in Job : status[j] = "queued" ~> status[j] \in {"completed", "dead"}

(* A graceful stop() always resolves. *)
StopResolves == \A w \in Workers : timer[w] = "stopping" ~> timer[w] = "off"

(* The inductive invariant behind fencing and exclusion.  A token is issued
   once; it is in one reply or one run at a time; a settle call that carries
   it comes from a run that has stopped handling. *)
FiniteRuns == \A w \in Workers : IsFiniteSet(runs[w])

TokensWereIssued ==
  /\ \A j \in Job : lease[j] <= leaseSeq
  /\ \A w \in Workers :
       /\ \A j \in Job : grant[w][j] <= leaseSeq
       /\ \A r \in runs[w] : r.id <= leaseSeq /\ r.lease <= leaseSeq
  /\ \A c \in calls : c.lease <= leaseSeq

OneGrantPerToken ==
  \A w1, w2 \in Workers : \A j1, j2 \in Job :
    grant[w1][j1] # NoLease /\ grant[w1][j1] = grant[w2][j2]
      => w1 = w2 /\ j1 = j2

GrantsAreUnused ==
  \A w \in Workers : \A j \in Job : grant[w][j] # NoLease =>
    /\ \A v \in Workers : \A r \in runs[v] :
         grant[w][j] # r.id /\ grant[w][j] # r.lease
    /\ \A c \in calls : grant[w][j] # c.lease

OneRunPerId ==
  \A w1, w2 \in Workers : \A r1 \in runs[w1], r2 \in runs[w2] :
    r1.id = r2.id => w1 = w2 /\ r1 = r2

HoldsNameTheirRun ==
  \A w \in Workers : \A r \in runs[w] : holds[w][r.job] = r.id

CallsComeFromSettling ==
  \A c \in calls : \A w \in Workers : \A r \in runs[w] :
    r.lease = c.lease => r.phase # "handler"

TokenInv ==
  /\ TokensWereIssued
  /\ OneGrantPerToken
  /\ GrantsAreUnused
  /\ OneRunPerId
  /\ OneRunPerToken
  /\ HoldsNameTheirRun
  /\ CallsComeFromSettling

(* While no lease has lapsed under a live process, whoever was given a job
   has its current token, and the job stays hidden. *)
HandlersAreCurrent ==
  lapses = 0 => \A w \in Workers :
    /\ \A j \in Job : grant[w][j] # NoLease => grant[w][j] = lease[j]
    /\ \A r \in runs[w] : r.phase = "handler" => r.lease = lease[r.job]

GuardedStaysHidden ==
  lapses = 0 => \A j \in Job : Guarded(j) => hidden[j] > 0

RenewInv == HandlersAreCurrent /\ GuardedStaysHidden

(* Deliveries: what an enqueuer is promised, without leases or processes. *)
Promise == INSTANCE JobDelivery
Delivers == Promise!Spec
=============================================================================
