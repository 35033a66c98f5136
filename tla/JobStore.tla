------------------------------ MODULE JobStore ------------------------------
(***************************************************************************)
(* The persistence contract of @nifrajs/jobs: the JobStore interface of    *)
(* packages/jobs/src/types.ts as MemoryJobStore implements it              *)
(* (packages/jobs/src/memory-store.ts).  Every operation below is one      *)
(* atomic step of the store; the queue that calls it is JobQueue.          *)
(*                                                                         *)
(* Job ids are the numbers idFor() hands out, so their order is the        *)
(* insertion order of the Map that lease() walks.  Instants are kept       *)
(* relative to the present: wait[j] is runAt - now and hidden[j] is        *)
(* leaseUntil - now, both 0 once they have passed, which is all that       *)
(* lease() asks of them (runAt <= now, leaseUntil <= now).                 *)
(***************************************************************************)
EXTENDS Naturals, FiniteSets

CONSTANTS
  MaxJobs,     \* bound: how many jobs are ever enqueued
  Names,       \* job names
  MaxAttempts, \* Def.attempts of each name, stored with the job
  LeaseMs,     \* WorkerOptions.leaseMs, in ticks
  MaxDelay     \* bound: the longest runAt delay, in ticks

ASSUME MaxJobsAssumption == MaxJobs \in Nat
ASSUME NamesAssumption == Names # {}
ASSUME MaxAttemptsAssumption == MaxAttempts \in [Names -> Nat \ {0}]
ASSUME LeaseMsAssumption == LeaseMs \in Nat \ {0}
ASSUME MaxDelayAssumption == MaxDelay \in Nat

Job == 1..MaxJobs
NoLease == 0  \* Record.lease = undefined

VARIABLES
  seq,      \* number of jobs enqueued so far
  status,   \* which map holds the job: "queued" = jobs, "dead" = dead
  jobName,  \* Record.name
  attempt,  \* Record.attempt: attempts already failed
  wait,     \* Record.runAt - now
  hidden,   \* Record.leaseUntil - now
  lease,    \* Record.lease: the current token
  leaseSeq  \* tokens issued so far

storeVars == <<seq, status, jobName, attempt, wait, hidden, lease, leaseSeq>>

StoreTypeOK ==
  /\ seq \in 0..MaxJobs
  /\ status \in [Job -> {"unknown", "queued", "completed", "dead"}]
  /\ jobName \in [Job -> Names]
  /\ attempt \in [Job -> Nat]
  /\ wait \in [Job -> 0..MaxDelay]
  /\ hidden \in [Job -> 0..LeaseMs]
  /\ lease \in [Job -> Nat]
  /\ leaseSeq \in Nat

StoreInit ==
  /\ seq = 0
  /\ status = [j \in Job |-> "unknown"]
  /\ jobName = [j \in Job |-> CHOOSE n \in Names : TRUE]
  /\ attempt = [j \in Job |-> 0]
  /\ wait = [j \in Job |-> 0]
  /\ hidden = [j \in Job |-> 0]
  /\ lease = [j \in Job |-> NoLease]
  /\ leaseSeq = 0

-----------------------------------------------------------------------------
(* enqueue: a fresh record, due after d ticks. *)
StoreEnqueue(n, d) ==
  /\ seq < MaxJobs
  /\ seq' = seq + 1
  /\ status' = [status EXCEPT ![seq + 1] = "queued"]
  /\ jobName' = [jobName EXCEPT ![seq + 1] = n]
  /\ wait' = [wait EXCEPT ![seq + 1] = d]
  /\ UNCHANGED <<attempt, hidden, lease, leaseSeq>>

(* lease: the first `limit` due jobs in insertion order, each under a
   token of its own. *)

(* Mutant: a lease that has run out is never handed out again. *)
DueForgetsExpired ==
  {j \in Job : status[j] = "queued" /\ wait[j] = 0 /\ lease[j] = NoLease}
(* Mutant: leaseUntil is not compared with now. *)
DueWhileHidden == {j \in Job : status[j] = "queued" /\ wait[j] = 0}
Due == {j \in Job : status[j] = "queued" /\ wait[j] = 0 /\ hidden[j] = 0}
UpTo(S, j) == Cardinality({i \in S : i <= j})
Leased(limit) == {j \in Due : UpTo(Due, j) <= limit}
Token(limit, j) ==
  IF j \in Leased(limit) THEN leaseSeq + UpTo(Due, j) ELSE NoLease

StoreLease(limit) ==
  /\ leaseSeq' = leaseSeq + Cardinality(Leased(limit))
  /\ lease' = [j \in Job |->
                 IF j \in Leased(limit) THEN Token(limit, j) ELSE lease[j]]
  /\ hidden' = [j \in Job |->
                  IF j \in Leased(limit) THEN LeaseMs ELSE hidden[j]]
  /\ UNCHANGED <<seq, status, jobName, attempt, wait>>

(* held: the record a call made under token t may act on. *)

(* Mutant: the token is not compared. *)
HeldByAnyone(j, t) == status[j] = "queued"
Held(j, t) == status[j] = "queued" /\ lease[j] = t

(* A call whose token is no longer current changes nothing. *)
Ignored(j, t) == ~Held(j, t) /\ UNCHANGED storeVars

(* complete and deadLetter both take the record out of `jobs`. *)
StoreRemove(j, t, outcome) ==
  /\ Held(j, t)
  /\ status' = [status EXCEPT ![j] = outcome]
  /\ lease' = [lease EXCEPT ![j] = NoLease]
  /\ hidden' = [hidden EXCEPT ![j] = 0]
  /\ UNCHANGED <<seq, jobName, attempt, wait, leaseSeq>>

StoreRetry(j, t, d) ==
  /\ Held(j, t)
  /\ attempt' = [attempt EXCEPT ![j] = @ + 1]
  /\ wait' = [wait EXCEPT ![j] = d]
  /\ hidden' = [hidden EXCEPT ![j] = 0]
  /\ lease' = [lease EXCEPT ![j] = NoLease]
  /\ UNCHANGED <<seq, status, jobName, leaseSeq>>

StoreRenew(j, t) ==
  /\ Held(j, t)
  /\ hidden' = [hidden EXCEPT ![j] = LeaseMs]
  /\ UNCHANGED <<seq, status, jobName, attempt, wait, lease, leaseSeq>>

(* One tick of the clock every instant is compared with. *)
StoreTick ==
  /\ wait' = [j \in Job |-> IF wait[j] > 0 THEN wait[j] - 1 ELSE 0]
  /\ hidden' = [j \in Job |-> IF hidden[j] > 0 THEN hidden[j] - 1 ELSE 0]
  /\ UNCHANGED <<seq, status, jobName, attempt, lease, leaseSeq>>
=============================================================================
