----------------------------- MODULE JobDelivery -----------------------------
(***************************************************************************)
(* What @nifrajs/jobs promises whoever enqueues a job, with no lease, no   *)
(* process and no clock in sight: the job is handled at least once before  *)
(* it counts as completed, it is dead-lettered only after its handler has  *)
(* thrown MaxAttempts times or when it can never be run again, and it is   *)
(* settled once and for all.                                               *)
(***************************************************************************)
EXTENDS Naturals

CONSTANTS MaxJobs, Names, MaxAttempts

Job == 1..MaxJobs

VARIABLES
  status,   \* "unknown", "queued", "completed" or "dead"
  jobName,
  returned, \* jobs whose handler has returned at least once
  thrown,   \* how often each job's handler has thrown
  unusable  \* jobs with no handler, or with no finite backoff

vars == <<status, jobName, returned, thrown, unusable>>

Init ==
  /\ status = [j \in Job |-> "unknown"]
  /\ jobName \in [Job -> Names]
  /\ returned = {}
  /\ thrown = [j \in Job |-> 0]
  /\ unusable = {}

Submit(j, n) ==
  /\ status[j] = "unknown"
  /\ status' = [status EXCEPT ![j] = "queued"]
  /\ jobName' = [jobName EXCEPT ![j] = n]
  /\ UNCHANGED <<returned, thrown, unusable>>

(* A handler may still be running when its job is settled by another. *)
Return(j) ==
  /\ status[j] # "unknown"
  /\ returned' = returned \cup {j}
  /\ UNCHANGED <<status, jobName, thrown, unusable>>

Throw(j) ==
  /\ status[j] # "unknown"
  /\ thrown' = [thrown EXCEPT ![j] = @ + 1]
  /\ unusable' \in {unusable, unusable \cup {j}}
  /\ UNCHANGED <<status, jobName, returned>>

GiveUp(S) ==
  /\ \A j \in S : status[j] # "unknown"
  /\ unusable' = unusable \cup S
  /\ UNCHANGED <<status, jobName, returned, thrown>>

Complete(j) ==
  /\ status[j] = "queued"
  /\ j \in returned
  /\ status' = [status EXCEPT ![j] = "completed"]
  /\ UNCHANGED <<jobName, returned, thrown, unusable>>

DeadLetter(j) ==
  /\ status[j] = "queued"
  /\ j \in unusable \/ thrown[j] >= MaxAttempts[jobName[j]]
  /\ status' = [status EXCEPT ![j] = "dead"]
  /\ UNCHANGED <<jobName, returned, thrown, unusable>>

Next ==
  \/ \E j \in Job :
       \/ \E n \in Names : Submit(j, n)
       \/ Return(j) \/ Throw(j) \/ Complete(j) \/ DeadLetter(j)
  \/ \E S \in SUBSET Job : GiveUp(S)

Spec == Init /\ [][Next]_vars
=============================================================================
