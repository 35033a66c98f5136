------------------------------ MODULE Admission ------------------------------
(***************************************************************************)
(* The capacity gate of packages/middleware/src/admission.ts and the way   *)
(* the server uses it (admitGated and runAdmitted in                       *)
(* packages/core/src/server/server.ts): a bounded number of requests run   *)
(* at once, a policy may admit a few more into reserved headroom, and the  *)
(* rest wait in a short queue or are shed.                                 *)
(*                                                                         *)
(* admit(), release(), a waiter's timer and its abort listener each run to *)
(* the end without yielding, so each is one step.  What the policy says,   *)
(* and whether the event loop lags, is chosen at every arrival.  The       *)
(* counters of snapshot() other than inFlight and queued are left out.     *)
(***************************************************************************)
EXTENDS Naturals, FiniteSets, Sequences, SequencesExt

CONSTANTS
  Requests,    \* requests that can be under way at a time
  MaxInFlight, \* AdmissionOptions.maxInFlight
  Reserved,    \* AdmissionOptions.reservedForPolicy
  MaxQueue     \* AdmissionOptions.maxQueue

ASSUME RequestsAssumption == IsFiniteSet(Requests)
ASSUME MaxInFlightAssumption == MaxInFlight \in Nat \ {0}
ASSUME ReservedAssumption == Reserved \in Nat
ASSUME MaxQueueAssumption == MaxQueue \in Nat

VARIABLES
  inFlight, \* the gate's count of occupied slots
  queue,    \* its waiters, oldest first
  phase,    \* where each request stands
  byPolicy  \* requests a policy admitted

vars == <<inFlight, queue, phase, byPolicy>>

(* A request whose handle has been released may release it once more. *)
Phase == {"idle", "queued", "admitted", "released", "shed", "cancelled"}

TypeOK ==
  /\ inFlight \in Nat
  /\ queue \in Seq(Requests)
  /\ phase \in [Requests -> Phase]
  /\ byPolicy \subseteq Requests

Init ==
  /\ inFlight = 0
  /\ queue = <<>>
  /\ phase = [r \in Requests |-> "idle"]
  /\ byPolicy = {}

-----------------------------------------------------------------------------
(* admit() *)

(* occupy(): a slot and a handle for it. *)
Occupy(r) ==
  /\ inFlight' = inFlight + 1
  /\ phase' = [phase EXCEPT ![r] = "admitted"]
  /\ UNCHANGED queue

Shed(r) ==
  /\ phase' = [phase EXCEPT ![r] = "shed"]
  /\ UNCHANGED <<inFlight, queue, byPolicy>>

(* The policy admits, into the reserved headroom if need be. *)
AdmitByPolicy(r) ==
  /\ phase[r] = "idle"
  /\ inFlight < MaxInFlight + Reserved
  /\ Occupy(r)
  /\ byPolicy' = byPolicy \cup {r}

(* The policy sheds or finds no headroom, or the event loop lags. *)
ShedOutright(r) ==
  /\ phase[r] = "idle"
  /\ Shed(r)

FastPath(r) ==
  /\ phase[r] = "idle"
  /\ inFlight < MaxInFlight
  /\ Occupy(r)
  /\ UNCHANGED byPolicy

(* Saturated: wait in the queue if it has room. *)
Enqueue(r) ==
  /\ phase[r] = "idle"
  /\ inFlight >= MaxInFlight
  /\ Len(queue) < MaxQueue
  /\ queue' = Append(queue, r)
  /\ phase' = [phase EXCEPT ![r] = "queued"]
  /\ UNCHANGED <<inFlight, byPolicy>>

ShedSaturated(r) ==
  /\ phase[r] = "idle"
  /\ inFlight >= MaxInFlight
  /\ Len(queue) >= MaxQueue
  /\ Shed(r)

-----------------------------------------------------------------------------
(* A waiter's timer, and its request's abort signal *)

(* Mutant: the waiter stays in the queue. *)
GiveUpButStay(r, outcome) ==
  /\ phase[r] = "queued"
  /\ phase' = [phase EXCEPT ![r] = outcome]
  /\ UNCHANGED <<inFlight, queue, byPolicy>>
GiveUp(r, outcome) ==
  /\ \E i \in 1..Len(queue) :
       queue[i] = r /\ queue' = RemoveAt(queue, i)
  /\ phase' = [phase EXCEPT ![r] = outcome]
  /\ UNCHANGED <<inFlight, byPolicy>>

TimesOut(r) == GiveUp(r, "shed")
Cancelled(r) == GiveUp(r, "cancelled")

-----------------------------------------------------------------------------
(* release(): the slot is given back, and handed to the oldest waiter only
   if that keeps within MaxInFlight; a second call changes nothing. *)

(* Mutants: a slot goes to a waiter whatever the load; the freed slot is
   not handed on. *)
ReleaseHandsOver(r) ==
  /\ phase[r] = "admitted"
  /\ IF queue # <<>>
     THEN /\ queue' = Tail(queue)
          /\ phase' = [phase EXCEPT ![r] = "released", ![Head(queue)] = "admitted"]
          /\ UNCHANGED inFlight
     ELSE /\ inFlight' = inFlight - 1
          /\ phase' = [phase EXCEPT ![r] = "released"]
          /\ UNCHANGED queue
  /\ byPolicy' = byPolicy \ {r}
ReleaseKeepsWaiters(r) ==
  /\ phase[r] = "admitted"
  /\ inFlight' = inFlight - 1
  /\ phase' = [phase EXCEPT ![r] = "released"]
  /\ byPolicy' = byPolicy \ {r}
  /\ UNCHANGED queue
Release(r) ==
  /\ phase[r] = "admitted"
  /\ IF inFlight - 1 < MaxInFlight /\ queue # <<>>
     THEN /\ queue' = Tail(queue)
          /\ phase' = [phase EXCEPT ![r] = "released", ![Head(queue)] = "admitted"]
          /\ UNCHANGED inFlight
     ELSE /\ inFlight' = inFlight - 1
          /\ phase' = [phase EXCEPT ![r] = "released"]
          /\ UNCHANGED queue
  /\ byPolicy' = byPolicy \ {r}

(* The request has been answered; another one takes its place. *)
Leave(r) ==
  /\ phase[r] \in {"released", "shed", "cancelled"}
  /\ phase' = [phase EXCEPT ![r] = "idle"]
  /\ UNCHANGED <<inFlight, queue, byPolicy>>

-----------------------------------------------------------------------------
Next ==
  \E r \in Requests :
    \/ AdmitByPolicy(r) \/ ShedOutright(r) \/ FastPath(r)
    \/ Enqueue(r) \/ ShedSaturated(r)
    \/ TimesOut(r) \/ Cancelled(r)
    \/ Release(r) \/ Leave(r)

Spec == Init /\ [][Next]_vars

(* A handler's response settles, which releases its slot.  Waiters' timers
   are not relied on: they may be as long as one likes. *)
Fairness == \A r \in Requests : WF_vars(Release(r))

FairSpec == Spec /\ Fairness

-----------------------------------------------------------------------------
(* Properties *)

Holders == {r \in Requests : phase[r] = "admitted"}

(* Every slot the gate counts is held by exactly one admitted request: none
   leaks, and none is given back twice. *)
SlotsAreHeld == inFlight = Cardinality(Holders)

(* Not even a policy gets more than the reserved headroom. *)
WithinCapacity == inFlight <= MaxInFlight + Reserved

(* Nobody waits while a slot is free, so no newcomer overtakes the queue. *)
NoIdleSlot == queue # <<>> => inFlight >= MaxInFlight

(* The queue holds every waiting request once, and nobody else. *)
QueueIsExact ==
  /\ \A i, j \in 1..Len(queue) : queue[i] = queue[j] => i = j
  /\ \A r \in Requests : phase[r] = "queued" <=> \E i \in 1..Len(queue) : queue[i] = r

(* "Releasing a reserved slot must NOT hand that capacity to an ordinary
   queued request" (admission.ts:236): whoever is admitted without the
   policy leaves the gate within MaxInFlight. *)
HeadroomIsReserved ==
  [][\A r \in Requests :
       (phase[r] # "admitted" /\ phase'[r] = "admitted" /\ r \notin byPolicy')
          => inFlight' <= MaxInFlight]_vars

(* Once the policy stops admitting, every waiter is admitted as running
   requests end, if it neither times out nor is cancelled first: no newcomer
   starves it, and no free slot is forgotten. *)
WaitersAreServed ==
  <>[][~\E r \in Requests : AdmitByPolicy(r)]_vars =>
    \A r \in Requests : phase[r] = "queued" ~> phase[r] # "queued"
=============================================================================
