----------------------------- MODULE SagaOutcome -----------------------------
(***************************************************************************)
(* What a saga of packages/core/src/durable-saga.ts amounts to, with no    *)
(* calls, leases or records in sight: its steps take effect in order, or   *)
(* the ones that did are undone in reverse order, and an outcome that has  *)
(* been reported is true and final.                                        *)
(***************************************************************************)
EXTENDS Naturals

CONSTANTS
  Steps,    \* number of steps
  Fallbacks \* whether the saga's code may go on without a step that failed

Step == 1..Steps

VARIABLES
  state,  \* as reported
  landed, \* steps that have taken effect
  undone  \* steps whose compensation has taken effect

vars == <<state, landed, undone>>

Init ==
  /\ state = "absent"
  /\ landed = {}
  /\ undone = {}

Accept ==
  /\ state = "absent"
  /\ state' = "running"
  /\ UNCHANGED <<landed, undone>>

(* No step takes effect once anything has been undone. *)
Land(s) ==
  /\ state \in {"running", "manual-review"}
  /\ undone = {}
  /\ \A t \in landed : t < s
  /\ Fallbacks \/ landed = 1..(s - 1)
  /\ landed' = landed \cup {s}
  /\ UNCHANGED <<state, undone>>

Undo(s) ==
  /\ state \in {"compensating", "manual-review"}
  /\ s \in landed
  /\ \A t \in landed : t > s => t \in undone
  /\ undone' = undone \cup {s}
  /\ UNCHANGED <<state, landed>>

Complete ==
  /\ state = "running"
  /\ undone = {}
  /\ Fallbacks \/ landed = Step
  /\ state' = "completed"
  /\ UNCHANGED <<landed, undone>>

RollBack ==
  /\ state \in {"running", "manual-review"}
  /\ state' = "compensating"
  /\ UNCHANGED <<landed, undone>>

RolledBack ==
  /\ state = "compensating"
  /\ landed = undone
  /\ state' = "compensated"
  /\ UNCHANGED <<landed, undone>>

AskForReview ==
  /\ state \in {"running", "compensating"}
  /\ state' = "manual-review"
  /\ UNCHANGED <<landed, undone>>

(* A review lets the saga go on only if nothing has been undone yet. *)
GoOn ==
  /\ state = "manual-review"
  /\ undone = {}
  /\ state' = "running"
  /\ UNCHANGED <<landed, undone>>

Next ==
  \/ Accept \/ Complete \/ RollBack \/ RolledBack \/ AskForReview \/ GoOn
  \/ \E s \in Step : Land(s) \/ Undo(s)

Spec == Init /\ [][Next]_vars
=============================================================================
