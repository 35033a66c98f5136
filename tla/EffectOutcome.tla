--------------------------- MODULE EffectOutcome ---------------------------
(***************************************************************************)
(* What the durable journal promises of an external effect: its record     *)
(* never denies an effect that may have happened, never claims one that    *)
(* did not, and is rewritten by nobody once it says failed or unknown.     *)
(***************************************************************************)
CONSTANT Effects

VARIABLES
  record, \* what the journal says of each effect
  effect  \* what became of it in the world

vars == <<record, effect>>

Init ==
  /\ record = [e \in Effects |-> "none"]
  /\ effect = [e \in Effects |-> "not begun"]

Records(e, from, to) ==
  /\ record[e] \in from
  /\ record' = [record EXCEPT ![e] = to]
  /\ UNCHANGED effect

Intend(e) == Records(e, {"none"}, "admission")

Prepare(e) == Records(e, {"admission"}, "executing")

(* Nothing begins unless the journal says that it may. *)
Begin(e) ==
  /\ record[e] \in {"executing", "unknown"} /\ effect[e] = "not begun"
  /\ effect' = [effect EXCEPT ![e] = "begun"]
  /\ UNCHANGED record

Return(e) ==
  /\ effect[e] = "begun"
  /\ effect' = [effect EXCEPT ![e] = "returned"]
  /\ UNCHANGED record

Commit(e) == effect[e] = "returned" /\ Records(e, {"executing"}, "committed")

Refuse(e) == effect[e] = "not begun" /\ Records(e, {"admission", "executing"}, "failed")

(* The executor may fail before it does anything; and when the answer to a *)
(* commit is lost, even a commit is in doubt.                              *)
Doubt(e) == Records(e, {"executing", "committed"}, "unknown")

Next ==
  \E e \in Effects :
    \/ Intend(e) \/ Prepare(e) \/ Begin(e) \/ Return(e)
    \/ Commit(e) \/ Refuse(e) \/ Doubt(e)

Spec == Init /\ [][Next]_vars
=============================================================================
