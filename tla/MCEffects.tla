----------------------------- MODULE MCEffects -----------------------------
(* An instance of Effects for TLC. *)
EXTENDS Effects, TLC

Symmetry == Permutations(Calls) \cup Permutations(Bindings)
=============================================================================
