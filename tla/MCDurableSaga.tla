---------------------------- MODULE MCDurableSaga ----------------------------
(* Instances of DurableSaga for TLC. *)
EXTENDS DurableSaga, TLC

CONSTANTS c1, c2

Symmetry == Permutations(Calls)
=============================================================================
