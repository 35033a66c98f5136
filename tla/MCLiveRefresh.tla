--------------------------- MODULE MCLiveRefresh ---------------------------
(* Instances of LiveRefresh for TLC. *)
EXTENDS LiveRefresh, TLC

CONSTANTS p1, p2, layout, page

Symmetry == Permutations(Procs) \cup Permutations(Keys)
=============================================================================
