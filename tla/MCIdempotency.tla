---------------------------- MODULE MCIdempotency ----------------------------
(* Instances of Idempotency for TLC. *)
EXTENDS Idempotency

CONSTANTS k1, k2, acme

OneTenant == [k \in Keys |-> acme]
=============================================================================
