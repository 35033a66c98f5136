---------------------------- MODULE MCInvalidation ----------------------------
(* Instances of Invalidation for TLC. *)
EXTENDS Invalidation, TLC

(* The page stays one for everyone, is withdrawn, or is published. *)
PagesAndOthers ==
  {[answers |-> 0 :> "page" @@ 1 :> "page", cached |-> TRUE],
   [answers |-> 0 :> "page" @@ 1 :> "gone", cached |-> FALSE],
   [answers |-> 0 :> "private" @@ 1 :> "page", cached |-> TRUE]}
=============================================================================
