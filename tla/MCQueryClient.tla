--------------------------- MODULE MCQueryClient ---------------------------
(* Instances of QueryClient for TLC: the visitor's profile and a feed. *)
EXTENDS QueryClient

CONSTANTS me, feed
=============================================================================
