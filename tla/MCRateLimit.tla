----------------------------- MODULE MCRateLimit -----------------------------
(***************************************************************************)
(* An instance of RateLimit for TLC: one process.  What a second one adds  *)
(* to the Redis counter are more requests, and processes share no other.   *)
(***************************************************************************)
EXTENDS RateLimit, TLC

CONSTANTS i1, r1, r2, r3
=============================================================================
