--------------------------- MODULE MCRateLimiter ---------------------------
(***************************************************************************)
(* Instance of RateLimiter for TLC.  The server instances are alike.       *)
(***************************************************************************)
EXTENDS RateLimiter, TLC

Alike == Permutations(Instances)
=============================================================================
