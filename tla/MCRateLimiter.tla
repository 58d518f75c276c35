---------------------------- MODULE MCRateLimiter ---------------------------
(***************************************************************************)
(* A small instance of RateLimiter: two pods, one fast and one slow.        *)
(***************************************************************************)
EXTENDS RateLimiter, TLC

CONSTANTS u1, fast, slow

MCSkew == (fast :> 1) @@ (slow :> -1)
=============================================================================
