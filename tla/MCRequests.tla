----------------------------- MODULE MCRequests -----------------------------
(***************************************************************************)
(* A small instance of Requests: two calls of any methods at a time.        *)
(***************************************************************************)
EXTENDS Requests

CONSTANTS c1, c2
=============================================================================
