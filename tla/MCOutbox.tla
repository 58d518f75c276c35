------------------------------ MODULE MCOutbox ------------------------------
(* Three events, two of them with one time stamp, and two processors.       *)
EXTENDS Outbox, TLC

CONSTANTS e1, e2, e3, p1, p2

MCCreatedAt == e1 :> 1 @@ e2 :> 2 @@ e3 :> 2

Symmetry == Permutations(Processors)
=============================================================================
