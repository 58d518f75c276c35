-------------------------- MODULE MCOrderLifecycle --------------------------
(* One order of two items with different prices from one stock.             *)
EXTENDS OrderLifecycle, TLC

CONSTANTS o1, i1, i2, s1, b1, b2, b3, b4, v1

MCOrderOf == i1 :> o1 @@ i2 :> o1
MCStockOf == i1 :> s1 @@ i2 :> s1
MCPrice == i1 :> 1 @@ i2 :> 2

Symmetry == Permutations(Bills)
=============================================================================
