---------------------------- MODULE MCSettlement -----------------------------
(* An order of one item that is paid in two unequal instalments.            *)
EXTENDS Settlement, TLC

CONSTANTS o1, b1, b2, w1, w2, i1

MCAmount == b1 :> 1 @@ b2 :> 2

(* The outbox may publish the ticket task twice.                            *)
MCMaxCopies ==
  [j \in Jobs |-> CASE j = <<b1, "failure">> -> 0 [] j = <<"tickets">> -> 2 [] OTHER -> 1]

(* Every write of the no-op manager stands alone: two messages meet in many *)
(* more ways than two transactions do.                                      *)
MCMaxSent == "mongo" :> 3 @@ "noop" :> 2
=============================================================================
