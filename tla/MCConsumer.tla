------------------------------ MODULE MCConsumer ------------------------------
(* A payment message, an old pod that serves both queues of the consumer    *)
(* and a new one that, so far, serves payments.                             *)
EXTENDS Consumer, TLC

CONSTANTS p1, p2, m1, payments, tickets

MCQueueOf == m1 :> payments
MCRegistered == p1 :> {payments, tickets} @@ p2 :> {payments}
=============================================================================
