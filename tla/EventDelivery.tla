---------------------------- MODULE EventDelivery ----------------------------
(***************************************************************************)
(* What the outbox promises of an event: it reaches the message broker only *)
(* after the transaction that wrote it has committed, any number of times,  *)
(* and never again once it is done; it is done only if it was delivered.    *)
(***************************************************************************)
EXTENDS Naturals

CONSTANT Events

VARIABLES
  created,   \* events whose transaction has committed
  copies,    \* how often an event was handed to the broker
  done       \* events that are not looked at any more

vars == <<created, copies, done>>

Init ==
  /\ created = {}
  /\ copies = [e \in Events |-> 0]
  /\ done = {}

Commit(e) ==
  /\ e \notin created
  /\ created' = created \union {e}
  /\ UNCHANGED <<copies, done>>

Deliver(e) ==
  /\ e \in created \ done
  /\ copies' = [copies EXCEPT ![e] = @ + 1]
  /\ UNCHANGED <<created, done>>

Settle(e) ==
  /\ e \in created \ done
  /\ copies[e] > 0
  /\ done' = done \union {e}
  /\ UNCHANGED <<created, copies>>

Next == \E e \in Events : Commit(e) \/ Deliver(e) \/ Settle(e)

Spec == Init /\ [][Next]_vars
=============================================================================
