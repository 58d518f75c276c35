----------------------------- MODULE OrderRules -----------------------------
(***************************************************************************)
(* The status rules of an order and of its items: which item transition    *)
(* canUpdateOrderItemStatus admits, and what recalculateOrderStatus does    *)
(* to the order document after a payment, a refund, a delivery or an item   *)
(* update.  Both are pure: they read one order document and the statuses of *)
(* its items, and return what the surrounding transaction has to write.     *)
(*                                                                         *)
(* An order document is a record with its status, the money columns total,  *)
(* paid and returned (amounts in the smallest currency unit) and the two    *)
(* counters itemsCount and returnedItemsCount.                              *)
(***************************************************************************)
EXTENDS Integers, FiniteSets

CONSTANT Unit       \* smallest currency units in one unit of currency

ASSUME UnitAssumption == Unit \in Nat \ {0}

OrderStatus == {"unpaid", "partially_paid", "pending_refund", "paid", "canceled",
                "completed", "partially_returned", "returned", "return_in_progress"}

ItemStatus == {"pending_payment", "paid", "delivered", "return_requested",
               "return_approved", "returned", "canceled"}

BillStatus == {"pending", "paid", "refunded", "failed", "canceled"}

TicketStatus == {"valid", "used", "invalidated", "expired"}

(* The document AddOrder inserts for a cart worth `total`.                  *)
NewOrder(total) ==
  [status |-> "unpaid", total |-> total, paid |-> 0, returned |-> 0,
   itemsCount |-> 0, returnedItemsCount |-> 0]

OrderDoc == [status : OrderStatus, total : Int, paid : Int, returned : Int,
             itemsCount : Nat, returnedItemsCount : Nat]

(* Decimal128ToInt64 drops the fraction of a unit.                          *)
Decimal128ToInt64(amount) == amount \div Unit

-----------------------------------------------------------------------------
(* Item transitions.  A target the switch does not list is always admitted; *)
(* no request names one.                                                    *)
SourcesOf(new) ==
  CASE new = "canceled"         -> {"pending_payment"}
    [] new = "return_requested" -> {"delivered"}
    [] new = "return_approved"  -> {"return_requested"}
    [] new = "returned"         -> {"return_approved"}
    [] new = "delivered"        -> {"return_requested", "paid"}
    [] OTHER                    -> ItemStatus

CanUpdateOrderItemStatus(old, new) == old \in SourcesOf(new)

-----------------------------------------------------------------------------
(* What a recalculation leaves for its transaction to write: the order      *)
(* document, the item statuses, whether a ticket generation task is put in  *)
(* the outbox, and the amounts of the refund bills it opens (none or one).  *)
(* An "error" or a "panic" aborts the transaction.                          *)
Result(verdict, ord, its, task, refund) ==
  [verdict |-> verdict, order |-> ord, items |-> its, task |-> task, refund |-> refund]

Commit(ord, its) == Result("commit", ord, its, FALSE, {})

Abort(ord, its, verdict) == Result(verdict, ord, its, FALSE, {})

Move(ord, its, status) == Commit([ord EXCEPT !.status = status], its)

SomeReturnOpen(its) ==
  \E i \in DOMAIN its : its[i] \in {"return_requested", "return_approved"}

CountItems(its, status) == Cardinality({i \in DOMAIN its : its[i] = status})

(* Mutant: all items of the order are updated, whatever their status. *)
Mutant_UpdateItemsStatusByOrder(its, from, to) == [i \in DOMAIN its |-> to]

(* UpdateItemsStatusByOrder: every item in one status moves to another.     *)
UpdateItemsStatusByOrder(its, from, to) ==
  [i \in DOMAIN its |-> IF its[i] = from THEN to ELSE its[i]]

(* Mutant: the items of the order are not marked paid. *)
Mutant_UpdateOrderToPaid(ord, its, publisher) ==
  IF publisher
  THEN Result("commit", [ord EXCEPT !.status = "paid"], its, TRUE, {})
  ELSE Abort(ord, its, "panic")

(* Mutant: only an order paid at once gets a task. *)
Mutant_TaskOfFirstPayment(ord, its, publisher) ==
  IF publisher
  THEN Result("commit", [ord EXCEPT !.status = "paid"],
              UpdateItemsStatusByOrder(its, "pending_payment", "paid"),
              ord.status = "unpaid", {})
  ELSE Abort(ord, its, "panic")

(* updateOrderToPaidWithAudit: without a ticket event publisher the call on *)
(* the nil publisher panics.                                                *)
UpdateOrderToPaid(ord, its, publisher) ==
  IF publisher
  THEN Result("commit", [ord EXCEPT !.status = "paid"],
              UpdateItemsStatusByOrder(its, "pending_payment", "paid"), TRUE, {})
  ELSE Abort(ord, its, "panic")

(* Mutant: any payment counts as the full one. *)
Mutant_RecalculateUnpaid(ord, its, publisher) ==
  CASE \A i \in DOMAIN its : its[i] = "canceled" -> Move(ord, its, "canceled")
    [] \E i \in DOMAIN its : its[i] # "canceled" ->
         IF Decimal128ToInt64(ord.paid) > 0
         THEN UpdateOrderToPaid(ord, its, publisher)
         ELSE Commit(ord, its)

RecalculateUnpaid(ord, its, publisher) ==
  CASE \A i \in DOMAIN its : its[i] = "canceled" -> Move(ord, its, "canceled")
    [] \E i \in DOMAIN its : its[i] # "canceled" ->
         CASE ord.total = ord.paid -> UpdateOrderToPaid(ord, its, publisher)
           [] ord.total # ord.paid /\ Decimal128ToInt64(ord.paid) > 0 ->
                Move(ord, its, "partially_paid")
           [] OTHER -> Commit(ord, its)

RecalculatePartiallyPaid(ord, its, publisher) ==
  CASE ord.total = ord.paid -> UpdateOrderToPaid(ord, its, publisher)
    [] ord.total < ord.paid ->
         Result("commit", [ord EXCEPT !.status = "pending_refund"], its, FALSE,
                {ord.paid - ord.total})
    [] ord.total > ord.paid /\ ord.returned = ord.paid -> Move(ord, its, "canceled")
    [] OTHER -> Commit(ord, its)

RecalculatePendingRefund(ord, its, publisher) ==
  IF ord.paid - ord.returned = ord.total
  THEN UpdateOrderToPaid(ord, its, publisher)
  ELSE Commit(ord, its)

RecalculatePaid(ord, its) ==
  IF CountItems(its, "pending_payment") = 0
  THEN Commit([ord EXCEPT !.status = "completed",
                          !.itemsCount = CountItems(its, "delivered")], its)
  ELSE Commit(ord, its)

RecalculateCompleted(ord, its) ==
  IF SomeReturnOpen(its) THEN Move(ord, its, "return_in_progress") ELSE Commit(ord, its)

RecalculateReturnInProgress(ord, its) ==
  CASE SomeReturnOpen(its) -> Commit(ord, its)
    [] ~SomeReturnOpen(its) /\ ord.returnedItemsCount = 0 -> Move(ord, its, "completed")
    [] ~SomeReturnOpen(its) /\ ord.returnedItemsCount > 0 ->
         CASE ord.itemsCount = ord.returnedItemsCount -> Move(ord, its, "returned")
           [] ord.itemsCount > ord.returnedItemsCount ->
                Move(ord, its, "partially_returned")
           [] ord.itemsCount < ord.returnedItemsCount -> Abort(ord, its, "error")

(* The second test runs whatever the first one did, on the same snapshot.   *)
RecalculatePartiallyReturned(ord, its) ==
  CASE ord.returnedItemsCount = ord.itemsCount -> Move(ord, its, "returned")
    [] ord.returnedItemsCount # ord.itemsCount /\ SomeReturnOpen(its) ->
         Move(ord, its, "return_in_progress")
    [] OTHER -> Commit(ord, its)

(* Statuses the switch has no case for (canceled, returned) panic.          *)
RecalculateOrderStatus(ord, its, publisher) ==
  CASE ord.status = "unpaid" -> RecalculateUnpaid(ord, its, publisher)
    [] ord.status = "partially_paid" -> RecalculatePartiallyPaid(ord, its, publisher)
    [] ord.status = "pending_refund" -> RecalculatePendingRefund(ord, its, publisher)
    [] ord.status = "paid" -> RecalculatePaid(ord, its)
    [] ord.status = "completed" -> RecalculateCompleted(ord, its)
    [] ord.status = "return_in_progress" -> RecalculateReturnInProgress(ord, its)
    [] ord.status = "partially_returned" -> RecalculatePartiallyReturned(ord, its)
    [] OTHER -> Abort(ord, its, "panic")

-----------------------------------------------------------------------------
(* The body of _updateOrderItemStatus after its checks: item i of the order *)
(* moves to `new`, a canceled item takes its price off the total, an        *)
(* approved return opens a refund bill of its price, and the order is       *)
(* recalculated without a ticket event publisher.                           *)
UpdateOrderItemStatus(ord, its, i, new, price) ==
  LET moved   == [its EXCEPT ![i] = new]
      reduced == IF new = "canceled" THEN [ord EXCEPT !.total = @ - price] ELSE ord
      r       == RecalculateOrderStatus(reduced, moved, FALSE)
      refund  == IF new = "return_approved" THEN {price} ELSE {}
  IN  Result(r.verdict, r.order, r.items, r.task, r.refund \union refund)
=============================================================================
