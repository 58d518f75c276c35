-------------------------- MODULE SettlementProofs --------------------------
(***************************************************************************)
(* The handlers of one order are atomic with MongoDB's transactions, and no *)
(* bill is marked paid before its order is credited with either manager,    *)
(* for any items, bills, amounts and workers, and any number of messages    *)
(* and failures.                                                            *)
(***************************************************************************)
EXTENDS Settlement, OrderRulesProofs, Sequences

-----------------------------------------------------------------------------
(* The results of the payment service among the jobs.                       *)
Results == Bills \X {"success", "failure"}

LEMMA JobsAreDistinct ==
  /\ <<"tickets">> # <<"cancel">>
  /\ \A j \in Results : /\ j \in Jobs /\ j # <<"tickets">> /\ j # <<"cancel">>
                        /\ j[1] \in Bills /\ j[2] \in {"success", "failure"}
                        /\ j = <<j[1], j[2]>>
  /\ \A j \in Jobs : j \in Results \/ j = <<"tickets">> \/ j = <<"cancel">>
<1>1. ASSUME NEW j \in Results
      PROVE  /\ j \in Jobs /\ j # <<"tickets">> /\ j # <<"cancel">>
             /\ j[1] \in Bills /\ j[2] \in {"success", "failure"}
             /\ j = <<j[1], j[2]>>
  <2>1. PICK b \in Bills, s \in {"success", "failure"} : j = <<b, s>>
    BY DEF Results
  <2>2. Len(j) = 2 /\ Len(<<"tickets">>) = 1 /\ Len(<<"cancel">>) = 1
    BY <2>1
  <2> QED
    BY <2>1, <2>2 DEF Jobs, Results
<1>2. <<"tickets">>[1] = "tickets" /\ <<"cancel">>[1] = "cancel"
  OBVIOUS
<1> QED
  BY <1>1, <1>2 DEF Jobs, Results

LEMMA AmountsAddUp ==
  ASSUME NEW S \in SUBSET Bills
  PROVE  /\ IsFiniteSet(S)
         /\ \A b \in S : Amount[b] \in Nat /\ Amount[b] \in Int
         /\ SumOver(Amount, S) \in Int
         /\ MapThenSumSet(LAMBDA b : Amount[b], S) = SumOver(Amount, S)
<1>1. IsFiniteSet(S)
  BY SettlementAssumption, FS_Subset
<1>2. \A b \in S : Amount[b] \in Nat /\ Amount[b] \in Int
  BY SettlementAssumption
<1>3. SumOver(Amount, S) \in Int
  BY <1>1, <1>2, SumIsInteger
<1>4. MapThenSumSet(LAMBDA b : Amount[b], S) = SumOver(Amount, S)
  BY DEF SumOver
<1> QED
  BY <1>1, <1>2, <1>3, <1>4

LEMMA NewDatabaseType == NewDatabase \in Database
<1>1. Total \in Int
  BY AmountsAddUp DEF Total
<1> QED
  BY <1>1 DEF NewDatabase, Database, NewOrder, OrderDoc, OrderStatus, ItemStatus, BillStatus

(* What the queries that write leave of the other documents.                *)
LEMMA QueriesAreTyped ==
  ASSUME NEW d \in Database
  PROVE  /\ \A b \in Bills : Credit(d, b) \in Database
         /\ \A b \in Bills, status \in BillStatus : MarkBill(d, b, status) \in Database
         /\ \A status \in OrderStatus : SetStatus(d, status) \in Database
         /\ \A from \in ItemStatus, to \in ItemStatus : MoveItems(d, from, to) \in Database
         /\ CreateTickets(d) \in Database
         /\ PublishTicketGenerationTask(d) \in Database
         /\ OpenRefundBill(d) \in Database
         /\ \A r : r.order \in OrderDoc => StoreResult(d, r) \in Database
<1>1. ASSUME NEW b \in Bills PROVE Credit(d, b) \in Database
  <2>1. Amount[b] \in Int
    BY AmountsAddUp
  <2> QED
    BY <2>1 DEF Credit, Database, OrderDoc
<1>2. ASSUME NEW from \in ItemStatus, NEW to \in ItemStatus
      PROVE  MoveItems(d, from, to) \in Database
  BY DEF MoveItems, UpdateItemsStatusByOrder, Database
<1>3. ASSUME NEW r, r.order \in OrderDoc PROVE StoreResult(d, r) \in Database
  BY <1>3 DEF StoreResult, Database, OrderDoc
<1>4. /\ \A b \in Bills, status \in BillStatus : MarkBill(d, b, status) \in Database
      /\ \A status \in OrderStatus : SetStatus(d, status) \in Database
  BY DEF MarkBill, SetStatus, Database, OrderDoc
<1>5. CreateTickets(d) \in Database
  BY DEF CreateTickets, Database
<1>6. PublishTicketGenerationTask(d) \in Database /\ OpenRefundBill(d) \in Database
  BY DEF PublishTicketGenerationTask, OpenRefundBill, Database
<1> QED
  BY <1>1, <1>2, <1>3, <1>4, <1>5, <1>6

(* An update that matches no item changes nothing.                          *)
LEMMA NothingMoves ==
  ASSUME NEW d \in Database, NEW from, NEW to, \A i \in Items : d.items[i] # from
  PROVE  MoveItems(d, from, to) = d
<1>1. UpdateItemsStatusByOrder(d.items, from, to) = d.items
  BY DEF UpdateItemsStatusByOrder, Database
<1> QED
  BY <1>1 DEF MoveItems, Database

(* A difference in a document is in docs.                                   *)
DifferIn(d, e, docs) ==
  /\ e.order # d.order => Order \in docs
  /\ \A i \in Items : e.items[i] # d.items[i] => i \in docs
  /\ \A b \in Bills : e.bills[b] # d.bills[b] => b \in docs

LEMMA QueriesChange ==
  ASSUME NEW d \in Database
  PROVE  /\ \A b \in Bills : DifferIn(d, Credit(d, b), {Order})
         /\ \A b \in Bills : \A status : DifferIn(d, MarkBill(d, b, status), {b})
         /\ \A status : DifferIn(d, SetStatus(d, status), {Order})
         /\ \A from, to : DifferIn(d, MoveItems(d, from, to), {i \in Items : d.items[i] = from})
         /\ DifferIn(d, CreateTickets(d), {})
         /\ DifferIn(d, PublishTicketGenerationTask(d), {})
         /\ DifferIn(d, OpenRefundBill(d), {})
         /\ \A r : DifferIn(d, StoreResult(d, r), {Order})
<1>1. ASSUME NEW from, NEW to
      PROVE  DifferIn(d, MoveItems(d, from, to), {i \in Items : d.items[i] = from})
  BY DEF DifferIn, MoveItems, UpdateItemsStatusByOrder, Database
<1>2. \A b \in Bills : DifferIn(d, Credit(d, b), {Order})
  BY DEF DifferIn, Credit, Database
<1>3. \A b \in Bills : \A status : DifferIn(d, MarkBill(d, b, status), {b})
  BY DEF DifferIn, MarkBill, Database
<1>4. \A status : DifferIn(d, SetStatus(d, status), {Order})
  BY DEF DifferIn, SetStatus, Database
<1>5. DifferIn(d, CreateTickets(d), {})
  BY DEF DifferIn, CreateTickets, Database
<1>6. DifferIn(d, PublishTicketGenerationTask(d), {}) /\ DifferIn(d, OpenRefundBill(d), {})
  BY DEF DifferIn, PublishTicketGenerationTask, OpenRefundBill, Database
<1>7. \A r : DifferIn(d, StoreResult(d, r), {Order})
  BY DEF DifferIn, StoreResult, Database
<1> QED
  BY <1>1, <1>2, <1>3, <1>4, <1>5, <1>6, <1>7

-----------------------------------------------------------------------------
(* What a recalculation that commits may return, and n, the one that has no *)
(* publisher: without the task of a paid order both are the same, no item   *)
(* moves and at most one refund bill is opened.                             *)
ResultShape(ord, its, r, n) ==
  /\ r.task \in BOOLEAN
  /\ r.order = [ord EXCEPT !.status = r.order.status, !.itemsCount = r.order.itemsCount]
  /\ r.task =>
       /\ r.refund = {}
       /\ r.items = UpdateItemsStatusByOrder(its, "pending_payment", "paid")
       /\ n.verdict = "panic"
  /\ ~r.task =>
       /\ r.items = its
       /\ r.refund = {} \/ \E amount : r.refund = {amount}
       /\ n = r

LEMMA RecalculationShapes ==
  ASSUME NEW ord \in OrderDoc, NEW its, NEW r, NEW n,
         r = RecalculateOrderStatus(ord, its, TRUE),
         n = RecalculateOrderStatus(ord, its, FALSE),
         r.verdict = "commit"
  PROVE  ResultShape(ord, its, r, n)
<1> DEFINE Shape(s) == /\ s.order = [ord EXCEPT !.status = s.order.status,
                                                !.itemsCount = s.order.itemsCount]
                       /\ s.task = FALSE /\ s.items = its
                       /\ s.refund = {} \/ \E amount : s.refund = {amount}
<1>a. /\ ord.total \in Int /\ ord.paid \in Int /\ ord.returned \in Int
      /\ ord.itemsCount \in Nat /\ ord.returnedItemsCount \in Nat
  BY DEF OrderDoc
<1>1. ASSUME NEW status PROVE Shape(Move(ord, its, status))
  BY DEF Move, Commit, Result, OrderDoc
<1>2. Shape(Commit(ord, its))
  BY DEF Commit, Result, OrderDoc
<1>3. ASSUME NEW status, NEW amount
      PROVE  Shape(Result("commit", [ord EXCEPT !.status = status], its, FALSE, {amount}))
  BY DEF Result, OrderDoc
<1>4. ASSUME NEW status, NEW count
      PROVE  Shape(Commit([ord EXCEPT !.status = status, !.itemsCount = count], its))
  BY DEF Commit, Result, OrderDoc
<1>5. \A verdict \in {"error", "panic"} : Abort(ord, its, verdict).verdict = verdict
  BY DEF Abort, Result
<1> HIDE DEF Shape
<1>6. \/ r = n /\ Shape(r)
      \/ r = UpdateOrderToPaid(ord, its, TRUE) /\ n = UpdateOrderToPaid(ord, its, FALSE)
  <2>1. CASE ord.status = "unpaid"
    BY <2>1, <1>1, <1>2 DEF RecalculateOrderStatus, RecalculateUnpaid
  <2>2. CASE ord.status = "partially_paid"
    <3> DEFINE refunding == Result("commit", [ord EXCEPT !.status = "pending_refund"], its,
                                   FALSE, {ord.paid - ord.total})
    <3>1. r = RecalculatePartiallyPaid(ord, its, TRUE) /\ n = RecalculatePartiallyPaid(ord, its, FALSE)
      BY <2>2 DEF RecalculateOrderStatus
    <3>2. Shape(refunding)
      BY <1>3
    <3> HIDE DEF refunding
    <3>3. \/ r = n /\ r \in {Commit(ord, its), Move(ord, its, "canceled"), refunding}
          \/ r = UpdateOrderToPaid(ord, its, TRUE) /\ n = UpdateOrderToPaid(ord, its, FALSE)
      <4>1. \/ ord.total = ord.paid
            \/ ord.total # ord.paid /\ ord.total < ord.paid /\ ~(ord.total > ord.paid)
            \/ ord.total # ord.paid /\ ~(ord.total < ord.paid) /\ ord.total > ord.paid
        BY <1>a
      <4>2. CASE ord.total = ord.paid
        <5>1. ~(ord.total < ord.paid) /\ ~(ord.total > ord.paid)
          BY <1>a, <4>2
        <5> QED
          BY ONLY <3>1, <4>2, <5>1 DEF RecalculatePartiallyPaid
      <4>3. CASE ord.total # ord.paid
        BY ONLY <3>1, <4>1, <4>3 DEF RecalculatePartiallyPaid, refunding
      <4> QED
        BY <4>2, <4>3
    <3> QED
      BY <3>2, <3>3, <1>1, <1>2
  <2>3. CASE ord.status = "pending_refund"
    BY <2>3, <1>1, <1>2 DEF RecalculateOrderStatus, RecalculatePendingRefund
  <2>4. CASE ord.status = "paid"
    BY <2>4, <1>2, <1>4 DEF RecalculateOrderStatus, RecalculatePaid
  <2>5. CASE ord.status = "completed"
    BY <2>5, <1>1, <1>2 DEF RecalculateOrderStatus, RecalculateCompleted
  <2>6. CASE ord.status = "return_in_progress"
    <3>1. r = n /\ r = RecalculateReturnInProgress(ord, its)
      BY <2>6 DEF RecalculateOrderStatus
    <3>2. r \in {Commit(ord, its), Move(ord, its, "completed"), Move(ord, its, "returned"),
                 Move(ord, its, "partially_returned"), Abort(ord, its, "error")}
      BY ONLY <1>a, <3>1 DEF RecalculateReturnInProgress
    <3> QED
      BY <3>1, <3>2, <1>1, <1>2, <1>5
  <2>7. CASE ord.status = "partially_returned"
    BY <2>7, <1>1, <1>2 DEF RecalculateOrderStatus, RecalculatePartiallyReturned
  <2>8. CASE ord.status \in {"canceled", "returned"}
    BY <2>8, <1>5 DEF RecalculateOrderStatus
  <2> QED
    BY <2>1, <2>2, <2>3, <2>4, <2>5, <2>6, <2>7, <2>8 DEF OrderDoc, OrderStatus
<1>7. CASE r = n /\ Shape(r)
  <2>1. /\ r.task \in BOOLEAN /\ ~r.task
        /\ r.order = [ord EXCEPT !.status = r.order.status, !.itemsCount = r.order.itemsCount]
        /\ r.items = its /\ n = r
        /\ r.refund = {} \/ \E amount : r.refund = {amount}
    BY <1>7 DEF Shape
  <2> QED
    BY ONLY <2>1 DEF ResultShape
<1>8. CASE r = UpdateOrderToPaid(ord, its, TRUE) /\ n = UpdateOrderToPaid(ord, its, FALSE)
  <2>1. /\ UpdateOrderToPaid(ord, its, TRUE)
             = Result("commit", [ord EXCEPT !.status = "paid"],
                      UpdateItemsStatusByOrder(its, "pending_payment", "paid"), TRUE, {})
        /\ UpdateOrderToPaid(ord, its, FALSE) = Abort(ord, its, "panic")
    BY DEF UpdateOrderToPaid
  <2>2. /\ r.order = [ord EXCEPT !.status = "paid"]
        /\ r.items = UpdateItemsStatusByOrder(its, "pending_payment", "paid")
        /\ r.task = TRUE /\ r.refund = {} /\ n.verdict = "panic"
    <3> DEFINE moved == UpdateItemsStatusByOrder(its, "pending_payment", "paid")
               new   == [ord EXCEPT !.status = "paid"]
    <3>1. r = Result("commit", new, moved, TRUE, {}) /\ n = Abort(ord, its, "panic")
      BY <1>8, <2>1
    <3> HIDE DEF moved, new
    <3>2. r.order = new /\ r.items = moved /\ r.task = TRUE /\ r.refund = {}
      BY ONLY <3>1 DEF Result
    <3> QED
      BY <1>5, <3>1, <3>2 DEF moved, new
  <2>3. r.order = [ord EXCEPT !.status = r.order.status, !.itemsCount = r.order.itemsCount]
    BY <2>2 DEF OrderDoc
  <2> QED
    BY ONLY <2>2, <2>3 DEF ResultShape
<1> QED
  BY <1>6, <1>7, <1>8

LEMMA RecalculatedShapes ==
  ASSUME NEW d \in Database, NEW r, r = Recalculated(d), r.verdict = "commit",
         NEW n, n = RecalculateOrderStatus(d.order, d.items, FALSE)
  PROVE  /\ r.order \in OrderDoc
         /\ r.order.paid = d.order.paid
         /\ d.order.status # "canceled"
         /\ ResultShape(d.order, d.items, r, n)
<1>1. d.order \in OrderDoc /\ d.items \in [Items -> ItemStatusOrNone] /\ IsFiniteSet(Items)
  BY SettlementAssumption DEF Database, ItemStatusOrNone
<1>2. r = RecalculateOrderStatus(d.order, d.items, TRUE)
  BY DEF Recalculated
<1>3. RecalculationEffect(d.order, d.items, r) /\ d.order.status # "canceled"
  <2>1. RecalculateOrderStatus(d.order, d.items, TRUE).verdict = "commit"
    BY <1>2
  <2> QED
    BY <1>1, <1>2, <2>1, RecalculationIsSound
<1>4. r.order \in OrderDoc /\ r.order.paid = d.order.paid
  BY <1>3 DEF RecalculationEffect, SameMoney
<1> QED
  BY <1>1, <1>2, <1>3, <1>4, RecalculationShapes

(* Storing a result query by query is applying it.                          *)
LEMMA StoredIsApplied ==
  ASSUME NEW d \in Database, NEW r, r = Recalculated(d), r.verdict = "commit"
  PROVE  /\ r = Commit(d.order, d.items) => d = ApplyResult(d, r, FALSE)
         /\ ~r.task /\ r.refund = {} => \A p \in BOOLEAN : StoreResult(d, r) = ApplyResult(d, r, p)
         /\ ~r.task /\ r.refund # {} =>
              \A p \in BOOLEAN : OpenRefundBill(StoreResult(d, r)) = ApplyResult(d, r, p)
         /\ r.task => LET m == MoveItems(StoreResult(d, r), "pending_payment", "paid")
                      IN  /\ m = ApplyResult(d, r, FALSE)
                          /\ PublishTicketGenerationTask(m) = ApplyResult(d, r, TRUE)
<1> DEFINE m == MoveItems(StoreResult(d, r), "pending_payment", "paid")
<1>0. r.order \in OrderDoc /\ \E n : ResultShape(d.order, d.items, r, n)
  BY RecalculatedShapes
<1>1. /\ r.order \in OrderDoc /\ r.task \in BOOLEAN
      /\ r.order = [d.order EXCEPT !.status = r.order.status, !.itemsCount = r.order.itemsCount]
      /\ r.task => /\ r.refund = {}
                   /\ r.items = UpdateItemsStatusByOrder(d.items, "pending_payment", "paid")
      /\ ~r.task => r.items = d.items /\ (r.refund = {} \/ \E amount : r.refund = {amount})
  BY ONLY <1>0 DEF ResultShape
<1>2. StoreResult(d, r) = [d EXCEPT !.order = r.order]
  <2> DEFINE new == r.order
  <2>1. new = [d.order EXCEPT !.status = new.status, !.itemsCount = new.itemsCount]
    BY <1>1
  <2> HIDE DEF new
  <2>2. [d EXCEPT !.order.status = new.status, !.order.itemsCount = new.itemsCount]
          = [d EXCEPT !.order = [@ EXCEPT !.status = new.status, !.itemsCount = new.itemsCount]]
    BY DEF Database, OrderDoc
  <2> QED
    BY <2>1, <2>2 DEF StoreResult, new
<1>3. /\ d.refunds \in Nat /\ d.tasks \in Nat
      /\ r.refund = {} => d.refunds + Cardinality(r.refund) = d.refunds
      /\ (\E amount : r.refund = {amount}) => d.refunds + Cardinality(r.refund) = d.refunds + 1
  <2>1. d.refunds \in Nat /\ d.tasks \in Nat
    BY DEF Database
  <2>2. r.refund = {} => Cardinality(r.refund) = 0
    BY FS_EmptySet
  <2>3. (\E amount : r.refund = {amount}) => Cardinality(r.refund) = 1
    BY FS_Singleton
  <2>4. r.refund = {} => d.refunds + Cardinality(r.refund) = d.refunds
    BY <2>1, <2>2
  <2>5. (\E amount : r.refund = {amount}) => d.refunds + Cardinality(r.refund) = d.refunds + 1
    BY <2>3
  <2> QED
    BY <2>1, <2>4, <2>5
<1>4. ASSUME r.refund = {}, ~r.task, NEW p \in BOOLEAN
      PROVE  [d EXCEPT !.order = r.order] = ApplyResult(d, r, p)
  <2>1. r.items = d.items
    BY <1>1, <1>4
  <2> QED
    BY <1>3, <1>4, <2>1 DEF ApplyResult, Database
<1>5. ASSUME r = Commit(d.order, d.items)
      PROVE  d = ApplyResult(d, r, FALSE)
  <2>1. r.order = d.order /\ ~r.task /\ r.refund = {}
    BY <1>5 DEF Commit, Result
  <2>2. d = [d EXCEPT !.order = r.order]
    BY <2>1 DEF Database
  <2> QED
    BY <1>4, <2>1, <2>2
<1>6. ASSUME ~r.task, r.refund # {}, NEW p \in BOOLEAN
      PROVE  OpenRefundBill(StoreResult(d, r)) = ApplyResult(d, r, p)
  <2>1. r.items = d.items /\ \E amount : r.refund = {amount}
    BY <1>1, <1>6
  <2>2. OpenRefundBill([d EXCEPT !.order = r.order])
          = [d EXCEPT !.order = r.order, !.refunds = d.refunds + 1]
    BY DEF OpenRefundBill, Database
  <2> QED
    BY <1>2, <1>3, <1>6, <2>1, <2>2, ZenonT(60) DEF ApplyResult, Database
<1>7. ASSUME r.task
      PROVE  /\ m = ApplyResult(d, r, FALSE)
             /\ PublishTicketGenerationTask(m) = ApplyResult(d, r, TRUE)
  <2>1. r.refund = {} /\ r.items = UpdateItemsStatusByOrder(d.items, "pending_payment", "paid")
    BY <1>1, <1>7
  <2>2. m = [d EXCEPT !.order = r.order, !.items = r.items]
    BY <1>2, <2>1 DEF MoveItems, Database
  <2> HIDE DEF m
  <2>3. PublishTicketGenerationTask(m)
          = [d EXCEPT !.order = r.order, !.items = r.items, !.tasks = d.tasks + 1]
    BY <2>2 DEF PublishTicketGenerationTask, Database
  <2>4. ApplyResult(d, r, FALSE) = [d EXCEPT !.order = r.order, !.items = r.items]
    BY <1>3, <2>1 DEF ApplyResult, Database
  <2>5. ApplyResult(d, r, TRUE) = [d EXCEPT !.order = r.order, !.items = r.items,
                                            !.tasks = d.tasks + 1]
    BY <1>3, <1>7, <2>1 DEF ApplyResult, Database
  <2> QED
    BY <2>2, <2>3, <2>4, <2>5
<1> QED
  BY <1>2, <1>4, <1>5, <1>6, <1>7

-----------------------------------------------------------------------------
(* What a handler has made of d when it recalculates the order.             *)
Made(d) == IF d.order.status = "paid" THEN CreateTickets(d) ELSE d

Ready(d, j) ==
  IF j = <<"tickets">>
  THEN MoveItems(Made(d), "paid", "delivered")
  ELSE MarkBill(Credit(d, j[1]), j[1], "paid")

(* A cancellation that has still to cancel the bills f.                     *)
CanceledBut(d, f) ==
  [d EXCEPT !.bills = [b \in Bills |-> IF @[b] = "pending" /\ b \notin f
                                       THEN "canceled" ELSE @[b]]]

Outcomes(d, j) ==
  CASE j = <<"tickets">> -> Fulfilled(d)
    [] j = <<"cancel">>  -> Canceled(d)
    [] OTHER             -> Settled(d, j[1], j[2] = "success")

LEMMA ReadyIsTyped ==
  ASSUME NEW d \in Database, NEW j \in Results \union {<<"tickets">>}
  PROVE  Made(d) \in Database /\ Ready(d, j) \in Database
<1>1. Made(d) \in Database
  BY QueriesAreTyped DEF Made
<1>2. ASSUME j = <<"tickets">> PROVE Ready(d, j) \in Database
  <2>1. "paid" \in ItemStatus /\ "delivered" \in ItemStatus
    BY DEF ItemStatus
  <2> QED
    BY <1>1, <1>2, <2>1, QueriesAreTyped DEF Ready
<1>3. ASSUME j \in Results PROVE Ready(d, j) \in Database
  <2>1. j[1] \in Bills /\ j # <<"tickets">> /\ "paid" \in BillStatus
    BY <1>3, JobsAreDistinct DEF BillStatus
  <2>2. Credit(d, j[1]) \in Database
    BY <2>1, QueriesAreTyped
  <2> QED
    BY <2>1, <2>2, QueriesAreTyped DEF Ready
<1> QED
  BY <1>1, <1>2, <1>3

(* A committed recalculation, applied, is an outcome of its handler.        *)
LEMMA AppliedIsOutcome ==
  ASSUME NEW d \in Database, NEW j \in Results \union {<<"tickets">>}, NEW p \in BOOLEAN,
         j \in Results => j[2] = "success" /\ d.bills[j[1]] = "pending",
         Recalculated(Ready(d, j)).verdict = "commit",
         j = <<"tickets">> => ~Recalculated(Ready(d, j)).task
  PROVE  ApplyResult(Ready(d, j), Recalculated(Ready(d, j)), p) \in Outcomes(d, j)
<1> DEFINE ready == Ready(d, j)
           r     == Recalculated(ready)
<1>1. ready \in Database
  BY ReadyIsTyped
<1>2. CASE j = <<"tickets">>
  <2> DEFINE n == RecalculateOrderStatus(ready.order, ready.items, FALSE)
  <2>1. ~r.task /\ n = r
    <3>1. ready \in Database /\ r = Recalculated(ready) /\ r.verdict = "commit" /\ ~r.task
      BY <1>1, <1>2
    <3> HIDE DEF ready, r
    <3>2. ResultShape(ready.order, ready.items, r, n)
      BY <3>1, RecalculatedShapes
    <3> QED
      BY ONLY <3>1, <3>2 DEF ResultShape
  <2>2. Outcomes(d, j) = Fulfilled(d)
    BY <1>2 DEF Outcomes
  <2>3. ready = MoveItems(Made(d), "paid", "delivered")
    BY <1>2 DEF Ready
  <2>4. n.verdict = "commit"
    BY <2>1
  <2>5. Fulfilled(d) = {ApplyResult(ready, n, FALSE)}
    BY <2>3, <2>4 DEF Fulfilled, Made
  <2>6. ApplyResult(ready, r, p) = ApplyResult(ready, r, FALSE)
    <3> HIDE DEF ready, r
    <3> QED
      BY <2>1 DEF ApplyResult
  <2> QED
    BY <2>1, <2>2, <2>5, <2>6
<1>3. CASE j \in Results
  <2>1. /\ j # <<"tickets">> /\ j # <<"cancel">> /\ j[1] \in Bills
        /\ j[2] = "success" /\ d.bills[j[1]] = "pending"
    BY <1>3, JobsAreDistinct
  <2>2. Outcomes(d, j) = Settled(d, j[1], TRUE)
    BY <2>1 DEF Outcomes
  <2>3. ready = MarkBill(Credit(d, j[1]), j[1], "paid")
    BY <2>1 DEF Ready
  <2>4. MarkBill(Credit(d, j[1]), j[1], "paid") = Credit(MarkBill(d, j[1], "paid"), j[1])
    BY <2>1 DEF MarkBill, Credit, Database, OrderDoc
  <2>5. r = RecalculateOrderStatus(ready.order, ready.items, TRUE)
    BY DEF Recalculated
  <2> HIDE DEF ready, r
  <2>6. r.verdict = "commit"
    BY DEF ready, r
  <2>7. Settled(d, j[1], TRUE) = {ApplyResult(ready, r, published) : published \in BOOLEAN}
    BY <2>1, <2>3, <2>4, <2>5, <2>6 DEF Settled
  <2> QED
    BY <2>2, <2>7 DEF ready, r
<1> QED
  BY <1>2, <1>3

-----------------------------------------------------------------------------
(* The invariant.                                                           *)

ResultPlaces == {"bill", "credit", "mark", "refetch"}
TicketPlaces == {"fetch", "insert", "deliver"}
SharedPlaces == {"recalculate", "status", "refund", "items", "publish"}
CancelPlaces == {"order", "bills", "void", "cancel_items", "close"}

(* A worker is where the handler of its job can be.                         *)
Fits(place, j) ==
  /\ place = "idle" => j = NoJob
  /\ place = "commit" => j \in Jobs
  /\ place \in ResultPlaces => j \in Results
  /\ place \in TicketPlaces => j = <<"tickets">>
  /\ place \in SharedPlaces => j \in Results \union {<<"tickets">>}
  /\ place \in {"credit"} \union SharedPlaces /\ j \in Results => j[2] = "success"
  /\ place \in CancelPlaces => j = <<"cancel">>

Waiting(d, j) == d.bills[j[1]] = "pending"

(* What a handler of job j sees that began on d, with its plan r and the    *)
(* bills f it has found.                                                    *)
ResultStage(place, j, d, v) ==
  /\ place = "bill" => v = d
  /\ place = "credit" => v = d /\ Waiting(d, j)
  /\ place = "mark" =>
       Waiting(d, j) /\ v = (IF j[2] = "success" THEN Credit(d, j[1]) ELSE d)
  /\ place = "refetch" =>
       /\ Waiting(d, j)
       /\ v = (IF j[2] = "success" THEN Ready(d, j) ELSE MarkBill(d, j[1], "failed"))

TicketStage(place, d, v) ==
  /\ place = "fetch" => v = d
  /\ place = "insert" => v = d /\ d.order.status = "paid"
  /\ place = "deliver" => v = Made(d)

SharedStage(place, j, d, v, r) ==
  /\ place \in SharedPlaces /\ j \in Results => Waiting(d, j)
  /\ place \in {"recalculate", "status"} => v = Ready(d, j)
  /\ place \in SharedPlaces \ {"recalculate"} =>
       r = Recalculated(Ready(d, j)) /\ r.verdict = "commit"
  /\ place = "refund" => v = StoreResult(Ready(d, j), r) /\ ~r.task /\ r.refund # {}
  /\ place = "items" => v = StoreResult(Ready(d, j), r) /\ r.task
  /\ place = "publish" =>
       v = MoveItems(StoreResult(Ready(d, j), r), "pending_payment", "paid") /\ r.task

CancelStage(place, d, v, f) ==
  /\ place = "order" => v = d
  /\ place \in CancelPlaces \ {"order"} => d.order.status = "unpaid"
  /\ place = "bills" => v = d
  /\ place = "void" => v = CanceledBut(d, f) /\ \A b \in f : d.bills[b] = "pending"
  /\ place = "cancel_items" => v = CanceledBut(d, {})
  /\ place = "close" => v = MoveItems(CanceledBut(d, {}), "pending_payment", "canceled")

Stage(place, j, d, v, r, f) ==
  /\ ResultStage(place, j, d, v)
  /\ TicketStage(place, d, v)
  /\ SharedStage(place, j, d, v, r)
  /\ CancelStage(place, d, v, f)
  /\ place = "commit" => v = d \/ v \in Outcomes(d, j)

InPlace ==
  \A w \in Workers : /\ Fits(pc[w], job[w])
                     /\ plan[w].order \in OrderDoc /\ plan[w].task \in BOOLEAN

(* A document that a transaction has changed is changed by no other, and    *)
(* was not committed since it began.                                        *)
OneWriter ==
  \A w \in Workers : wrote[w] # {} =>
    /\ manager = "mongo" /\ pc[w] # "idle" /\ wrote[w] \cap stale[w] = {}
    /\ \A v \in Workers \ {w} : wrote[w] \cap wrote[v] = {}

PaidBills(d) == {b \in Bills : d.bills[b] = "paid"}

ItemsOf(status) ==
  IF status = "paid" THEN "paid"
  ELSE IF status = "completed" THEN "delivered"
  ELSE IF status = "canceled" THEN "canceled" ELSE "pending_payment"

(* What whole handlers make of the order: it has the money of the bills     *)
(* that are paid, its status goes for its items, and no bill is open once   *)
(* it is paid or canceled.                                                  *)
Sound(d) ==
  /\ d.order.total = Total /\ d.order.returned = 0
  /\ d.order.paid = SumOver(Amount, PaidBills(d))
  /\ d.order.status \in {"unpaid", "partially_paid", "paid", "completed", "canceled"}
  /\ \A i \in Items : d.items[i] = ItemsOf(d.order.status)
  /\ d.order.status = "partially_paid" => d.order.paid > 0
  /\ d.order.status \in {"paid", "completed", "canceled"} =>
       \A b \in Bills : d.bills[b] # "pending"

CommittedIsSound == manager = "mongo" => Sound(db)

(* A snapshot d of what is now e, when docs were committed in between.      *)
SnapshotOf(d, e, docs) ==
  /\ Sound(d)
  /\ d.tickets = [i \in Items |-> 0] /\ d.tasks = 0 /\ d.refunds = 0
  /\ DifferIn(d, e, docs)
  /\ \A b \in Bills : e.bills[b] = "pending" => d.bills[b] = "pending"

(* A worker is at a stage of its handler, run on d.                         *)
At(w, d) == d \in Database /\ Stage(pc[w], job[w], d, view[w], plan[w], found[w])

(* In a transaction a worker is at a stage of its handler, run on a         *)
(* snapshot of what is committed, and it has changed what it has written.   *)
FollowsCommitted ==
  manager = "mongo" =>
    \A w \in Workers : pc[w] # "idle" =>
      \E d \in Database : /\ At(w, d)
                          /\ SnapshotOf(d, db, stale[w]) /\ DifferIn(d, view[w], wrote[w])

(* The bills that are paid, or about to be marked so after the credit.      *)
Covered ==
  {b \in Bills : \/ db.bills[b] = "paid"
                 \/ /\ manager = "noop"
                    /\ \E w \in Workers : pc[w] = "mark" /\ job[w] = <<b, "success">>}

CoveredIsCredited == SumOver(Amount, Covered) <= db.order.paid

IInv ==
  /\ TypeOK /\ InPlace /\ OneWriter
  /\ CommittedIsSound /\ FollowsCommitted /\ CoveredIsCredited

-----------------------------------------------------------------------------
LEMMA DatabaseParts ==
  ASSUME NEW d \in Database
  PROVE  /\ d.order \in OrderDoc /\ d.order.paid \in Int /\ d.order.status \in OrderStatus
         /\ d.items \in [Items -> ItemStatus]
         /\ d.bills \in [Bills -> BillStatus]
         /\ d.tickets \in [Items -> Nat] /\ d.tasks \in Nat /\ d.refunds \in Nat
BY DEF Database, OrderDoc

(* The credit covers fewer bills.                                           *)
LEMMA FewerCovered ==
  ASSUME IInv, db' \in Database, Covered' \subseteq Covered, db'.order.paid >= db.order.paid
  PROVE  CoveredIsCredited'
<1> DEFINE now == Covered
           new == Covered'
<1>1. now \in SUBSET Bills /\ new \in SUBSET now
  BY DEF Covered
<1>2. db.order.paid \in Int /\ db'.order.paid \in Int
  BY DatabaseParts DEF IInv, TypeOK
<1>3. SumOver(Amount, now) <= db.order.paid
  BY DEF IInv, CoveredIsCredited
<1> HIDE DEF now, new
<1>4. SumOver(Amount, new) <= SumOver(Amount, now)
  BY <1>1, AmountsAddUp, SumOfPart
<1>5. SumOver(Amount, now) \in Int /\ SumOver(Amount, new) \in Int
  BY <1>1, AmountsAddUp
<1>6. SumOver(Amount, new) <= db'.order.paid
  BY <1>2, <1>3, <1>4, <1>5
<1> QED
  BY <1>6 DEF CoveredIsCredited, new

(* A step of one worker that commits nothing in a transaction: what it owes *)
(* is about itself.                                                         *)
LEMMA StepOfWorker ==
  ASSUME IInv, NEW w \in Workers, TypeOK',
         UNCHANGED manager, manager = "mongo" => UNCHANGED db,
         \A v \in Workers \ {w} :
           /\ pc'[v] = pc[v] /\ job'[v] = job[v] /\ view'[v] = view[v] /\ wrote'[v] = wrote[v]
           /\ stale'[v] = stale[v] /\ plan'[v] = plan[v] /\ found'[v] = found[v],
         Fits(pc'[w], job'[w]), plan'[w].order \in OrderDoc, plan'[w].task \in BOOLEAN,
         wrote'[w] # {} => /\ manager = "mongo" /\ pc'[w] # "idle"
                           /\ wrote'[w] \cap stale'[w] = {}
                           /\ \A v \in Workers \ {w} : wrote'[w] \cap wrote[v] = {},
         manager = "mongo" /\ pc'[w] # "idle" =>
           \E d \in Database : /\ At(w, d)'
                               /\ SnapshotOf(d, db, stale'[w]) /\ DifferIn(d, view'[w], wrote'[w]),
         CoveredIsCredited'
  PROVE  IInv'
<1>1. InPlace'
  <2> SUFFICES ASSUME NEW v \in Workers
               PROVE  /\ Fits(pc'[v], job'[v])
                      /\ plan'[v].order \in OrderDoc /\ plan'[v].task \in BOOLEAN
    BY DEF InPlace
  <2>1. CASE v = w
    BY <2>1
  <2>2. CASE v # w
    BY <2>2 DEF IInv, InPlace
  <2> QED
    BY <2>1, <2>2
<1>2. OneWriter'
  <2> SUFFICES ASSUME NEW u \in Workers, wrote'[u] # {}
               PROVE  /\ manager = "mongo" /\ pc'[u] # "idle" /\ wrote'[u] \cap stale'[u] = {}
                      /\ \A v \in Workers \ {u} : wrote'[u] \cap wrote'[v] = {}
    BY DEF OneWriter
  <2>1. CASE u = w
    BY <2>1
  <2>2. CASE u # w
    <3>1. /\ wrote[u] # {} /\ wrote'[u] = wrote[u] /\ stale'[u] = stale[u] /\ pc'[u] = pc[u]
          /\ manager = "mongo" /\ pc[u] # "idle" /\ wrote[u] \cap stale[u] = {}
          /\ \A v \in Workers \ {u} : wrote[u] \cap wrote[v] = {}
      BY <2>2 DEF IInv, OneWriter
    <3>2. wrote[u] \cap wrote'[w] = {}
      BY <2>2
    <3> QED
      BY <2>2, <3>1, <3>2
  <2> QED
    BY <2>1, <2>2
<1>3. FollowsCommitted'
  <2> SUFFICES ASSUME manager = "mongo", NEW v \in Workers, pc'[v] # "idle"
               PROVE  \E d \in Database : /\ At(v, d)'
                                          /\ SnapshotOf(d, db, stale'[v])
                                          /\ DifferIn(d, view'[v], wrote'[v])
    BY DEF FollowsCommitted
  <2>1. CASE v = w
    BY <2>1
  <2>2. CASE v # w
    <3>1. PICK d \in Database : At(v, d) /\ SnapshotOf(d, db, stale[v]) /\ DifferIn(d, view[v], wrote[v])
      BY <2>2 DEF IInv, FollowsCommitted
    <3>2. At(v, d)'
      BY <2>2, <3>1 DEF At
    <3> QED
      BY <2>2, <3>1, <3>2
  <2> QED
    BY <2>1, <2>2
<1>4. CommittedIsSound'
  BY DEF IInv, CommittedIsSound
<1> QED
  BY <1>1, <1>2, <1>3, <1>4 DEF IInv

(* Only a worker that comes to mark a bill covers one.                      *)
LEMMA SameCovered ==
  ASSUME IInv, NEW w \in Workers, UNCHANGED <<db, manager>>,
         \A v \in Workers \ {w} : pc'[v] = pc[v] /\ job'[v] = job[v],
         manager = "noop" => pc'[w] # "mark" \/ job'[w][2] # "success"
  PROVE  CoveredIsCredited'
<1>1. ASSUME NEW b \in Bills, b \in Covered'
      PROVE  b \in Covered
  <2>1. CASE db.bills[b] = "paid"
    BY <2>1 DEF Covered
  <2>2. CASE /\ manager = "noop"
             /\ \E v \in Workers : pc'[v] = "mark" /\ job'[v] = <<b, "success">>
    <3>1. PICK v \in Workers : pc'[v] = "mark" /\ job'[v] = <<b, "success">>
      BY <2>2
    <3>2. v # w
      BY <2>2, <3>1
    <3> QED
      BY <2>2, <3>1, <3>2 DEF Covered
  <2> QED
    BY <1>1, <2>1, <2>2 DEF Covered
<1>2. Covered' \subseteq Covered
  BY <1>1 DEF Covered
<1>3. db' \in Database /\ db'.order.paid >= db.order.paid
  BY DatabaseParts DEF IInv, TypeOK
<1> QED
  BY <1>2, <1>3, FewerCovered

LEMMA NoPlanIsTyped == NoPlan.order \in OrderDoc /\ NoPlan.task \in BOOLEAN
<1>1. NewDatabase.order \in OrderDoc
  BY NewDatabaseType, DatabaseParts
<1> QED
  BY <1>1 DEF NoPlan, Commit, Result

LEMMA BeginsInPlace ==
  ASSUME NEW j \in Jobs, NEW d, NEW r, NEW f
  PROVE  /\ First(j) \in Places \ {"idle", "mark"} /\ Fits(First(j), j)
         /\ Stage(First(j), j, d, d, r, f)
<1>1. CASE j \in Results
  <2>1. First(j) = "bill"
    BY <1>1, JobsAreDistinct DEF First
  <2> QED
    BY <1>1, <2>1 DEF Places, Fits, ResultPlaces, TicketPlaces, SharedPlaces, CancelPlaces,
                      Stage, ResultStage, TicketStage, SharedStage, CancelStage
<1>2. CASE j = <<"tickets">>
  <2>1. First(j) = "fetch"
    BY <1>2 DEF First
  <2> QED
    BY <1>2, <2>1 DEF Places, Fits, ResultPlaces, TicketPlaces, SharedPlaces, CancelPlaces,
                      Stage, ResultStage, TicketStage, SharedStage, CancelStage
<1>3. CASE j = <<"cancel">>
  <2>1. First(j) = "order"
    BY <1>3, JobsAreDistinct DEF First
  <2> QED
    BY <1>3, <2>1 DEF Places, Fits, ResultPlaces, TicketPlaces, SharedPlaces, CancelPlaces,
                      Stage, ResultStage, TicketStage, SharedStage, CancelStage
<1> QED
  BY <1>1, <1>2, <1>3, JobsAreDistinct

LEMMA SnapshotIsSound ==
  ASSUME IInv, manager = "mongo"
  PROVE  Snapshot \in Database /\ SnapshotOf(Snapshot, db, {}) /\ DifferIn(Snapshot, Snapshot, {})
<1>1. db \in Database /\ Sound(db)
  BY DEF IInv, TypeOK, CommittedIsSound
<1>2. Snapshot = [db EXCEPT !.tickets = [i \in Items |-> 0], !.tasks = 0, !.refunds = 0]
  BY DEF Snapshot, NewDatabase
<1>3. /\ Snapshot \in Database /\ Snapshot.order = db.order /\ Snapshot.items = db.items
      /\ Snapshot.bills = db.bills
      /\ Snapshot.tickets = [i \in Items |-> 0] /\ Snapshot.tasks = 0 /\ Snapshot.refunds = 0
  BY <1>1, <1>2 DEF Database
<1>4. Sound(Snapshot)
  BY <1>1, <1>3 DEF Sound, PaidBills
<1> QED
  BY <1>3, <1>4 DEF SnapshotOf, DifferIn

(* A handler that begins, or begins again.                                  *)
LEMMA BeginKeeps ==
  ASSUME IInv, NEW w \in Workers, NEW j \in Jobs, Begin(w, j), job' = [job EXCEPT ![w] = j],
         UNCHANGED <<db, manager, copies, faults, swallowed>>, queue' \in [Jobs -> Nat]
  PROVE  IInv'
<1>1. /\ pc' = [pc EXCEPT ![w] = First(j)]
      /\ view' = [view EXCEPT ![w] = IF manager = "mongo" THEN Snapshot ELSE NewDatabase]
      /\ wrote' = [wrote EXCEPT ![w] = {}]
      /\ stale' = [stale EXCEPT ![w] = {}]
      /\ plan' = [plan EXCEPT ![w] = NoPlan]
      /\ found' = [found EXCEPT ![w] = {}]
  BY DEF Begin
<1>2. First(j) \in Places /\ First(j) # "mark" /\ Fits(First(j), j)
  BY BeginsInPlace
<1>3. TypeOK'
  <2>1. (IF manager = "mongo" THEN Snapshot ELSE NewDatabase) \in Database
    BY NewDatabaseType, SnapshotIsSound
  <2> QED
    BY <1>1, <1>2, <2>1 DEF IInv, TypeOK
<1>4. /\ pc'[w] = First(j) /\ job'[w] = j /\ wrote'[w] = {} /\ plan'[w] = NoPlan
      /\ stale'[w] = {} /\ found'[w] = {}
      /\ manager = "mongo" => view'[w] = Snapshot
  BY <1>1 DEF IInv, TypeOK
<1>5. \A v \in Workers \ {w} :
           /\ pc'[v] = pc[v] /\ job'[v] = job[v] /\ view'[v] = view[v] /\ wrote'[v] = wrote[v]
           /\ stale'[v] = stale[v] /\ plan'[v] = plan[v] /\ found'[v] = found[v]
  BY <1>1 DEF IInv, TypeOK
<1>6. CoveredIsCredited'
  BY <1>2, <1>4, <1>5, SameCovered
<1>7. manager = "mongo" =>
        \E d \in Database : /\ At(w, d)'
                            /\ SnapshotOf(d, db, stale'[w]) /\ DifferIn(d, view'[w], wrote'[w])
  <2> SUFFICES ASSUME manager = "mongo"
               PROVE  \E d \in Database : /\ At(w, d)'
                                          /\ SnapshotOf(d, db, stale'[w])
                                          /\ DifferIn(d, view'[w], wrote'[w])
    OBVIOUS
  <2>1. PICK d \in Database : d = Snapshot
    BY SnapshotIsSound
  <2>2. Stage(First(j), j, d, d, NoPlan, {})
    BY BeginsInPlace
  <2>3. At(w, d)'
    BY <1>4, <2>1, <2>2 DEF At
  <2> QED
    BY <1>4, <2>1, <2>3, SnapshotIsSound
<1> QED
  BY <1>2, <1>3, <1>4, <1>5, <1>6, <1>7, NoPlanIsTyped, StepOfWorker

LEMMA JobOfWorker ==
  ASSUME IInv, NEW w \in Workers, pc[w] # "idle"
  PROVE  job[w] \in Jobs
<1>1. Fits(pc[w], job[w]) /\ pc[w] \in Places
  BY DEF IInv, InPlace, TypeOK
<1>2. \A j \in Results \union {<<"tickets">>, <<"cancel">>} : j \in Jobs
  BY JobsAreDistinct DEF Jobs
<1> QED
  BY <1>1, <1>2 DEF Fits, Places, ResultPlaces, TicketPlaces, SharedPlaces, CancelPlaces

LEMMA RetryKeeps ==
  ASSUME IInv, NEW w \in Workers, pc[w] # "idle", NEW docs, Retry(w, docs)
  PROVE  IInv'
<1>1. job[w] \in Jobs
  BY JobOfWorker
<1>2. /\ Begin(w, job[w])
      /\ UNCHANGED <<db, manager, queue, copies, job, faults, swallowed>>
  BY DEF Retry
<1>3. job' = [job EXCEPT ![w] = job[w]] /\ queue' \in [Jobs -> Nat]
  BY <1>2 DEF IInv, TypeOK
<1> QED
  BY <1>1, <1>2, <1>3, BeginKeeps

OwnWrites(w) ==
  wrote[w] # {} => /\ manager = "mongo" /\ wrote[w] \cap stale[w] = {}
                   /\ \A v \in Workers \ {w} : wrote[w] \cap wrote[v] = {}

LEMMA OwnsItsWrites ==
  ASSUME IInv, NEW w \in Workers
  PROVE  OwnWrites(w)
BY DEF IInv, OneWriter, OwnWrites

(* A query that writes nothing.                                             *)
LEMMA GoOnKeeps ==
  ASSUME IInv, NEW w \in Workers, NEW next \in Places \ {"idle"}, GoOn(w, next),
         Fits(next, job[w]),
         manager = "noop" => next # "mark" \/ job[w][2] # "success",
         manager = "mongo" =>
           \A d : At(w, d) => Stage(next, job[w], d, view[w], plan[w], found[w]),
         pc[w] # "idle"
  PROVE  IInv'
<1>1. /\ pc' = [pc EXCEPT ![w] = next]
      /\ UNCHANGED <<db, manager, queue, copies, job, view, wrote, stale, plan, found,
                     faults, swallowed>>
  BY DEF GoOn
<1>2. pc'[w] = next /\ \A v \in Workers \ {w} : pc'[v] = pc[v]
  BY <1>1 DEF IInv, TypeOK
<1>3. TypeOK'
  BY <1>1 DEF IInv, TypeOK
<1>4. CoveredIsCredited'
  BY <1>1, <1>2, SameCovered
<1>5. plan[w].order \in OrderDoc /\ plan[w].task \in BOOLEAN
  BY DEF IInv, InPlace
<1>6. OwnWrites(w)
  BY OwnsItsWrites
<1>7. manager = "mongo" =>
        \E d \in Database : /\ At(w, d)'
                            /\ SnapshotOf(d, db, stale[w]) /\ DifferIn(d, view[w], wrote[w])
  <2> SUFFICES ASSUME manager = "mongo"
               PROVE  \E d \in Database : /\ At(w, d)'
                                          /\ SnapshotOf(d, db, stale[w])
                                          /\ DifferIn(d, view[w], wrote[w])
    OBVIOUS
  <2>1. PICK d \in Database : At(w, d) /\ SnapshotOf(d, db, stale[w]) /\ DifferIn(d, view[w], wrote[w])
    BY DEF IInv, FollowsCommitted
  <2>2. At(w, d)'
    BY <1>1, <1>2, <2>1 DEF At
  <2> QED
    BY <2>1, <2>2
<1> QED
  BY <1>1, <1>2, <1>3, <1>4, <1>5, <1>6, <1>7, StepOfWorker DEF OwnWrites

(* A query that writes `new`, changing docs.                                *)
LEMMA PutKeeps ==
  ASSUME IInv, NEW w \in Workers, NEW new \in Database, NEW next \in Places \ {"idle"},
         NEW docs \in SUBSET Documents, DifferIn(Seen(w), new, docs),
         Put(w, docs, new, next), NEW f \in SUBSET Bills, found' = [found EXCEPT ![w] = f],
         Fits(next, job[w]), pc[w] # "idle",
         manager = "noop" => CoveredIsCredited',
         manager = "mongo" => \A d : At(w, d) => Stage(next, job[w], d, new, plan[w], f)
  PROVE  IInv'
<1>1. /\ ~Conflict(w, docs)
      /\ pc' = [pc EXCEPT ![w] = next]
      /\ UNCHANGED <<manager, queue, copies, job, stale, plan, faults, swallowed>>
  BY DEF Put
<1>2. /\ pc'[w] = next /\ \A v \in Workers \ {w} : pc'[v] = pc[v]
      /\ found'[w] = f /\ \A v \in Workers \ {w} : found'[v] = found[v]
  BY <1>1 DEF IInv, TypeOK
<1>3. plan[w].order \in OrderDoc /\ plan[w].task \in BOOLEAN
  BY DEF IInv, InPlace
<1>4. manager \in {"mongo", "noop"}
  BY DEF IInv, TypeOK
<1>5. CASE manager = "mongo"
  <2>1. /\ view' = [view EXCEPT ![w] = new] /\ wrote' = [wrote EXCEPT ![w] = @ \union docs]
        /\ UNCHANGED db
    BY <1>5 DEF Put
  <2>2. TypeOK'
    BY <1>1, <2>1 DEF IInv, TypeOK
  <2>3. /\ view'[w] = new /\ wrote'[w] = wrote[w] \union docs
        /\ \A v \in Workers \ {w} : view'[v] = view[v] /\ wrote'[v] = wrote[v]
    BY <2>1 DEF IInv, TypeOK
  <2>4. /\ (wrote[w] \union docs) \cap stale[w] = {}
        /\ \A v \in Workers \ {w} : (wrote[w] \union docs) \cap wrote[v] = {}
    <3>1. docs \cap stale[w] = {} /\ \A v \in Workers \ {w} : docs \cap wrote[v] = {}
      BY <1>1, <1>5 DEF Conflict
    <3>2. wrote[w] \cap stale[w] = {} /\ \A v \in Workers \ {w} : wrote[w] \cap wrote[v] = {}
      BY OwnsItsWrites DEF OwnWrites
    <3> QED
      BY <3>1, <3>2
  <2>5. CoveredIsCredited'
    BY <1>1, <1>2, <1>5, <2>1, SameCovered
  <2>6. \E d \in Database : /\ At(w, d)'
                            /\ SnapshotOf(d, db, stale[w])
                            /\ DifferIn(d, view'[w], wrote'[w])
    <3>1. PICK d \in Database : At(w, d) /\ SnapshotOf(d, db, stale[w]) /\ DifferIn(d, view[w], wrote[w])
      BY <1>5 DEF IInv, FollowsCommitted
    <3>2. Stage(next, job[w], d, new, plan[w], f)
      BY <1>5, <3>1
    <3>3. At(w, d)'
      BY <1>1, <1>2, <2>3, <3>2 DEF At
    <3>4. DifferIn(view[w], new, docs)
      BY <1>5 DEF Seen
    <3>5. DifferIn(d, new, wrote[w] \union docs)
      BY <3>1, <3>4 DEF DifferIn
    <3> QED
      BY <2>3, <3>1, <3>3, <3>5
  <2> QED
    BY <1>1, <1>2, <1>3, <1>5, <2>1, <2>2, <2>3, <2>4, <2>5, <2>6, StepOfWorker, ZenonT(60)
<1>6. CASE manager = "noop"
  <2>1. manager # "mongo"
    BY <1>6
  <2>2. db' = new /\ UNCHANGED <<view, wrote>>
    BY <2>1 DEF Put
  <2>3. TypeOK'
    BY <1>1, <2>2 DEF IInv, TypeOK
  <2>4. wrote'[w] = {}
    BY <2>1, <2>2 DEF IInv, OneWriter
  <2> QED
    BY <1>1, <1>2, <1>3, <1>6, <2>1, <2>2, <2>3, <2>4, StepOfWorker
<1> QED
  BY <1>4, <1>5, <1>6

(* A worker that is free again, with nothing committed.                     *)
LEMMA FreeKeeps ==
  ASSUME IInv, NEW w \in Workers, Free(w), stale' = [stale EXCEPT ![w] = {}],
         UNCHANGED <<db, manager, copies, swallowed>>,
         queue' \in [Jobs -> Nat], faults' \in 0 .. MaxFaults
  PROVE  IInv'
<1>1. /\ pc' = [pc EXCEPT ![w] = "idle"]
      /\ job' = [job EXCEPT ![w] = NoJob]
      /\ view' = [view EXCEPT ![w] = NewDatabase]
      /\ wrote' = [wrote EXCEPT ![w] = {}]
      /\ plan' = [plan EXCEPT ![w] = NoPlan]
      /\ found' = [found EXCEPT ![w] = {}]
  BY DEF Free
<1>2. TypeOK'
  BY <1>1, NewDatabaseType DEF IInv, TypeOK, Places
<1>3. pc'[w] = "idle" /\ job'[w] = NoJob /\ wrote'[w] = {} /\ plan'[w] = NoPlan
  BY <1>1 DEF IInv, TypeOK
<1>4. \A v \in Workers \ {w} :
           /\ pc'[v] = pc[v] /\ job'[v] = job[v] /\ view'[v] = view[v] /\ wrote'[v] = wrote[v]
           /\ stale'[v] = stale[v] /\ plan'[v] = plan[v] /\ found'[v] = found[v]
  BY <1>1 DEF IInv, TypeOK
<1>5. CoveredIsCredited'
  BY <1>3, <1>4, SameCovered
<1>6. Fits("idle", NoJob)
  BY DEF Fits, ResultPlaces, TicketPlaces, SharedPlaces, CancelPlaces
<1> QED
  BY <1>2, <1>3, <1>4, <1>5, <1>6, NoPlanIsTyped, StepOfWorker

LEMMA PutBackIsTyped ==
  ASSUME IInv, NEW w \in Workers, pc[w] # "idle", PutBack(w)
  PROVE  queue' \in [Jobs -> Nat]
<1>1. job[w] \in Jobs /\ queue \in [Jobs -> Nat]
  BY JobOfWorker DEF IInv, TypeOK
<1> QED
  BY <1>1 DEF PutBack

LEMMA FailKeeps ==
  ASSUME IInv, NEW w \in Workers, Fail(w)
  PROVE  IInv'
<1>1. /\ pc[w] # "idle" /\ faults < MaxFaults /\ faults' = faults + 1
      /\ PutBack(w) /\ Free(w) /\ stale' = [stale EXCEPT ![w] = {}]
      /\ UNCHANGED <<db, manager, copies, swallowed>>
  BY DEF Fail
<1>2. faults' \in 0 .. MaxFaults
  BY <1>1, SettlementAssumption DEF IInv, TypeOK
<1> QED
  BY <1>1, <1>2, PutBackIsTyped, FreeKeeps

LEMMA PanicKeeps ==
  ASSUME IInv, NEW w \in Workers, Panic(w)
  PROVE  IInv'
<1>1. /\ Free(w) /\ stale' = [stale EXCEPT ![w] = {}]
      /\ UNCHANGED <<db, manager, queue, copies, faults, swallowed>>
  BY DEF Panic
<1>2. queue' \in [Jobs -> Nat] /\ faults' \in 0 .. MaxFaults
  BY <1>1 DEF IInv, TypeOK
<1> QED
  BY <1>1, <1>2, FreeKeeps

LEMMA TakeKeeps ==
  ASSUME IInv, NEW w \in Workers, NEW j \in Jobs, Take(w, j)
  PROVE  IInv'
<1>1. /\ queue[j] > 0 /\ queue' = [queue EXCEPT ![j] = @ - 1]
      /\ job' = [job EXCEPT ![w] = j] /\ Begin(w, j)
      /\ UNCHANGED <<db, manager, copies, faults, swallowed>>
  BY DEF Take
<1>2. queue' \in [Jobs -> Nat]
  BY <1>1 DEF IInv, TypeOK
<1> QED
  BY <1>1, <1>2, BeginKeeps

(* A message that is sent, and nothing.                                     *)
LEMMA QueueStepKeeps ==
  ASSUME IInv, queue' \in [Jobs -> Nat], copies' \in [Jobs -> Nat],
         UNCHANGED <<db, manager, pc, job, view, wrote, stale, plan, found, faults, swallowed>>
  PROVE  IInv'
<1>1. TypeOK'
  BY DEF IInv, TypeOK
<1>2. InPlace' /\ OneWriter' /\ CommittedIsSound' /\ FollowsCommitted'
  BY DEF IInv, InPlace, OneWriter, CommittedIsSound, FollowsCommitted, At
<1>3. Covered' = Covered
  BY DEF Covered
<1> QED
  BY <1>1, <1>2, <1>3 DEF IInv, CoveredIsCredited

LEMMA SendKeeps ==
  ASSUME IInv, Relay \/ \E j \in Jobs : Send(j)
  PROVE  IInv'
<1>1. \E j \in Jobs : copies' = [copies EXCEPT ![j] = @ + 1] /\ queue' = [queue EXCEPT ![j] = @ + 1]
  BY DEF Relay, Send, Jobs
<1>2. queue' \in [Jobs -> Nat] /\ copies' \in [Jobs -> Nat]
  BY <1>1 DEF IInv, TypeOK
<1> QED
  BY <1>2, QueueStepKeeps DEF Relay, Send

-----------------------------------------------------------------------------
(* The queries of a handler.                                                *)

LEMMA WorkerAt ==
  ASSUME IInv, NEW w \in Workers, pc[w] # "idle"
  PROVE  /\ Fits(pc[w], job[w]) /\ db \in Database /\ Seen(w) \in Database
         /\ manager \in {"mongo", "noop"}
         /\ manager = "mongo" => Seen(w) = view[w]
         /\ manager = "noop" => Seen(w) = db
         /\ manager = "mongo" => \A d : At(w, d) =>
              d \in Database /\ Stage(pc[w], job[w], d, Seen(w), plan[w], found[w])
         /\ plan[w].order \in OrderDoc /\ plan[w].task \in BOOLEAN
         /\ found[w] \in SUBSET Bills
<1>1. Fits(pc[w], job[w]) /\ plan[w].order \in OrderDoc /\ plan[w].task \in BOOLEAN
  BY DEF IInv, InPlace
<1>2. /\ db \in Database /\ view[w] \in Database /\ found[w] \in SUBSET Bills
      /\ manager \in {"mongo", "noop"}
  BY DEF IInv, TypeOK
<1>3. manager = "mongo" => Seen(w) = view[w]
  BY DEF Seen
<1>4. manager = "noop" => Seen(w) = db
  BY DEF Seen
<1>5. \A d : At(w, d) =>
        d \in Database /\ Stage(pc[w], job[w], d, view[w], plan[w], found[w])
  BY DEF At
<1> QED
  BY <1>1, <1>2, <1>3, <1>4, <1>5

(* A write that pays no bill but the one credited before.                   *)
LEMMA WriteKeeps ==
  ASSUME IInv, NEW w \in Workers, NEW new \in Database, NEW next \in Places \ {"idle", "mark"},
         NEW f \in SUBSET Bills, found' = [found EXCEPT ![w] = f],
         NEW docs \in SUBSET Documents, DifferIn(Seen(w), new, docs),
         Put(w, docs, new, next), Fits(next, job[w]), pc[w] # "idle",
         manager = "noop" =>
           /\ new.order.paid = db.order.paid
           /\ \A b \in Bills : new.bills[b] = "paid" =>
                db.bills[b] = "paid" \/ (pc[w] = "mark" /\ job[w] = <<b, "success">>),
         manager = "mongo" => \A d : At(w, d) => Stage(next, job[w], d, new, plan[w], f)
  PROVE  IInv'
<1>1. ASSUME manager = "noop" PROVE CoveredIsCredited'
  <2>1. /\ db' = new /\ pc' = [pc EXCEPT ![w] = next] /\ UNCHANGED <<manager, job>>
    BY <1>1 DEF Put
  <2>2. pc'[w] = next /\ \A v \in Workers \ {w} : pc'[v] = pc[v]
    BY <2>1 DEF IInv, TypeOK
  <2>3. ASSUME NEW b \in Bills, b \in Covered' PROVE b \in Covered
    <3>1. CASE new.bills[b] = "paid"
      BY <1>1, <3>1 DEF Covered
    <3>2. CASE \E v \in Workers : pc'[v] = "mark" /\ job[v] = <<b, "success">>
      BY <1>1, <2>2, <3>2 DEF Covered
    <3> QED
      BY <2>1, <2>3, <3>1, <3>2 DEF Covered
  <2>4. Covered' \subseteq Covered
    BY <2>3 DEF Covered
  <2>5. db' \in Database /\ db'.order.paid >= db.order.paid
    BY <1>1, <2>1, DatabaseParts DEF IInv, TypeOK
  <2> QED
    BY <2>4, <2>5, FewerCovered
<1> QED
  BY <1>1, PutKeeps

LEMMA WriteOrRetryKeeps ==
  ASSUME IInv, NEW w \in Workers, NEW new \in Database, NEW next \in Places \ {"idle", "mark"},
         NEW docs \in SUBSET Documents, DifferIn(Seen(w), new, docs),
         Write(w, docs, new, next), Fits(next, job[w]), pc[w] # "idle",
         manager = "noop" =>
           /\ new.order.paid = db.order.paid
           /\ \A b \in Bills : new.bills[b] = "paid" =>
                db.bills[b] = "paid" \/ (pc[w] = "mark" /\ job[w] = <<b, "success">>),
         manager = "mongo" => \A d : At(w, d) => Stage(next, job[w], d, new, plan[w], found[w])
  PROVE  IInv'
<1>1. found[w] \in SUBSET Bills /\ found = [found EXCEPT ![w] = found[w]]
  BY DEF IInv, TypeOK
<1>2. CASE Retry(w, docs)
  BY <1>2, RetryKeeps
<1>3. CASE Put(w, docs, new, next) /\ UNCHANGED found
  BY <1>1, <1>3, WriteKeeps
<1> QED
  BY <1>2, <1>3 DEF Write

LEMMA GetBillKeeps ==
  ASSUME IInv, NEW w \in Workers, GetBill(w)
  PROVE  IInv'
<1> DEFINE j    == job[w]
           next == IF j[2] = "success" THEN "credit" ELSE "mark"
<1>1. pc[w] = "bill" /\ (Seen(w).bills[j[1]] # "pending" \/ Seen(w).bills[j[1]] = "pending")
  BY DEF GetBill
<1>2. j \in Results /\ j \in Jobs
  BY <1>1, WorkerAt, JobsAreDistinct DEF Fits, ResultPlaces
<1>3. manager = "mongo" => \A d : At(w, d) => view[w] = d /\ Seen(w) = d
  BY <1>1, WorkerAt DEF Stage, ResultStage
<1>4. CASE Seen(w).bills[j[1]] # "pending"
  <2>1. GoOn(w, "commit")
    BY <1>4 DEF GetBill
  <2>2. Fits("commit", j)
    BY <1>2 DEF Fits, ResultPlaces, TicketPlaces, SharedPlaces, CancelPlaces
  <2>3. manager = "mongo" => \A d : At(w, d) => Stage("commit", j, d, view[w], plan[w], found[w])
    BY <1>3 DEF Stage, ResultStage, TicketStage, SharedStage, CancelStage, SharedPlaces,
                CancelPlaces
  <2> QED
    BY <1>1, <2>1, <2>2, <2>3, GoOnKeeps DEF Places
<1>5. CASE Seen(w).bills[j[1]] = "pending"
  <2>1. GoOn(w, next) /\ next \in Places \ {"idle"}
    BY <1>5 DEF GetBill, Places
  <2>2. Fits(next, j)
    BY <1>2 DEF Fits, ResultPlaces, TicketPlaces, SharedPlaces, CancelPlaces
  <2>3. manager = "mongo" => \A d : At(w, d) => Stage(next, j, d, view[w], plan[w], found[w])
    BY <1>3, <1>5 DEF Stage, ResultStage, TicketStage, SharedStage, CancelStage, SharedPlaces,
                      CancelPlaces, Waiting
  <2>4. next # "mark" \/ j[2] # "success"
    OBVIOUS
  <2> HIDE DEF next
  <2> QED
    BY <1>1, <2>1, <2>2, <2>3, <2>4, GoOnKeeps
<1> QED
  BY <1>1, <1>4, <1>5

(* The increment comes before the mark: from here on the bill is covered.   *)
LEMMA UpdateOrderKeeps ==
  ASSUME IInv, NEW w \in Workers, UpdateOrder(w)
  PROVE  IInv'
<1> DEFINE b == job[w][1]
<1>1. pc[w] = "credit" /\ Write(w, {Order}, Credit(Seen(w), b), "mark")
  BY DEF UpdateOrder
<1>2. job[w] \in Results /\ job[w][2] = "success" /\ b \in Bills /\ job[w] = <<b, "success">>
  BY <1>1, WorkerAt, JobsAreDistinct DEF Fits, ResultPlaces
<1>3. Credit(Seen(w), b) \in Database
  BY <1>1, <1>2, WorkerAt, QueriesAreTyped
<1>4. CASE Retry(w, {Order})
  BY <1>1, <1>4, RetryKeeps
<1>5. CASE Put(w, {Order}, Credit(Seen(w), b), "mark") /\ UNCHANGED found
  <2>0. {Order} \in SUBSET Documents /\ DifferIn(Seen(w), Credit(Seen(w), b), {Order})
    BY <1>1, <1>2, WorkerAt, QueriesChange DEF Documents
  <2>1. found[w] \in SUBSET Bills /\ found' = [found EXCEPT ![w] = found[w]]
    BY <1>5 DEF IInv, TypeOK
  <2>2. "mark" \in Places \ {"idle"} /\ Fits("mark", job[w])
    BY <1>2 DEF Places, Fits, ResultPlaces, TicketPlaces, SharedPlaces, CancelPlaces
  <2>3. manager = "mongo" => \A d : At(w, d) =>
          Stage("mark", job[w], d, Credit(Seen(w), b), plan[w], found[w])
    <3>1. manager = "mongo" => \A d : At(w, d) => Seen(w) = d /\ Waiting(d, job[w])
      BY <1>1, WorkerAt DEF Stage, ResultStage
    <3> QED
      BY <1>2, <3>1 DEF Stage, ResultStage, TicketStage, SharedStage, CancelStage, SharedPlaces,
                        CancelPlaces
  <2>4. ASSUME manager = "noop" PROVE CoveredIsCredited'
    <3> DEFINE now == Covered
               new == Covered'
               c   == b
    <3>1. /\ db' = Credit(db, b) /\ pc' = [pc EXCEPT ![w] = "mark"] /\ UNCHANGED <<manager, job>>
      BY <1>1, <1>5, <2>4, WorkerAt DEF Put
    <3>2. db \in Database /\ db.order.paid \in Int /\ Amount[b] \in Nat
      BY <1>2, DatabaseParts, AmountsAddUp DEF IInv, TypeOK
    <3>3. db'.order.paid = db.order.paid + Amount[b] /\ db'.bills = db.bills /\ db' \in Database
      BY <1>2, <3>1, <3>2, QueriesAreTyped DEF Credit, Database, OrderDoc
    <3>4. new = now \union {b}
      <4>1. pc'[w] = "mark" /\ \A v \in Workers \ {w} : pc'[v] = pc[v]
        BY <3>1 DEF IInv, TypeOK
      <4>2. \A a \in Bills : a \in new <=> a \in now \/ a = b
        <5> SUFFICES ASSUME NEW a \in Bills PROVE a \in new <=> a \in now \/ a = b
          OBVIOUS
        <5>1. a = b => a \in new
          BY <1>2, <2>4, <3>1, <4>1 DEF Covered
        <5>2. a \in now => a \in new
          BY <1>1, <3>1, <3>3, <4>1 DEF Covered
        <5>3. ASSUME a # b, a \in new PROVE a \in now
          <6>1. job[w] # <<a, "success">>
            BY <1>2, <5>3
          <6> QED
            BY <3>1, <3>3, <4>1, <5>3, <6>1 DEF Covered
        <5> QED
          BY <5>1, <5>2, <5>3
      <4> QED
        BY <1>2, <4>2 DEF Covered
    <3>5. now \in SUBSET Bills /\ new \in SUBSET Bills
      BY DEF Covered
    <3>6. SumOver(Amount, now) <= db.order.paid
      BY DEF IInv, CoveredIsCredited
    <3> HIDE DEF now, new, c
    <3>7. CASE b \in now
      <4>1. new = now
        BY <3>4, <3>7
      <4>2. SumOver(Amount, now) \in Int
        BY <3>5, AmountsAddUp
      <4>3. SumOver(Amount, new) <= db'.order.paid
        BY <3>2, <3>3, <3>6, <4>1, <4>2
      <4> QED
        BY <4>3 DEF CoveredIsCredited, new
    <3>8. CASE b \notin now
      <4>1. c \notin now /\ new = now \union {c} /\ new \in SUBSET Bills /\ now \in SUBSET Bills
        BY <3>4, <3>5, <3>8 DEF c
      <4>2. IsFiniteSet(now) /\ \A y \in now \union {c} : Amount[y] \in Int
        BY <4>1, AmountsAddUp
      <4>3. SumOver(Amount, new) = SumOver(Amount, now) + Amount[c]
        BY ONLY <4>1, <4>2, SumWith
      <4>4. SumOver(Amount, now) \in Int
        BY <4>1, AmountsAddUp
      <4>5. SumOver(Amount, new) <= db'.order.paid
        BY <3>2, <3>3, <3>6, <4>3, <4>4 DEF c
      <4> QED
        BY <4>5 DEF CoveredIsCredited, new
    <3> QED
      BY <3>7, <3>8
  <2> QED
    BY <1>1, <1>3, <1>5, <2>0, <2>1, <2>2, <2>3, <2>4, PutKeeps
<1> QED
  BY <1>1, <1>4, <1>5 DEF Write

LEMMA UpdateBillKeeps ==
  ASSUME IInv, NEW w \in Workers, UpdateBill(w)
  PROVE  IInv'
<1> DEFINE b      == job[w][1]
           status == BillResult(job[w])
           new    == MarkBill(Seen(w), b, status)
<1>1. pc[w] = "mark" /\ Write(w, {b}, new, "refetch")
  BY DEF UpdateBill
<1>2. /\ job[w] \in Results /\ b \in Bills
      /\ job[w][2] \in {"success", "failure"} /\ job[w] = <<b, job[w][2]>>
      /\ job[w] # <<"tickets">>
  BY <1>1, WorkerAt, JobsAreDistinct DEF Fits, ResultPlaces
<1>3. /\ status \in BillStatus
      /\ job[w][2] = "success" => status = "paid"
      /\ job[w][2] = "failure" => status = "failed"
  BY <1>2 DEF BillResult, BillStatus
<1>4. new \in Database
  BY <1>1, <1>2, <1>3, WorkerAt, QueriesAreTyped
<1>0. {b} \in SUBSET Documents /\ DifferIn(Seen(w), new, {b})
  BY <1>1, <1>2, WorkerAt, QueriesChange DEF Documents
<1>5. "refetch" \in Places \ {"idle", "mark"} /\ Fits("refetch", job[w])
  BY <1>2 DEF Places, Fits, ResultPlaces, TicketPlaces, SharedPlaces, CancelPlaces
<1>6. manager = "noop" =>
        /\ new.order.paid = db.order.paid
        /\ \A a \in Bills : new.bills[a] = "paid" =>
             db.bills[a] = "paid" \/ (pc[w] = "mark" /\ job[w] = <<a, "success">>)
  <2> SUFFICES ASSUME manager = "noop"
               PROVE  /\ new.order.paid = db.order.paid
                      /\ \A a \in Bills : new.bills[a] = "paid" =>
                           db.bills[a] = "paid" \/ (pc[w] = "mark" /\ job[w] = <<a, "success">>)
    OBVIOUS
  <2>1. new = MarkBill(db, b, status) /\ db \in Database
    BY <1>1, WorkerAt
  <2>2. new.order = db.order /\ new.bills = [db.bills EXCEPT ![b] = status]
    BY <1>2, <2>1 DEF MarkBill, Database
  <2> HIDE DEF new, status
  <2>3. ASSUME NEW a \in Bills, new.bills[a] = "paid", db.bills[a] # "paid"
        PROVE  job[w] = <<a, "success">>
    <3>1. a = b /\ status = "paid"
      BY <2>1, <2>2, <2>3, DatabaseParts
    <3>2. job[w][2] = "success"
      BY <1>2, <1>3, <3>1
    <3> QED
      BY <1>2, <3>1, <3>2
  <2> QED
    BY <1>1, <2>2, <2>3
<1>7. manager = "mongo" => \A d : At(w, d) => Stage("refetch", job[w], d, new, plan[w], found[w])
  <2> SUFFICES ASSUME manager = "mongo", NEW d, At(w, d)
               PROVE  Stage("refetch", job[w], d, new, plan[w], found[w])
    OBVIOUS
  <2>1. /\ Waiting(d, job[w])
        /\ Seen(w) = (IF job[w][2] = "success" THEN Credit(d, b) ELSE d)
    BY <1>1, WorkerAt DEF Stage, ResultStage
  <2>2. new = (IF job[w][2] = "success" THEN Ready(d, job[w]) ELSE MarkBill(d, b, "failed"))
    BY <1>2, <1>3, <2>1 DEF Ready
  <2> HIDE DEF new
  <2> QED
    BY <2>1, <2>2 DEF Stage, ResultStage, TicketStage, SharedStage, CancelStage, SharedPlaces,
                      CancelPlaces
<1> HIDE DEF new, b
<1> QED
  BY <1>0, <1>1, <1>4, <1>5, <1>6, <1>7, WriteOrRetryKeeps

LEMMA RefetchBillKeeps ==
  ASSUME IInv, NEW w \in Workers, RefetchBill(w)
  PROVE  IInv'
<1> DEFINE j    == job[w]
           next == IF j[2] = "success" THEN "recalculate" ELSE "commit"
<1>1. pc[w] = "refetch" /\ GoOn(w, next) /\ next \in Places \ {"idle"} /\ next # "mark"
  BY DEF RefetchBill, Places
<1>2. /\ j \in Results /\ j \in Jobs /\ j # <<"tickets">> /\ j # <<"cancel">>
      /\ j[2] \in {"success", "failure"}
  BY <1>1, WorkerAt, JobsAreDistinct DEF Fits, ResultPlaces
<1>3. Fits(next, j)
  BY <1>2 DEF Fits, ResultPlaces, TicketPlaces, SharedPlaces, CancelPlaces
<1>4. manager = "mongo" => \A d : At(w, d) => Stage(next, j, d, view[w], plan[w], found[w])
  <2> SUFFICES ASSUME manager = "mongo", NEW d, At(w, d)
               PROVE  Stage(next, j, d, view[w], plan[w], found[w])
    OBVIOUS
  <2>1. /\ Waiting(d, j)
        /\ view[w] = (IF j[2] = "success" THEN Ready(d, j) ELSE MarkBill(d, j[1], "failed"))
    BY <1>1, WorkerAt DEF Stage, ResultStage
  <2>2. CASE j[2] = "success"
    BY <1>2, <2>1, <2>2 DEF Stage, ResultStage, TicketStage, SharedStage, CancelStage,
                            SharedPlaces, CancelPlaces
  <2>3. CASE j[2] = "failure"
    <3>1. Outcomes(d, j) = Settled(d, j[1], FALSE)
      BY <1>2, <2>3 DEF Outcomes
    <3>2. Settled(d, j[1], FALSE) = {MarkBill(d, j[1], "failed")}
      BY <2>1 DEF Settled, Waiting
    <3> QED
      BY <2>1, <2>3, <3>1, <3>2 DEF Stage, ResultStage, TicketStage, SharedStage, CancelStage,
                                    SharedPlaces, CancelPlaces
  <2> QED
    BY <1>2, <2>2, <2>3
<1> HIDE DEF next
<1> QED
  BY <1>1, <1>3, <1>4, GoOnKeeps

LEMMA GetOrderKeeps ==
  ASSUME IInv, NEW w \in Workers, GetOrder(w)
  PROVE  IInv'
<1> DEFINE j    == job[w]
           next == IF Seen(w).order.status = "paid" THEN "insert" ELSE "deliver"
<1>1. pc[w] = "fetch" /\ GoOn(w, next) /\ next \in Places \ {"idle"} /\ next # "mark"
  BY DEF GetOrder, Places
<1>2. j = <<"tickets">> /\ j \notin Results
  BY <1>1, WorkerAt, JobsAreDistinct DEF Fits, TicketPlaces
<1>3. Fits(next, j)
  BY <1>2 DEF Fits, ResultPlaces, TicketPlaces, SharedPlaces, CancelPlaces
<1>4. manager = "mongo" => \A d : At(w, d) => Stage(next, j, d, view[w], plan[w], found[w])
  <2>1. manager = "mongo" => \A d : At(w, d) => view[w] = d /\ Seen(w) = d
    BY <1>1, WorkerAt DEF Stage, TicketStage
  <2> QED
    BY <1>2, <2>1 DEF Made, Stage, ResultStage, TicketStage, SharedStage, CancelStage,
                      SharedPlaces, CancelPlaces
<1> HIDE DEF next
<1> QED
  BY <1>1, <1>3, <1>4, GoOnKeeps

LEMMA InsertTicketsKeeps ==
  ASSUME IInv, NEW w \in Workers, InsertTickets(w)
  PROVE  IInv'
<1> DEFINE new == CreateTickets(Seen(w))
<1>1. pc[w] = "insert" /\ Write(w, {}, new, "deliver")
  BY DEF InsertTickets
<1>2. job[w] = <<"tickets">> /\ job[w] \notin Results
  BY <1>1, WorkerAt, JobsAreDistinct DEF Fits, TicketPlaces
<1>3. "deliver" \in Places \ {"idle", "mark"} /\ Fits("deliver", job[w])
  BY <1>2 DEF Places, Fits, ResultPlaces, TicketPlaces, SharedPlaces, CancelPlaces
<1>4. new \in Database /\ new.order = Seen(w).order /\ new.bills = Seen(w).bills
  <2>1. Seen(w) \in Database
    BY <1>1, WorkerAt
  <2> QED
    BY <2>1, QueriesAreTyped DEF CreateTickets, Database
<1>5. manager = "mongo" => \A d : At(w, d) => Stage("deliver", job[w], d, new, plan[w], found[w])
  <2>1. manager = "mongo" => \A d : At(w, d) =>
          Seen(w) = d /\ d.order.status = "paid"
    BY <1>1, WorkerAt DEF Stage, TicketStage
  <2> QED
    BY <1>2, <2>1 DEF Made, Stage, ResultStage, TicketStage, SharedStage, CancelStage,
                      SharedPlaces, CancelPlaces
<1>6. manager = "noop" => new.order.paid = db.order.paid /\ new.bills = db.bills
  BY <1>1, <1>4, WorkerAt
<1>7. {} \in SUBSET Documents /\ DifferIn(Seen(w), new, {})
  BY <1>1, WorkerAt, QueriesChange
<1> HIDE DEF new
<1> QED
  BY <1>1, <1>3, <1>4, <1>5, <1>6, <1>7, WriteOrRetryKeeps

(* An update of the items, whether it matches one or none.                  *)
LEMMA WriteItemsKeeps ==
  ASSUME IInv, NEW w \in Workers, NEW next \in Places \ {"idle", "mark"},
         NEW from \in ItemStatus, NEW to \in ItemStatus, WriteItems(w, from, to, next),
         Fits(next, job[w]), pc[w] # "idle",
         manager = "mongo" => \A d : At(w, d) =>
           Stage(next, job[w], d, MoveItems(Seen(w), from, to), plan[w], found[w])
  PROVE  IInv'
<1> DEFINE new  == MoveItems(Seen(w), from, to)
           docs == {i \in Items : Seen(w).items[i] = from}
<1>1. Seen(w) \in Database
  BY WorkerAt
<1>2. new \in Database /\ new.order = Seen(w).order /\ new.bills = Seen(w).bills
  BY <1>1, QueriesAreTyped DEF MoveItems, Database
<1>3. CASE Write(w, docs, new, next)
  <2>0. docs \in SUBSET Documents /\ DifferIn(Seen(w), new, docs)
    BY <1>1, QueriesChange DEF Documents
  <2>1. manager = "noop" => new.order.paid = db.order.paid /\ new.bills = db.bills
    BY <1>2, WorkerAt
  <2> HIDE DEF new, docs
  <2> QED
    BY <1>2, <1>3, <2>0, <2>1, WriteOrRetryKeeps DEF new
<1>4. CASE GoOn(w, next) /\ \A i \in Items : Seen(w).items[i] # from
  <2>1. new = Seen(w)
    BY <1>1, <1>4, NothingMoves
  <2>2. manager = "mongo" => view[w] = new
    BY <2>1, WorkerAt
  <2>3. manager = "mongo" => \A d : At(w, d) => Stage(next, job[w], d, view[w], plan[w], found[w])
    BY <2>2
  <2> QED
    BY <1>4, <2>3, GoOnKeeps
<1> QED
  BY <1>3, <1>4 DEF WriteItems

LEMMA DeliverItemsKeeps ==
  ASSUME IInv, NEW w \in Workers, DeliverItems(w)
  PROVE  IInv'
<1> DEFINE new == MoveItems(Seen(w), "paid", "delivered")
<1>1. pc[w] = "deliver" /\ WriteItems(w, "paid", "delivered", "recalculate")
  BY DEF DeliverItems
<1>2. job[w] = <<"tickets">> /\ job[w] \notin Results
  BY <1>1, WorkerAt, JobsAreDistinct DEF Fits, TicketPlaces
<1>3. "recalculate" \in Places \ {"idle", "mark"} /\ Fits("recalculate", job[w])
  BY <1>2 DEF Places, Fits, ResultPlaces, TicketPlaces, SharedPlaces, CancelPlaces
<1>4. manager = "mongo" => \A d : At(w, d) => new = Ready(d, job[w])
  BY <1>1, <1>2, WorkerAt DEF Stage, TicketStage, Ready
<1>5. manager = "mongo" => \A d : At(w, d) =>
        Stage("recalculate", job[w], d, new, plan[w], found[w])
  <2> HIDE DEF new
  <2> QED
    BY <1>2, <1>4 DEF Stage, ResultStage, TicketStage, SharedStage, CancelStage,
                      SharedPlaces, CancelPlaces
<1>6. "paid" \in ItemStatus /\ "delivered" \in ItemStatus
  BY DEF ItemStatus
<1> QED
  BY <1>1, <1>3, <1>5, <1>6, WriteItemsKeeps

LEMMA SharedAt ==
  ASSUME IInv, NEW w \in Workers, pc[w] \in SharedPlaces
  PROVE  /\ pc[w] # "idle" /\ job[w] \in Results \union {<<"tickets">>} /\ job[w] \in Jobs
         /\ job[w] # <<"cancel">>
         /\ job[w] \in Results => job[w][2] = "success" /\ job[w] # <<"tickets">>
         /\ \A next \in SharedPlaces \union {"commit"} :
              next \in Places \ {"idle", "mark"} /\ Fits(next, job[w])
         /\ manager = "mongo" => \A d : At(w, d) =>
              /\ SharedStage(pc[w], job[w], d, Seen(w), plan[w])
              /\ job[w] \in Results => Waiting(d, job[w])
              /\ Ready(d, job[w]) \in Database
<1>1. pc[w] # "idle"
  BY DEF SharedPlaces
<1>2. job[w] \in Results \union {<<"tickets">>} /\ (job[w] \in Results => job[w][2] = "success")
  BY <1>1, WorkerAt DEF Fits
<1>3. job[w] \in Jobs /\ job[w] # <<"cancel">> /\ (job[w] \in Results => job[w] # <<"tickets">>)
  BY <1>2, JobsAreDistinct DEF Jobs
<1>4. ASSUME NEW next \in SharedPlaces \union {"commit"}
      PROVE  next \in Places \ {"idle", "mark"} /\ Fits(next, job[w])
  BY <1>2, <1>3 DEF Places, Fits, ResultPlaces, TicketPlaces, SharedPlaces, CancelPlaces
<1>5. ASSUME manager = "mongo", NEW d, At(w, d)
      PROVE  /\ SharedStage(pc[w], job[w], d, Seen(w), plan[w])
             /\ job[w] \in Results => Waiting(d, job[w])
             /\ Ready(d, job[w]) \in Database
  <2>1. Stage(pc[w], job[w], d, Seen(w), plan[w], found[w]) /\ d \in Database
    BY <1>1, <1>5, WorkerAt
  <2>2. SharedStage(pc[w], job[w], d, Seen(w), plan[w])
    BY <2>1 DEF Stage
  <2>3. job[w] \in Results => Waiting(d, job[w])
    BY <2>2 DEF SharedStage
  <2> QED
    BY <1>2, <2>1, <2>2, <2>3, ReadyIsTyped
<1> QED
  BY <1>1, <1>2, <1>3, <1>4, <1>5

(* A handler about to commit what its recalculation decided.                *)
LEMMA AppliedAtCommit ==
  ASSUME IInv, NEW w \in Workers, pc[w] \in SharedPlaces, manager = "mongo", NEW d, At(w, d),
         NEW r, r = Recalculated(Ready(d, job[w])), r.verdict = "commit",
         NEW p \in BOOLEAN, NEW v, v = ApplyResult(Ready(d, job[w]), r, p),
         job[w] = <<"tickets">> => ~r.task,
         NEW q, NEW f
  PROVE  Stage("commit", job[w], d, v, q, f)
<1> DEFINE j == job[w]
<1>1. /\ j \in Results \union {<<"tickets">>} /\ d \in Database
      /\ j \in Results => j[2] = "success" /\ d.bills[j[1]] = "pending"
  BY SharedAt DEF Waiting, At
<1>2. v \in Outcomes(d, j)
  BY <1>1, AppliedIsOutcome
<1> QED
  BY <1>2 DEF Stage, ResultStage, TicketStage, SharedStage, CancelStage, SharedPlaces, CancelPlaces

(* A step that writes nothing goes on with its snapshot.                    *)
LEMMA SnapshotStays ==
  ASSUME IInv, manager = "mongo", NEW w \in Workers, pc[w] # "idle", UNCHANGED <<job, view>>,
         \A d : At(w, d) => Stage(pc'[w], job[w], d, view[w], plan'[w], found'[w])
  PROVE  \E d \in Database : /\ At(w, d)'
                             /\ SnapshotOf(d, db, stale[w]) /\ DifferIn(d, view[w], wrote[w])
<1>1. PICK d \in Database : At(w, d) /\ SnapshotOf(d, db, stale[w]) /\ DifferIn(d, view[w], wrote[w])
  BY DEF IInv, FollowsCommitted
<1>2. At(w, d)'
  BY <1>1 DEF At
<1> QED
  BY <1>1, <1>2

LEMMA RecalculateKeeps ==
  ASSUME IInv, NEW w \in Workers, Recalculate(w)
  PROVE  IInv'
<1> DEFINE r    == Recalculated(Seen(w))
           same == r = Commit(Seen(w).order, Seen(w).items)
           next == IF same THEN "commit" ELSE "status"
<1>1. pc[w] = "recalculate" /\ pc[w] \in SharedPlaces /\ pc[w] # "idle"
  BY DEF Recalculate, SharedPlaces
<1>2. CASE Panic(w)
  BY <1>2, PanicKeeps
<1>3. CASE /\ r.verdict = "commit"
           /\ plan' = [plan EXCEPT ![w] = r]
           /\ pc' = [pc EXCEPT ![w] = next]
           /\ UNCHANGED <<db, manager, queue, copies, job, view, wrote, stale, found, faults,
                          swallowed>>
  <2>1. next \in SharedPlaces \union {"commit"} /\ next # "mark" /\ next # "idle"
    BY DEF SharedPlaces
  <2>2. next \in Places /\ Fits(next, job[w])
    BY <1>1, <2>1, SharedAt
  <2>3. Seen(w) \in Database /\ (manager = "mongo" => Seen(w) = view[w])
    BY <1>1, WorkerAt
  <2>4. r.order \in OrderDoc /\ r.task \in BOOLEAN
    <3> DEFINE x == Seen(w)
               s == Recalculated(x)
    <3>1. x \in Database /\ s.verdict = "commit"
      BY <1>3, <2>3
    <3> HIDE DEF x, s
    <3>2. s.order \in OrderDoc /\ \E n : ResultShape(x.order, x.items, s, n)
      BY <3>1, RecalculatedShapes DEF s
    <3>3. s.task \in BOOLEAN
      BY <3>2 DEF ResultShape
    <3> QED
      BY <3>2, <3>3 DEF x, s
  <2>5. manager = "mongo" => \A d : At(w, d) => Stage(next, job[w], d, view[w], r, found[w])
    <3> SUFFICES ASSUME manager = "mongo", NEW d, At(w, d)
                 PROVE  Stage(next, job[w], d, view[w], r, found[w])
      OBVIOUS
    <3>1. Seen(w) = Ready(d, job[w]) /\ (job[w] \in Results => Waiting(d, job[w]))
      BY <1>1, SharedAt DEF SharedStage
    <3>2. r = Recalculated(Ready(d, job[w])) /\ r.verdict = "commit"
      BY <1>3, <3>1
    <3>3. CASE same
      <4>1. Seen(w) = ApplyResult(Seen(w), r, FALSE)
        <5> DEFINE x == Seen(w)
                   s == Recalculated(x)
        <5>1. x \in Database /\ s.verdict = "commit" /\ s = Commit(x.order, x.items)
          BY <1>3, <2>3, <3>3
        <5> HIDE DEF x, s
        <5>2. x = ApplyResult(x, s, FALSE)
          BY <5>1, StoredIsApplied DEF s
        <5> QED
          BY <5>2 DEF x, s
      <4>2. r.task = FALSE
        BY <3>3 DEF Commit, Result
      <4> HIDE DEF r
      <4>3. Stage("commit", job[w], d, Seen(w), r, found[w])
        BY <1>1, <3>1, <3>2, <4>1, <4>2, AppliedAtCommit
      <4> QED
        BY <2>3, <3>3, <4>3
    <3>4. CASE ~same
      <4> HIDE DEF r, same
      <4> QED
        BY <2>3, <3>1, <3>2, <3>4 DEF Stage, ResultStage, TicketStage, SharedStage, CancelStage,
                                  SharedPlaces, CancelPlaces
    <3> QED
      BY <3>3, <3>4
  <2> HIDE DEF r, next
  <2>6. /\ pc'[w] = next /\ plan'[w] = r
        /\ \A v \in Workers \ {w} : pc'[v] = pc[v] /\ plan'[v] = plan[v]
    BY <1>3 DEF IInv, TypeOK
  <2>7. TypeOK'
    BY <1>3, <2>2 DEF IInv, TypeOK
  <2>8. CoveredIsCredited'
    BY <1>3, <2>1, <2>6, SameCovered
  <2>9. OwnWrites(w)
    BY OwnsItsWrites
  <2>10. manager = "mongo" =>
           \E d \in Database : /\ At(w, d)'
                               /\ SnapshotOf(d, db, stale[w]) /\ DifferIn(d, view[w], wrote[w])
    BY <1>1, <1>3, <2>5, <2>6, SnapshotStays
  <2> QED
    BY <1>3, <2>1, <2>2, <2>4, <2>6, <2>7, <2>8, <2>9, <2>10, StepOfWorker DEF OwnWrites
<1> QED
  BY <1>2, <1>3 DEF Recalculate

LEMMA WriteStatusKeeps ==
  ASSUME IInv, NEW w \in Workers, WriteStatus(w)
  PROVE  IInv'
<1> DEFINE r    == plan[w]
           new  == StoreResult(Seen(w), r)
           next == CASE r.task -> "items"
                     [] ~r.task /\ r.refund # {} -> "refund"
                     [] OTHER -> "commit"
<1>1. pc[w] = "status" /\ pc[w] \in SharedPlaces /\ pc[w] # "idle" /\ Write(w, {Order}, new, next)
  BY DEF WriteStatus, SharedPlaces
<1>2. /\ Seen(w) \in Database /\ r.order \in OrderDoc /\ r.task \in BOOLEAN
      /\ manager = "noop" => Seen(w) = db
  BY <1>1, WorkerAt
<1>3. \/ r.task /\ next = "items"
      \/ ~r.task /\ r.refund # {} /\ next = "refund"
      \/ ~r.task /\ r.refund = {} /\ next = "commit"
  BY <1>2
<1>4. next \in Places \ {"idle", "mark"} /\ Fits(next, job[w])
  <2>1. next \in SharedPlaces \union {"commit"}
    BY <1>3 DEF SharedPlaces
  <2> HIDE DEF next
  <2> QED
    BY <1>1, <2>1, SharedAt
<1>5. new \in Database /\ new.order.paid = Seen(w).order.paid /\ new.bills = Seen(w).bills
  BY <1>2, QueriesAreTyped DEF StoreResult, Database, OrderDoc
<1>6. manager = "mongo" => \A d : At(w, d) => Stage(next, job[w], d, new, r, found[w])
  <2> SUFFICES ASSUME manager = "mongo", NEW d, At(w, d)
               PROVE  Stage(next, job[w], d, new, r, found[w])
    OBVIOUS
  <2>1. /\ Seen(w) = Ready(d, job[w]) /\ Ready(d, job[w]) \in Database
        /\ job[w] \in Results => Waiting(d, job[w])
        /\ r = Recalculated(Ready(d, job[w])) /\ r.verdict = "commit"
    BY <1>1, SharedAt DEF SharedStage, SharedPlaces
  <2> HIDE DEF next, new, r
  <2>2. new = StoreResult(Ready(d, job[w]), r)
    BY <2>1 DEF new
  <2>3. CASE ~r.task /\ r.refund = {}
    <3>1. new = ApplyResult(Ready(d, job[w]), r, FALSE)
      BY <2>1, <2>2, <2>3, StoredIsApplied
    <3>2. Stage("commit", job[w], d, new, r, found[w])
      BY <1>1, <2>1, <2>3, <3>1, AppliedAtCommit
    <3> QED
      BY <1>3, <2>3, <3>2
  <2>4. CASE r.task \/ r.refund # {}
    BY <1>3, <2>1, <2>2, <2>4 DEF Stage, ResultStage, TicketStage, SharedStage, CancelStage,
                                  SharedPlaces, CancelPlaces
  <2> QED
    BY <2>3, <2>4
<1>7. manager = "noop" => new.order.paid = db.order.paid /\ new.bills = db.bills
  BY <1>2, <1>5
<1>8. {Order} \in SUBSET Documents /\ DifferIn(Seen(w), new, {Order})
  BY <1>2, QueriesChange DEF Documents
<1> HIDE DEF new, next
<1> QED
  BY <1>1, <1>4, <1>5, <1>6, <1>7, <1>8, WriteOrRetryKeeps

LEMMA CreateRefundBillKeeps ==
  ASSUME IInv, NEW w \in Workers, CreateRefundBill(w)
  PROVE  IInv'
<1> DEFINE new == OpenRefundBill(Seen(w))
<1>1. pc[w] = "refund" /\ pc[w] \in SharedPlaces /\ pc[w] # "idle" /\ Write(w, {}, new, "commit")
  BY DEF CreateRefundBill, SharedPlaces
<1>2. Seen(w) \in Database /\ (manager = "noop" => Seen(w) = db)
  BY <1>1, WorkerAt
<1>3. new \in Database /\ new.order = Seen(w).order /\ new.bills = Seen(w).bills
  BY <1>2, QueriesAreTyped DEF OpenRefundBill, Database
<1>4. "commit" \in Places \ {"idle", "mark"} /\ Fits("commit", job[w])
  BY <1>1, SharedAt
<1>5. manager = "mongo" => \A d : At(w, d) => Stage("commit", job[w], d, new, plan[w], found[w])
  <2> SUFFICES ASSUME manager = "mongo", NEW d, At(w, d)
               PROVE  Stage("commit", job[w], d, new, plan[w], found[w])
    OBVIOUS
  <2> DEFINE r == plan[w]
  <2>1. /\ Seen(w) = StoreResult(Ready(d, job[w]), r) /\ Ready(d, job[w]) \in Database
        /\ r = Recalculated(Ready(d, job[w])) /\ r.verdict = "commit"
        /\ ~r.task /\ r.refund # {}
    BY <1>1, SharedAt DEF SharedStage, SharedPlaces
  <2> HIDE DEF new, r
  <2>2. new = ApplyResult(Ready(d, job[w]), r, FALSE)
    BY <2>1, StoredIsApplied DEF new
  <2> QED
    BY <1>1, <2>1, <2>2, AppliedAtCommit DEF r
<1>6. manager = "noop" => new.order.paid = db.order.paid /\ new.bills = db.bills
  BY <1>2, <1>3
<1>7. {} \in SUBSET Documents /\ DifferIn(Seen(w), new, {})
  BY <1>2, QueriesChange
<1> HIDE DEF new
<1> QED
  BY <1>1, <1>3, <1>4, <1>5, <1>6, <1>7, WriteOrRetryKeeps

LEMMA MarkItemsPaidKeeps ==
  ASSUME IInv, NEW w \in Workers, MarkItemsPaid(w)
  PROVE  IInv'
<1> DEFINE new == MoveItems(Seen(w), "pending_payment", "paid")
<1>1. /\ pc[w] = "items" /\ pc[w] \in SharedPlaces /\ pc[w] # "idle"
      /\ WriteItems(w, "pending_payment", "paid", "publish")
  BY DEF MarkItemsPaid, SharedPlaces
<1>2. "publish" \in Places \ {"idle", "mark"} /\ Fits("publish", job[w])
  BY <1>1, SharedAt DEF SharedPlaces
<1>3. manager = "mongo" => \A d : At(w, d) => Stage("publish", job[w], d, new, plan[w], found[w])
  <2> SUFFICES ASSUME manager = "mongo", NEW d, At(w, d)
               PROVE  Stage("publish", job[w], d, new, plan[w], found[w])
    OBVIOUS
  <2>1. /\ Seen(w) = StoreResult(Ready(d, job[w]), plan[w])
        /\ job[w] \in Results => Waiting(d, job[w])
        /\ plan[w] = Recalculated(Ready(d, job[w])) /\ plan[w].verdict = "commit"
        /\ plan[w].task
    BY <1>1, SharedAt DEF SharedStage, SharedPlaces
  <2>2. new = MoveItems(StoreResult(Ready(d, job[w]), plan[w]), "pending_payment", "paid")
    BY <2>1
  <2> HIDE DEF new
  <2> QED
    BY <2>1, <2>2 DEF Stage, ResultStage, TicketStage, SharedStage, CancelStage,
                      SharedPlaces, CancelPlaces
<1>4. "pending_payment" \in ItemStatus /\ "paid" \in ItemStatus
  BY DEF ItemStatus
<1> QED
  BY <1>1, <1>2, <1>3, <1>4, WriteItemsKeeps

LEMMA PublishTaskKeeps ==
  ASSUME IInv, NEW w \in Workers, PublishTask(w)
  PROVE  IInv'
<1> DEFINE new == PublishTicketGenerationTask(Seen(w))
<1>1. pc[w] = "publish" /\ pc[w] \in SharedPlaces /\ pc[w] # "idle"
  BY DEF PublishTask, SharedPlaces
<1>2. /\ Seen(w) \in Database
      /\ manager = "noop" => Seen(w) = db
      /\ manager = "mongo" => Seen(w) = view[w]
  BY <1>1, WorkerAt
<1>3. "commit" \in Places \ {"idle", "mark"} /\ Fits("commit", job[w])
  BY <1>1, SharedAt
<1>4. ASSUME manager = "mongo", NEW d, At(w, d), job[w] # <<"tickets">>
      PROVE  /\ Stage("commit", job[w], d, new, plan[w], found[w])
             /\ Stage("commit", job[w], d, view[w], plan[w], found[w])
  <2> DEFINE r == plan[w]
             m == MoveItems(StoreResult(Ready(d, job[w]), r), "pending_payment", "paid")
  <2>1. /\ Seen(w) = m /\ Ready(d, job[w]) \in Database
        /\ r = Recalculated(Ready(d, job[w])) /\ r.verdict = "commit" /\ r.task
    BY <1>1, <1>4, SharedAt DEF SharedStage, SharedPlaces
  <2>2. m = ApplyResult(Ready(d, job[w]), r, FALSE)
    BY <2>1, StoredIsApplied
  <2>3. PublishTicketGenerationTask(m) = ApplyResult(Ready(d, job[w]), r, TRUE)
    BY <2>1, StoredIsApplied
  <2>4. view[w] = m /\ new = PublishTicketGenerationTask(m)
    BY <1>2, <1>4, <2>1
  <2> HIDE DEF new, r, m
  <2>5. view[w] = ApplyResult(Ready(d, job[w]), r, FALSE)
        /\ new = ApplyResult(Ready(d, job[w]), r, TRUE)
    BY <2>2, <2>3, <2>4
  <2>6. Stage("commit", job[w], d, new, r, found[w])
    BY <1>1, <1>4, <2>1, <2>5, AppliedAtCommit
  <2>7. Stage("commit", job[w], d, view[w], r, found[w])
    BY <1>1, <1>4, <2>1, <2>5, AppliedAtCommit
  <2> QED
    BY <2>6, <2>7 DEF r
<1>5. CASE Panic(w)
  BY <1>5, PanicKeeps
<1>6. CASE job[w] # <<"tickets">> /\ Write(w, {}, new, "commit")
  <2>0. {} \in SUBSET Documents /\ DifferIn(Seen(w), new, {})
    BY <1>2, QueriesChange
  <2>1. new \in Database /\ new.order = Seen(w).order /\ new.bills = Seen(w).bills
    BY <1>2, QueriesAreTyped DEF PublishTicketGenerationTask, Database
  <2>2. manager = "noop" => new.order.paid = db.order.paid /\ new.bills = db.bills
    BY <1>2, <2>1
  <2> HIDE DEF new
  <2> QED
    BY <1>1, <1>3, <1>4, <1>6, <2>0, <2>1, <2>2, WriteOrRetryKeeps
<1>7. CASE /\ job[w] # <<"tickets">> /\ faults < MaxFaults
           /\ faults' = faults + 1
           /\ swallowed' = TRUE
           /\ pc' = [pc EXCEPT ![w] = "commit"]
           /\ UNCHANGED <<db, manager, queue, copies, job, view, wrote, stale, plan, found>>
  <2>1. pc'[w] = "commit" /\ \A v \in Workers \ {w} : pc'[v] = pc[v]
    BY <1>7 DEF IInv, TypeOK
  <2>2. TypeOK'
    BY <1>3, <1>7, SettlementAssumption DEF IInv, TypeOK
  <2>3. CoveredIsCredited'
    BY <1>7, <2>1, SameCovered
  <2>4. plan[w].order \in OrderDoc /\ plan[w].task \in BOOLEAN
    BY DEF IInv, InPlace
  <2>5. OwnWrites(w)
    BY OwnsItsWrites
  <2>6. manager = "mongo" =>
          \E d \in Database : /\ At(w, d)'
                              /\ SnapshotOf(d, db, stale[w]) /\ DifferIn(d, view[w], wrote[w])
    BY <1>1, <1>4, <1>7, <2>1, SnapshotStays
  <2> QED
    BY <1>3, <1>7, <2>1, <2>2, <2>3, <2>4, <2>5, <2>6, StepOfWorker DEF OwnWrites
<1> QED
  BY <1>5, <1>6, <1>7 DEF PublishTask

LEMMA ReadOrderKeeps ==
  ASSUME IInv, NEW w \in Workers, ReadOrder(w)
  PROVE  IInv'
<1> DEFINE next == IF Seen(w).order.status = "unpaid" THEN "bills" ELSE "commit"
<1>1. pc[w] = "order" /\ GoOn(w, next) /\ next \in Places \ {"idle"} /\ next # "mark"
  BY DEF ReadOrder, Places
<1>2. job[w] = <<"cancel">> /\ job[w] \notin Results /\ job[w] \in Jobs
  BY <1>1, WorkerAt, JobsAreDistinct DEF Fits, CancelPlaces, Jobs
<1>3. Fits(next, job[w])
  BY <1>2 DEF Fits, ResultPlaces, TicketPlaces, SharedPlaces, CancelPlaces
<1>4. manager = "mongo" => \A d : At(w, d) => Stage(next, job[w], d, view[w], plan[w], found[w])
  <2>1. manager = "mongo" => \A d : At(w, d) => view[w] = d /\ Seen(w) = d
    BY <1>1, WorkerAt DEF Stage, CancelStage
  <2> QED
    BY <1>2, <2>1 DEF Stage, ResultStage, TicketStage, SharedStage, CancelStage,
                      SharedPlaces, CancelPlaces
<1> HIDE DEF next
<1> QED
  BY <1>1, <1>3, <1>4, GoOnKeeps

LEMMA ReadBillsKeeps ==
  ASSUME IInv, NEW w \in Workers, ReadBills(w)
  PROVE  IInv'
<1> DEFINE f == {b \in Bills : Seen(w).bills[b] = "pending"}
<1>1. /\ pc[w] = "bills" /\ found' = [found EXCEPT ![w] = f] /\ pc' = [pc EXCEPT ![w] = "void"]
      /\ UNCHANGED <<db, manager, queue, copies, job, view, wrote, stale, plan, faults, swallowed>>
  BY DEF ReadBills
<1>2. job[w] = <<"cancel">> /\ job[w] \notin Results
  BY <1>1, WorkerAt, JobsAreDistinct DEF Fits, CancelPlaces
<1>3. "void" \in Places /\ Fits("void", job[w]) /\ f \in SUBSET Bills
  BY <1>2 DEF Places, Fits, ResultPlaces, TicketPlaces, SharedPlaces, CancelPlaces
<1>4. manager = "mongo" => \A d : At(w, d) => Stage("void", job[w], d, view[w], plan[w], f)
  <2> SUFFICES ASSUME manager = "mongo", NEW d, At(w, d)
               PROVE  Stage("void", job[w], d, view[w], plan[w], f)
    OBVIOUS
  <2>1. view[w] = d /\ Seen(w) = d /\ d.order.status = "unpaid" /\ d \in Database
    BY <1>1, WorkerAt DEF Stage, CancelStage, CancelPlaces
  <2>2. CanceledBut(d, f) = d
    BY <2>1 DEF CanceledBut, Database
  <2> QED
    BY <1>2, <2>1, <2>2 DEF Stage, ResultStage, TicketStage, SharedStage, CancelStage,
                            SharedPlaces, CancelPlaces
<1> HIDE DEF f
<1>5. /\ pc'[w] = "void" /\ found'[w] = f
      /\ \A v \in Workers \ {w} : pc'[v] = pc[v] /\ found'[v] = found[v]
  BY <1>1 DEF IInv, TypeOK
<1>6. TypeOK'
  BY <1>1, <1>3 DEF IInv, TypeOK
<1>7. CoveredIsCredited'
  BY <1>1, <1>5, SameCovered
<1>8. plan[w].order \in OrderDoc /\ plan[w].task \in BOOLEAN
  BY DEF IInv, InPlace
<1>9. OwnWrites(w)
  BY OwnsItsWrites
<1>10. manager = "mongo" =>
         \E d \in Database : /\ At(w, d)'
                             /\ SnapshotOf(d, db, stale[w]) /\ DifferIn(d, view[w], wrote[w])
  BY <1>1, <1>4, <1>5, SnapshotStays
<1> QED
  BY <1>1, <1>3, <1>5, <1>6, <1>7, <1>8, <1>9, <1>10, StepOfWorker DEF OwnWrites

LEMMA CancelBillKeeps ==
  ASSUME IInv, NEW w \in Workers, CancelBill(w)
  PROVE  IInv'
<1>1. pc[w] = "void" /\ pc[w] # "idle"
  BY DEF CancelBill
<1>2. job[w] = <<"cancel">> /\ job[w] \notin Results
  BY <1>1, WorkerAt, JobsAreDistinct DEF Fits, CancelPlaces
<1>3. \A next \in {"void", "cancel_items"} :
        next \in Places \ {"idle", "mark"} /\ Fits(next, job[w])
  BY <1>2 DEF Places, Fits, ResultPlaces, TicketPlaces, SharedPlaces, CancelPlaces
<1>4. manager = "mongo" => \A d : At(w, d) =>
        /\ d.order.status = "unpaid" /\ Seen(w) = CanceledBut(d, found[w])
        /\ \A b \in found[w] : d.bills[b] = "pending"
  BY <1>1, WorkerAt DEF Stage, CancelStage, CancelPlaces
<1>5. /\ Seen(w) \in Database /\ found[w] \in SUBSET Bills /\ db \in Database
      /\ manager = "noop" => Seen(w) = db
      /\ manager = "mongo" => Seen(w) = view[w]
  BY <1>1, WorkerAt
<1>6. ASSUME NEW b \in found[w], Retry(w, {b}) PROVE IInv'
  BY <1>1, <1>6, RetryKeeps
<1>7. ASSUME NEW b \in found[w], Put(w, {b}, MarkBill(Seen(w), b, "canceled"), "void"),
             found' = [found EXCEPT ![w] = @ \ {b}]
      PROVE  IInv'
  <2> DEFINE new == MarkBill(Seen(w), b, "canceled")
             f   == found[w] \ {b}
  <2>1. found' = [found EXCEPT ![w] = f] /\ f \in SUBSET Bills
    BY <1>5, <1>7
  <2>2. /\ new \in Database /\ new.order = Seen(w).order
        /\ new.bills = [Seen(w).bills EXCEPT ![b] = "canceled"]
    <3>1. "canceled" \in BillStatus
      BY DEF BillStatus
    <3> QED
      BY <1>5, <3>1, QueriesAreTyped DEF MarkBill, Database
  <2>3. manager = "mongo" => \A d : At(w, d) => Stage("void", job[w], d, new, plan[w], f)
    <3> SUFFICES ASSUME manager = "mongo", NEW d, At(w, d)
                 PROVE  Stage("void", job[w], d, new, plan[w], f)
      OBVIOUS
    <3>1. new = CanceledBut(d, f)
      <4> DEFINE bills(g) == [a \in Bills |-> IF d.bills[a] = "pending" /\ a \notin g
                                              THEN "canceled" ELSE d.bills[a]]
      <4>1. [bills(found[w]) EXCEPT ![b] = "canceled"] = bills(f)
        BY <1>4, <1>5
      <4>2. Seen(w) = [d EXCEPT !.bills = bills(found[w])]
        BY <1>4 DEF CanceledBut
      <4>3. CanceledBut(d, f) = [d EXCEPT !.bills = bills(f)]
        BY DEF CanceledBut
      <4> HIDE DEF bills, f
      <4>4. new = [d EXCEPT !.bills = [bills(found[w]) EXCEPT ![b] = "canceled"]]
        BY <1>5, <4>2 DEF MarkBill, Database
      <4> QED
        BY <4>1, <4>3, <4>4
    <3>2. \A a \in f : d.bills[a] = "pending"
      BY <1>4
    <3> HIDE DEF new, f
    <3> QED
      BY <1>2, <1>4, <3>1, <3>2 DEF Stage, ResultStage, TicketStage, SharedStage, CancelStage,
                                    SharedPlaces, CancelPlaces
  <2>4. manager = "noop" =>
          /\ new.order.paid = db.order.paid
          /\ \A a \in Bills : new.bills[a] = "paid" =>
               db.bills[a] = "paid" \/ (pc[w] = "mark" /\ job[w] = <<a, "success">>)
    BY <1>5, <2>2, DatabaseParts
  <2>5. "void" \in Places \ {"idle", "mark"} /\ Fits("void", job[w])
    BY <1>3
  <2>6. Put(w, {b}, new, "void")
    BY <1>7
  <2>7. {b} \in SUBSET Documents /\ DifferIn(Seen(w), new, {b})
    BY <1>5, QueriesChange DEF Documents
  <2> HIDE DEF new, f
  <2> QED
    BY <1>1, <2>1, <2>2, <2>3, <2>4, <2>5, <2>6, <2>7, WriteKeeps
<1>8. CASE found[w] = {} /\ GoOn(w, "cancel_items")
  <2>1. manager = "mongo" => \A d : At(w, d) =>
          Stage("cancel_items", job[w], d, view[w], plan[w], found[w])
    BY <1>2, <1>4, <1>5, <1>8 DEF Stage, ResultStage, TicketStage, SharedStage, CancelStage,
                                  SharedPlaces, CancelPlaces
  <2> QED
    BY <1>1, <1>3, <1>8, <2>1, GoOnKeeps
<1> QED
  BY <1>6, <1>7, <1>8 DEF CancelBill

LEMMA CancelItemsKeeps ==
  ASSUME IInv, NEW w \in Workers, CancelItems(w)
  PROVE  IInv'
<1> DEFINE new == MoveItems(Seen(w), "pending_payment", "canceled")
<1>1. pc[w] = "cancel_items" /\ WriteItems(w, "pending_payment", "canceled", "close")
  BY DEF CancelItems
<1>2. job[w] = <<"cancel">> /\ job[w] \notin Results
  BY <1>1, WorkerAt, JobsAreDistinct DEF Fits, CancelPlaces
<1>3. "close" \in Places \ {"idle", "mark"} /\ Fits("close", job[w])
  BY <1>2 DEF Places, Fits, ResultPlaces, TicketPlaces, SharedPlaces, CancelPlaces
<1>4. manager = "mongo" => \A d : At(w, d) => Stage("close", job[w], d, new, plan[w], found[w])
  <2>1. manager = "mongo" => \A d : At(w, d) =>
          d.order.status = "unpaid" /\ Seen(w) = CanceledBut(d, {})
    BY <1>1, WorkerAt DEF Stage, CancelStage, CancelPlaces
  <2>2. manager = "mongo" => \A d : At(w, d) =>
          new = MoveItems(CanceledBut(d, {}), "pending_payment", "canceled")
    BY <2>1
  <2> HIDE DEF new
  <2> QED
    BY <1>2, <2>1, <2>2 DEF Stage, ResultStage, TicketStage, SharedStage, CancelStage,
                            SharedPlaces, CancelPlaces
<1>5. "pending_payment" \in ItemStatus /\ "canceled" \in ItemStatus
  BY DEF ItemStatus
<1> QED
  BY <1>1, <1>3, <1>4, <1>5, WriteItemsKeeps

LEMMA CloseOrderKeeps ==
  ASSUME IInv, NEW w \in Workers, CloseOrder(w)
  PROVE  IInv'
<1> DEFINE new == SetStatus(Seen(w), "canceled")
<1>1. pc[w] = "close" /\ Write(w, {Order}, new, "commit")
  BY DEF CloseOrder
<1>2. job[w] = <<"cancel">> /\ job[w] \notin Results /\ job[w] \in Jobs
  BY <1>1, WorkerAt, JobsAreDistinct DEF Fits, CancelPlaces, Jobs
<1>3. "commit" \in Places \ {"idle", "mark"} /\ Fits("commit", job[w])
  BY <1>2 DEF Places, Fits, ResultPlaces, TicketPlaces, SharedPlaces, CancelPlaces
<1>4. new \in Database /\ new.order.paid = Seen(w).order.paid /\ new.bills = Seen(w).bills
  <2>1. Seen(w) \in Database /\ "canceled" \in OrderStatus
    BY <1>1, WorkerAt DEF OrderStatus
  <2> QED
    BY <2>1, QueriesAreTyped DEF SetStatus, Database, OrderDoc
<1>5. manager = "mongo" => \A d : At(w, d) => Stage("commit", job[w], d, new, plan[w], found[w])
  <2> SUFFICES ASSUME manager = "mongo", NEW d, At(w, d)
               PROVE  Stage("commit", job[w], d, new, plan[w], found[w])
    OBVIOUS
  <2>1. /\ d.order.status = "unpaid" /\ d \in Database
        /\ Seen(w) = MoveItems(CanceledBut(d, {}), "pending_payment", "canceled")
    BY <1>1, WorkerAt DEF Stage, CancelStage, CancelPlaces
  <2> DEFINE its   == UpdateItemsStatusByOrder(d.items, "pending_payment", "canceled")
             bills == [b \in Bills |-> IF d.bills[b] = "pending" THEN "canceled" ELSE d.bills[b]]
  <2>2. new = [d EXCEPT !.order.status = "canceled", !.items = its, !.bills = bills]
    <3>1. CanceledBut(d, {}) = [d EXCEPT !.bills = bills]
      BY DEF CanceledBut
    <3> HIDE DEF bills
    <3>2. MoveItems(CanceledBut(d, {}), "pending_payment", "canceled")
            = [d EXCEPT !.bills = bills, !.items = its]
      BY <2>1, <3>1 DEF MoveItems, Database
    <3> HIDE DEF its
    <3> QED
      BY <2>1, <3>2 DEF SetStatus, Database, OrderDoc
  <2>3. Canceled(d) = {[d EXCEPT !.order.status = "canceled", !.items = its, !.bills = bills]}
    <3> DEFINE c == MoveItems(SetStatus(d, "canceled"), "pending_payment", "canceled")
    <3>1. c = [d EXCEPT !.order.status = "canceled", !.items = its] /\ c.bills = d.bills
      <4> HIDE DEF bills
      <4> QED
        BY <2>1 DEF MoveItems, SetStatus, Database, OrderDoc
    <3>2. Canceled(d) = {[c EXCEPT !.bills = [b \in Bills |-> IF c.bills[b] = "pending"
                                                              THEN "canceled" ELSE c.bills[b]]]}
      BY <2>1 DEF Canceled
    <3> HIDE DEF c, its
    <3>3. Canceled(d) = {[c EXCEPT !.bills = bills]}
      BY <3>1, <3>2
    <3> HIDE DEF bills
    <3> QED
      BY <2>1, <3>1, <3>3 DEF Database, OrderDoc
  <2>4. Outcomes(d, job[w]) = Canceled(d)
    BY <1>2, JobsAreDistinct DEF Outcomes
  <2> HIDE DEF new
  <2>5. new \in Outcomes(d, job[w])
    BY <2>2, <2>3, <2>4
  <2> QED
    BY <2>5 DEF Stage, ResultStage, TicketStage, SharedStage, CancelStage,
                SharedPlaces, CancelPlaces
<1>6. manager = "noop" => new.order.paid = db.order.paid /\ new.bills = db.bills
  BY <1>1, <1>4, WorkerAt
<1>7. {Order} \in SUBSET Documents /\ DifferIn(Seen(w), new, {Order})
  BY <1>1, WorkerAt, QueriesChange DEF Documents
<1> HIDE DEF new
<1> QED
  BY <1>1, <1>3, <1>4, <1>5, <1>6, <1>7, WriteOrRetryKeeps

-----------------------------------------------------------------------------
(* What a whole handler makes of a sound order.                             *)

LEMMA SameDatabase ==
  ASSUME NEW d \in Database, NEW e \in Database,
         d.order = e.order, d.items = e.items, d.bills = e.bills, d.tickets = e.tickets,
         d.tasks = e.tasks, d.refunds = e.refunds
  PROVE  d = e
BY DEF Database

LEMMA AppliedParts ==
  ASSUME NEW d \in Database, NEW r, NEW p \in BOOLEAN, NEW e, e = ApplyResult(d, r, p)
  PROVE  /\ e.order = r.order /\ e.items = r.items
         /\ e.bills = d.bills /\ e.tickets = d.tickets
         /\ e.refunds = d.refunds + Cardinality(r.refund)
         /\ e.tasks = (IF r.task /\ p THEN d.tasks + 1 ELSE d.tasks)
BY DEF ApplyResult, Database

LEMMA NothingApplied ==
  ASSUME NEW d \in Database, NEW e \in Database, NEW r, NEW p \in BOOLEAN,
         e = ApplyResult(d, r, p),
         r.order = d.order, r.items = d.items, r.task = FALSE, r.refund = {}
  PROVE  e = d
<1>1. d.refunds + Cardinality(r.refund) = d.refunds
  <2>1. Cardinality(r.refund) = 0
    BY FS_EmptySet
  <2> QED
    BY <2>1, DatabaseParts
<1>2. /\ e.order = r.order /\ e.items = r.items /\ e.bills = d.bills /\ e.tickets = d.tickets
      /\ e.refunds = d.refunds + Cardinality(r.refund)
  BY DEF ApplyResult, Database
<1>3. e.tasks = d.tasks
  BY DEF ApplyResult, Database
<1> QED
  BY <1>1, <1>2, <1>3, SameDatabase

(* The bills have all their money on the order only when they are all paid. *)
LEMMA AllArePaid ==
  ASSUME NEW S \in SUBSET Bills
  PROVE  /\ 0 <= SumOver(Amount, S) /\ SumOver(Amount, S) <= Total
         /\ SumOver(Amount, S) = Total => S = Bills
<1>1. /\ IsFiniteSet(Bills) /\ \A b \in Bills : Amount[b] \in Nat
      /\ Total = SumOver(Amount, Bills) /\ Total \in Int
  BY AmountsAddUp DEF Total
<1>2. 0 <= SumOver(Amount, S) /\ SumOver(Amount, S) <= Total
  BY <1>1, SumOfPart
<1>3. ASSUME NEW x \in Bills, x \notin S PROVE SumOver(Amount, S) # Total
  <2>1. S \union {x} \in SUBSET Bills
    OBVIOUS
  <2>2. SumOver(Amount, S \union {x}) <= Total
    BY <1>1, <2>1, SumOfPart
  <2>3. SumOver(Amount, S \union {x}) = SumOver(Amount, S) + Amount[x]
    <3>1. IsFiniteSet(S) /\ \A y \in S \union {x} : Amount[y] \in Int
      BY AmountsAddUp
    <3> QED
      BY <1>3, <3>1, SumWith
  <2>4. Amount[x] \in Nat \ {0} /\ SumOver(Amount, S) \in Int
    BY SettlementAssumption, AmountsAddUp
  <2> QED
    BY <1>1, <2>2, <2>3, <2>4
<1> QED
  BY <1>2, <1>3

(* The recalculation of an order that waits for its money.                  *)
LEMMA WaitingRecalculates ==
  ASSUME NEW ord \in OrderDoc, NEW its \in [Items -> ItemStatus], NEW p \in BOOLEAN,
         \A i \in Items : its[i] = "pending_payment",
         ord.status \in {"unpaid", "partially_paid"}, ord.paid <= ord.total, 0 <= ord.paid,
         ord.returned = 0, ord.status = "partially_paid" => ord.paid > 0,
         NEW r, r = RecalculateOrderStatus(ord, its, p)
  PROVE  \/ ord.total = ord.paid /\ r = UpdateOrderToPaid(ord, its, p)
         \/ r = Commit(ord, its)
         \/ ord.paid > 0 /\ r = Move(ord, its, "partially_paid")
<1>1. ord.total \in Int /\ ord.paid \in Int
  BY DEF OrderDoc
<1>2. CASE ord.status = "unpaid"
  <2>1. r = RecalculateUnpaid(ord, its, p)
    BY <1>2 DEF RecalculateOrderStatus
  <2>2. ~(\A i \in DOMAIN its : its[i] = "canceled") /\ \E i \in DOMAIN its : its[i] # "canceled"
    BY SettlementAssumption
  <2>3. Decimal128ToInt64(ord.paid) > 0 => ord.paid > 0
    <3>1. Decimal128ToInt64(0) = 0
      BY UnitAssumption DEF Decimal128ToInt64
    <3> QED
      BY <1>1, <3>1
  <2>4. \/ ord.total = ord.paid /\ r = UpdateOrderToPaid(ord, its, p)
        \/ r = Commit(ord, its)
        \/ Decimal128ToInt64(ord.paid) > 0 /\ r = Move(ord, its, "partially_paid")
    BY ONLY <2>1, <2>2 DEF RecalculateUnpaid
  <2> QED
    BY <2>3, <2>4
<1>3. CASE ord.status = "partially_paid"
  <2>1. r = RecalculatePartiallyPaid(ord, its, p)
    BY <1>3 DEF RecalculateOrderStatus
  <2>2. ~(ord.total < ord.paid) /\ ord.returned # ord.paid
    BY <1>1, <1>3
  <2>3. CASE ord.total = ord.paid
    BY ONLY <2>1, <2>2, <2>3 DEF RecalculatePartiallyPaid
  <2>4. CASE ord.total # ord.paid
    BY ONLY <2>1, <2>2, <2>4 DEF RecalculatePartiallyPaid
  <2> QED
    BY <2>3, <2>4
<1> QED
  BY <1>2, <1>3

(* Its outcomes: paid with its items, or what it was but for the status.    *)
LEMMA WaitingResults ==
  ASSUME NEW ord \in OrderDoc, NEW its \in [Items -> ItemStatus], NEW p \in BOOLEAN,
         \A i \in Items : its[i] = "pending_payment",
         ord.status \in {"unpaid", "partially_paid"}, ord.paid <= ord.total, 0 <= ord.paid,
         ord.returned = 0, ord.status = "partially_paid" => ord.paid > 0,
         NEW r, r = RecalculateOrderStatus(ord, its, p), r.verdict = "commit"
  PROVE  /\ r.order.total = ord.total /\ r.order.paid = ord.paid /\ r.order.returned = 0
         /\ \/ /\ p /\ ord.total = ord.paid /\ r.order.status = "paid"
               /\ \A i \in Items : r.items[i] = "paid"
            \/ r.order = ord /\ r.items = its
            \/ /\ r.order.status = "partially_paid" /\ r.items = its /\ ord.paid > 0
<1>1. CASE ord.total = ord.paid /\ r = UpdateOrderToPaid(ord, its, p)
  <2>1. p
    BY <1>1 DEF UpdateOrderToPaid, Abort, Result
  <2>2. r.order = [ord EXCEPT !.status = "paid"]
        /\ r.items = UpdateItemsStatusByOrder(its, "pending_payment", "paid")
    BY <1>1, <2>1 DEF UpdateOrderToPaid, Result
  <2>3. \A i \in Items : r.items[i] = "paid"
    BY <2>2 DEF UpdateItemsStatusByOrder
  <2>4. /\ r.order.status = "paid" /\ r.order.total = ord.total /\ r.order.paid = ord.paid
        /\ r.order.returned = ord.returned
    BY <2>2 DEF OrderDoc
  <2> QED
    BY <1>1, <2>1, <2>3, <2>4
<1>2. CASE r = Commit(ord, its)
  BY <1>2 DEF Commit, Result
<1>3. CASE ord.paid > 0 /\ r = Move(ord, its, "partially_paid")
  <2>1. r.order = [ord EXCEPT !.status = "partially_paid"] /\ r.items = its
    BY <1>3 DEF Move, Commit, Result
  <2> QED
    BY <1>3, <2>1 DEF OrderDoc
<1> QED
  BY <1>1, <1>2, <1>3, WaitingRecalculates

(* The parts of a sound order.                                              *)
LEMMA SoundParts ==
  ASSUME NEW d \in Database, Sound(d)
  PROVE  /\ d.order \in OrderDoc /\ d.items \in [Items -> ItemStatus]
         /\ d.bills \in [Bills -> BillStatus]
         /\ d.order.total = Total /\ Total \in Int /\ d.order.paid \in Int
         /\ d.order.returned = 0
         /\ PaidBills(d) \in SUBSET Bills /\ d.order.paid = SumOver(Amount, PaidBills(d))
         /\ 0 <= d.order.paid /\ d.order.paid <= d.order.total
<1>1. PaidBills(d) \in SUBSET Bills
  BY DEF PaidBills
<1>2. Total \in Int
  BY AmountsAddUp DEF Total
<1> QED
  BY <1>1, <1>2, DatabaseParts, AllArePaid DEF Sound

(* A payment result.  One that is applied has found its bill pending.       *)
LEMMA SettledIsSound ==
  ASSUME NEW d \in Database, Sound(d), NEW b \in Bills, NEW success \in BOOLEAN,
         NEW e \in Database, e \in Settled(d, b, success)
  PROVE  /\ Sound(e)
         /\ \A a \in Bills : e.bills[a] = "pending" => d.bills[a] = "pending"
         /\ \/ e = d
            \/ ~success /\ d.bills[b] = "pending" /\ e = MarkBill(d, b, "failed")
            \/ success /\ d.bills[b] = "pending" /\ e.order # d.order
<1> DEFINE paid == Credit(MarkBill(d, b, "paid"), b)
           r    == RecalculateOrderStatus(paid.order, paid.items, TRUE)
<1>1. \/ e = d
      \/ ~success /\ d.bills[b] = "pending" /\ e = MarkBill(d, b, "failed")
      \/ /\ success /\ d.bills[b] = "pending" /\ r.verdict = "commit"
         /\ \E p \in BOOLEAN : e = ApplyResult(paid, r, p)
  BY DEF Settled
<1>2. CASE e = d
  BY <1>2
<1>3. CASE ~success /\ d.bills[b] = "pending" /\ e = MarkBill(d, b, "failed")
  <2>1. e.order = d.order /\ e.items = d.items /\ e.bills = [d.bills EXCEPT ![b] = "failed"]
    BY <1>3 DEF MarkBill, Database
  <2>2. \A a \in Bills : e.bills[a] = (IF a = b THEN "failed" ELSE d.bills[a])
    BY <2>1, DatabaseParts
  <2>3. PaidBills(e) = PaidBills(d)
    BY <1>3, <2>2 DEF PaidBills
  <2>4. Sound(e)
    BY <2>1, <2>2, <2>3 DEF Sound
  <2> QED
    BY <1>3, <2>2, <2>4
<1>4. ASSUME success, d.bills[b] = "pending", r.verdict = "commit",
             NEW p \in BOOLEAN, e = ApplyResult(paid, r, p)
      PROVE  /\ Sound(e) /\ e.order # d.order
             /\ \A a \in Bills : e.bills[a] = "pending" => d.bills[a] = "pending"
  <2>1. paid \in Database
    <3>1. MarkBill(d, b, "paid") \in Database
      BY QueriesAreTyped DEF BillStatus
    <3> QED
      BY <3>1, QueriesAreTyped
  <2>2. /\ paid.order = [d.order EXCEPT !.paid = @ + Amount[b]] /\ paid.items = d.items
        /\ paid.bills = [d.bills EXCEPT ![b] = "paid"]
    BY DEF Credit, MarkBill, Database, OrderDoc
  <2>3. /\ paid.order.status = d.order.status /\ paid.order.total = Total
        /\ paid.order.returned = 0 /\ paid.order.paid = d.order.paid + Amount[b]
        /\ paid.order \in OrderDoc /\ paid.items \in [Items -> ItemStatus]
    BY <2>1, <2>2, SoundParts, DatabaseParts DEF OrderDoc
  <2>4. /\ e.order = r.order /\ e.items = r.items /\ e.bills = [d.bills EXCEPT ![b] = "paid"]
    <3> HIDE DEF paid, r
    <3> QED
      BY <1>4, <2>1, <2>2, AppliedParts
  <2>5. \A a \in Bills : e.bills[a] = (IF a = b THEN "paid" ELSE d.bills[a])
    BY <2>4, DatabaseParts
  <2> DEFINE before == PaidBills(d)
  <2>6. PaidBills(e) = before \union {b} /\ b \notin before /\ before \in SUBSET Bills
    BY <1>4, <2>5 DEF PaidBills
  <2>7. SumOver(Amount, PaidBills(e)) = paid.order.paid
    <3>1. IsFiniteSet(before) /\ \A y \in before \union {b} : Amount[y] \in Int
      BY <2>6, AmountsAddUp
    <3>2. SumOver(Amount, before) = d.order.paid
      BY SoundParts
    <3> HIDE DEF before, paid, r
    <3>3. SumOver(Amount, before \union {b}) = SumOver(Amount, before) + Amount[b]
      BY <2>6, <3>1, SumWith
    <3> QED
      BY <2>3, <2>6, <3>2, <3>3
  <2>8. PaidBills(e) \in SUBSET Bills
    BY DEF PaidBills
  <2>9. /\ paid.order.paid > 0 /\ paid.order.paid # d.order.paid
        /\ paid.order.paid <= paid.order.total
        /\ paid.order.paid = Total => PaidBills(e) = Bills
    <3>1. Amount[b] \in Nat \ {0} /\ d.order.paid \in Int /\ 0 <= d.order.paid
      BY SettlementAssumption, SoundParts
    <3>2. /\ SumOver(Amount, PaidBills(e)) <= Total
          /\ SumOver(Amount, PaidBills(e)) = Total => PaidBills(e) = Bills
      BY <2>8, AllArePaid
    <3> HIDE DEF paid, r
    <3> QED
      BY <2>3, <2>7, <3>1, <3>2
  <2>10. d.order.status \in {"unpaid", "partially_paid"}
    BY <1>4 DEF Sound
  <2>11. \A i \in Items : paid.items[i] = "pending_payment"
    BY <2>2, <2>10 DEF Sound, ItemsOf
  <2>12. /\ r.order.total = Total /\ r.order.paid = paid.order.paid /\ r.order.returned = 0
         /\ \/ /\ paid.order.total = paid.order.paid /\ r.order.status = "paid"
               /\ \A i \in Items : r.items[i] = "paid"
            \/ r.order = paid.order /\ r.items = paid.items
            \/ r.order.status = "partially_paid" /\ r.items = paid.items
    <3>1. 0 <= paid.order.paid
      <4>1. paid.order.paid \in Int
        BY <2>3 DEF OrderDoc
      <4> HIDE DEF paid
      <4> QED
        BY <2>9, <4>1
    <3> DEFINE ord == paid.order
               its == paid.items
    <3>2. r = RecalculateOrderStatus(ord, its, TRUE)
      OBVIOUS
    <3>a. PICK yes \in BOOLEAN : yes = TRUE
      OBVIOUS
    <3>3. /\ ord \in OrderDoc /\ its \in [Items -> ItemStatus] /\ r.verdict = "commit"
          /\ \A i \in Items : its[i] = "pending_payment"
          /\ ord.status \in {"unpaid", "partially_paid"}
          /\ ord.paid <= ord.total /\ 0 <= ord.paid /\ ord.returned = 0 /\ ord.paid > 0
          /\ ord.total = Total
      BY <1>4, <2>3, <2>9, <2>10, <2>11, <3>1
    <3> HIDE DEF paid, r, ord, its
    <3>b. r = RecalculateOrderStatus(ord, its, yes)
      BY <3>2, <3>a
    <3>4. /\ r.order.total = ord.total /\ r.order.paid = ord.paid /\ r.order.returned = 0
          /\ \/ /\ ord.total = ord.paid /\ r.order.status = "paid"
                /\ \A i \in Items : r.items[i] = "paid"
             \/ r.order = ord /\ r.items = its
             \/ r.order.status = "partially_paid" /\ r.items = its
      BY <3>3, <3>b, WaitingResults
    <3> QED
      BY <3>3, <3>4 DEF ord, its
  <2> HIDE DEF paid, r, before
  <2>13. Sound(e)
    <3>1. CASE /\ paid.order.total = paid.order.paid /\ r.order.status = "paid"
               /\ \A i \in Items : r.items[i] = "paid"
      <4>1. PaidBills(e) = Bills
        BY <2>3, <2>9, <3>1
      <4>2. \A a \in Bills : e.bills[a] # "pending"
        BY <4>1 DEF PaidBills
      <4> QED
        BY <2>4, <2>7, <2>12, <3>1, <4>2 DEF Sound, ItemsOf
    <3>2. CASE r.order = paid.order /\ r.items = paid.items
      <4>1. /\ e.order.status \in {"unpaid", "partially_paid"} /\ e.order.paid > 0
            /\ \A i \in Items : e.items[i] = "pending_payment"
        BY <2>3, <2>4, <2>9, <2>10, <2>11, <3>2
      <4> QED
        BY <2>4, <2>7, <2>12, <4>1 DEF Sound, ItemsOf
    <3>3. CASE r.order.status = "partially_paid" /\ r.items = paid.items
      <4>1. /\ e.order.status = "partially_paid" /\ e.order.paid > 0
            /\ \A i \in Items : e.items[i] = "pending_payment"
        BY <2>4, <2>9, <2>11, <2>12, <3>3
      <4> QED
        BY <2>4, <2>7, <2>12, <4>1 DEF Sound, ItemsOf
    <3> QED
      BY <2>12, <3>1, <3>2, <3>3
  <2>14. e.order # d.order
    BY <2>4, <2>9, <2>12
  <2> QED
    BY <2>5, <2>13, <2>14
<1> HIDE DEF paid, r
<1> QED
  BY <1>1, <1>2, <1>3, <1>4

(* The ticket task.  A run that changes something changes the status.       *)
LEMMA FulfilledIsSound ==
  ASSUME NEW d \in Database, Sound(d), NEW e \in Database, e \in Fulfilled(d)
  PROVE  Sound(e) /\ e.bills = d.bills /\ (e = d \/ e.order # d.order)
<1> DEFINE moved == MoveItems(Made(d), "paid", "delivered")
           r     == RecalculateOrderStatus(moved.order, moved.items, FALSE)
<1>0. PICK no \in BOOLEAN : no = FALSE
  OBVIOUS
<1>1. e = d \/ (r.verdict = "commit" /\ e = ApplyResult(moved, r, no))
  BY <1>0 DEF Fulfilled, Made
<1>2. /\ moved \in Database /\ moved.order = d.order /\ moved.bills = d.bills
      /\ moved.items = [i \in Items |-> IF d.items[i] = "paid" THEN "delivered" ELSE d.items[i]]
      /\ moved.tickets = Made(d).tickets
  <2>1. /\ Made(d) \in Database /\ Made(d).order = d.order /\ Made(d).bills = d.bills
        /\ Made(d).items = d.items
    BY QueriesAreTyped DEF Made, CreateTickets, Database
  <2>2. "paid" \in ItemStatus /\ "delivered" \in ItemStatus
    BY DEF ItemStatus
  <2> HIDE DEF Made
  <2> QED
    BY <2>1, <2>2, QueriesAreTyped DEF MoveItems, UpdateItemsStatusByOrder, Database
<1>3. ASSUME r.verdict = "commit", e = ApplyResult(moved, r, no)
      PROVE  Sound(e) /\ e.bills = d.bills /\ (e = d \/ e.order # d.order)
  <2> HIDE DEF moved
  <2>1. e.order = r.order /\ e.items = r.items /\ e.bills = d.bills
    <3> HIDE DEF r
    <3> QED
      BY <1>2, <1>3, AppliedParts
  <2>2. PaidBills(e) = PaidBills(d)
    BY <2>1 DEF PaidBills
  <2>3. /\ d.order \in OrderDoc /\ moved.items \in [Items -> ItemStatus] /\ FALSE \in BOOLEAN
        /\ d.order.total \in Int /\ d.order.paid \in Int
    BY <1>2, SoundParts, DatabaseParts
  <2>4. CASE d.order.status \in {"unpaid", "partially_paid"}
    <3>1. \A i \in Items : d.items[i] = "pending_payment"
      BY <2>4 DEF Sound, ItemsOf
    <3>2. moved.items = d.items
      <4>1. \A i \in Items : moved.items[i] = d.items[i]
        BY <1>2, <3>1
      <4> QED
        BY <2>3, <4>1, DatabaseParts
    <3>3. moved = d
      <4>1. Made(d) = d
        BY <2>4 DEF Made
      <4>2. \A i \in Items : d.items[i] # "paid"
        BY <3>1
      <4> QED
        BY <4>1, <4>2, NothingMoves DEF moved
    <3>4. \/ r = Commit(d.order, d.items)
          \/ d.order.paid > 0 /\ r = Move(d.order, d.items, "partially_paid")
      <4>1. r = RecalculateOrderStatus(d.order, d.items, FALSE)
        BY <3>3
      <4>2. UpdateOrderToPaid(d.order, d.items, FALSE).verdict = "panic"
        BY DEF UpdateOrderToPaid, Abort, Result
      <4>3. /\ d.order.paid <= d.order.total /\ 0 <= d.order.paid /\ d.order.returned = 0
            /\ d.order.status = "partially_paid" => d.order.paid > 0
        BY SoundParts DEF Sound
      <4> HIDE DEF r
      <4> QED
        BY <1>3, <2>3, <2>4, <3>1, <3>3, <4>1, <4>2, <4>3, WaitingRecalculates
    <3>5. CASE r = Commit(d.order, d.items)
      <4> HIDE DEF r
      <4>1. /\ r.order = d.order /\ r.items = d.items /\ r.task = FALSE /\ r.refund = {}
        BY <3>5 DEF Commit, Result
      <4>2. e = d
        BY <1>3, <3>3, <4>1, NothingApplied
      <4> QED
        BY <4>2
    <3>6. CASE d.order.paid > 0 /\ r = Move(d.order, d.items, "partially_paid")
      <4> HIDE DEF r
      <4>1. r.order = [d.order EXCEPT !.status = "partially_paid"] /\ r.items = d.items
            /\ r.task = FALSE /\ r.refund = {}
        BY <3>6 DEF Move, Commit, Result
      <4>2. /\ e.order.status = "partially_paid" /\ e.order.paid = d.order.paid
            /\ e.order.total = d.order.total /\ e.order.returned = d.order.returned
        BY <2>1, <2>3, <4>1 DEF OrderDoc
      <4>3. Sound(e)
        BY <2>1, <2>2, <3>1, <3>6, <4>1, <4>2 DEF Sound, ItemsOf
      <4>4. e = d \/ e.order # d.order
        <5>1. CASE d.order.status = "partially_paid"
          <6>1. r.order = d.order
            BY <2>3, <4>1, <5>1 DEF OrderDoc
          <6> QED
            BY <1>3, <3>3, <4>1, <6>1, NothingApplied
        <5>2. CASE d.order.status # "partially_paid"
          BY <4>2, <5>2
        <5> QED
          BY <5>1, <5>2
      <4> QED
        BY <2>1, <4>3, <4>4
    <3> QED
      BY <3>4, <3>5, <3>6
  <2>5. CASE d.order.status = "paid"
    <3>1. \A i \in Items : moved.items[i] = "delivered"
      BY <1>2, <2>5 DEF Sound, ItemsOf
    <3>2. CountItems(moved.items, "pending_payment") = 0
      <4>1. {i \in DOMAIN moved.items : moved.items[i] = "pending_payment"} = {}
        BY <2>3, <3>1
      <4> QED
        BY <4>1, FS_EmptySet DEF CountItems
    <3>3. r = RecalculatePaid(d.order, moved.items)
      BY <1>2, <2>5 DEF RecalculateOrderStatus
    <3>4. \E n : r = Commit([d.order EXCEPT !.status = "completed", !.itemsCount = n], moved.items)
      <4> HIDE DEF r
      <4> QED
        BY <3>2, <3>3 DEF RecalculatePaid
    <3>5. /\ r.order.status = "completed" /\ r.order.total = d.order.total
          /\ r.order.paid = d.order.paid /\ r.order.returned = d.order.returned
          /\ r.items = moved.items
      <4> HIDE DEF r
      <4>1. PICK n : r = Commit([d.order EXCEPT !.status = "completed", !.itemsCount = n], moved.items)
        BY <3>4
      <4>2. r.order = [d.order EXCEPT !.status = "completed", !.itemsCount = n] /\ r.items = moved.items
        BY <4>1 DEF Commit, Result
      <4> QED
        BY <2>3, <4>2 DEF OrderDoc
    <3> HIDE DEF r
    <3>6. Sound(e)
      BY <2>1, <2>2, <2>5, <3>1, <3>5 DEF Sound, ItemsOf
    <3> QED
      BY <2>1, <2>5, <3>5, <3>6
  <2>6. CASE d.order.status = "completed"
    <3>1. \A i \in Items : d.items[i] = "delivered"
      BY <2>6 DEF Sound, ItemsOf
    <3>2. moved = d
      <4>1. Made(d) = d
        BY <2>6 DEF Made
      <4>2. \A i \in Items : d.items[i] # "paid"
        BY <3>1
      <4> QED
        BY <4>1, <4>2, NothingMoves DEF moved
    <3>3. ~SomeReturnOpen(d.items)
      BY <3>1, DatabaseParts DEF SomeReturnOpen
    <3>4. r = Commit(d.order, d.items)
      BY <2>6, <3>2, <3>3 DEF RecalculateOrderStatus, RecalculateCompleted
    <3> HIDE DEF r
    <3>5. r.order = d.order /\ r.items = d.items /\ r.task = FALSE /\ r.refund = {}
      BY <3>4 DEF Commit, Result
    <3>6. e = d
      BY <1>3, <3>2, <3>5, NothingApplied
    <3> QED
      BY <3>6
  <2>7. CASE d.order.status = "canceled"
    <3>1. r = Abort(d.order, moved.items, "panic")
      BY <1>2, <2>7 DEF RecalculateOrderStatus
    <3> HIDE DEF r
    <3>2. r.verdict = "panic"
      BY <3>1 DEF Abort, Result
    <3> QED
      BY <1>3, <3>2
  <2> QED
    BY <2>4, <2>5, <2>6, <2>7 DEF Sound
<1> HIDE DEF moved, r
<1> QED
  BY <1>1, <1>3

LEMMA CanceledParts ==
  ASSUME NEW d \in Database, d.order.status = "unpaid", NEW e, e \in Canceled(d)
  PROVE  /\ e \in Database /\ e.order = [d.order EXCEPT !.status = "canceled"]
         /\ e.items = UpdateItemsStatusByOrder(d.items, "pending_payment", "canceled")
         /\ e.bills = [b \in Bills |-> IF d.bills[b] = "pending" THEN "canceled" ELSE d.bills[b]]
         /\ e.tickets = d.tickets /\ e.tasks = d.tasks /\ e.refunds = d.refunds
<1> DEFINE c == MoveItems(SetStatus(d, "canceled"), "pending_payment", "canceled")
<1>1. /\ c \in Database /\ c.order = [d.order EXCEPT !.status = "canceled"] /\ c.bills = d.bills
      /\ c.items = UpdateItemsStatusByOrder(d.items, "pending_payment", "canceled")
      /\ c.tickets = d.tickets /\ c.tasks = d.tasks /\ c.refunds = d.refunds
  <2>1. "canceled" \in OrderStatus /\ "pending_payment" \in ItemStatus /\ "canceled" \in ItemStatus
    BY DEF OrderStatus, ItemStatus
  <2>2. SetStatus(d, "canceled") \in Database
    BY <2>1, QueriesAreTyped
  <2>3. c \in Database
    BY <2>1, <2>2, QueriesAreTyped
  <2> QED
    BY <2>3 DEF MoveItems, SetStatus, Database
<1>2. e = [c EXCEPT !.bills = [b \in Bills |-> IF c.bills[b] = "pending"
                                              THEN "canceled" ELSE c.bills[b]]]
  BY DEF Canceled
<1> HIDE DEF c
<1>3. [b \in Bills |-> IF c.bills[b] = "pending" THEN "canceled" ELSE c.bills[b]]
        \in [Bills -> BillStatus]
  BY <1>1, DatabaseParts DEF BillStatus
<1> QED
  BY <1>1, <1>2, <1>3 DEF Database

LEMMA CanceledIsSound ==
  ASSUME NEW d \in Database, Sound(d), NEW e \in Database, e \in Canceled(d)
  PROVE  /\ Sound(e)
         /\ \A a \in Bills : e.bills[a] = "pending" => d.bills[a] = "pending"
         /\ e = d \/ (d.order.status = "unpaid" /\ e.order # d.order)
<1>1. CASE d.order.status # "unpaid"
  BY <1>1 DEF Canceled
<1>2. CASE d.order.status = "unpaid"
  <2>1. /\ e.order = [d.order EXCEPT !.status = "canceled"]
        /\ e.items = UpdateItemsStatusByOrder(d.items, "pending_payment", "canceled")
        /\ e.bills = [b \in Bills |-> IF d.bills[b] = "pending" THEN "canceled" ELSE d.bills[b]]
    BY <1>2, CanceledParts
  <2>2. PaidBills(e) = PaidBills(d)
    BY <2>1 DEF PaidBills
  <2>3. \A a \in Bills : e.bills[a] # "pending"
    BY <2>1
  <2>4. \A i \in Items : e.items[i] = "canceled"
    BY <1>2, <2>1, DatabaseParts DEF Sound, ItemsOf, UpdateItemsStatusByOrder
  <2>5. /\ e.order.status = "canceled" /\ e.order.total = d.order.total
        /\ e.order.paid = d.order.paid /\ e.order.returned = d.order.returned
    BY <2>1, DatabaseParts DEF OrderDoc
  <2>6. Sound(e)
    BY <2>2, <2>3, <2>4, <2>5 DEF Sound, ItemsOf
  <2> QED
    BY <1>2, <2>3, <2>5, <2>6
<1> QED
  BY <1>1, <1>2

LEMMA OutcomesAreSound ==
  ASSUME NEW d \in Database, Sound(d), NEW j \in Jobs, NEW e \in Database, e \in Outcomes(d, j)
  PROVE  /\ Sound(e)
         /\ \A a \in Bills : e.bills[a] = "pending" => d.bills[a] = "pending"
         /\ \/ e = d \/ e.order # d.order
            \/ /\ j \in Results /\ j[2] # "success" /\ d.bills[j[1]] = "pending"
               /\ e = MarkBill(d, j[1], "failed")
<1>1. CASE j \in Results
  <2>1. /\ j[1] \in Bills /\ Outcomes(d, j) = Settled(d, j[1], j[2] = "success")
    BY <1>1, JobsAreDistinct DEF Outcomes
  <2>2. CASE j[2] = "success"
    <3>1. PICK s \in BOOLEAN : s = (j[2] = "success")
      OBVIOUS
    <3>2. e \in Settled(d, j[1], s) /\ s
      BY <2>1, <2>2, <3>1
    <3>3. j[1] \in Bills
      BY <2>1
    <3> QED
      BY <3>2, <3>3, SettledIsSound
  <2>3. CASE j[2] # "success"
    <3>1. PICK s \in BOOLEAN : s = (j[2] = "success")
      OBVIOUS
    <3>2. e \in Settled(d, j[1], s) /\ ~s
      BY <2>1, <2>3, <3>1
    <3>3. j[1] \in Bills
      BY <2>1
    <3> QED
      BY <1>1, <2>3, <3>2, <3>3, SettledIsSound
  <2> QED
    BY <2>2, <2>3
<1>2. CASE j = <<"tickets">>
  BY <1>2, FulfilledIsSound DEF Outcomes
<1>3. CASE j = <<"cancel">>
  BY <1>3, JobsAreDistinct, CanceledIsSound DEF Outcomes
<1> QED
  BY <1>1, <1>2, <1>3, JobsAreDistinct

-----------------------------------------------------------------------------
(* The commit.                                                              *)

(* What is committed is e when a handler commits v, which it has made of d. *)
Merge(d, v, e) ==
  [order   |-> IF v.order = d.order THEN e.order ELSE v.order,
   items   |-> [i \in Items |-> IF v.items[i] = d.items[i] THEN e.items[i] ELSE v.items[i]],
   bills   |-> [b \in Bills |-> IF v.bills[b] = d.bills[b] THEN e.bills[b] ELSE v.bills[b]],
   tickets |-> [i \in Items |-> e.tickets[i] + v.tickets[i]],
   tasks   |-> e.tasks + v.tasks,
   refunds |-> e.refunds + v.refunds]

LEMMA MergeIsTyped ==
  ASSUME NEW d \in Database, NEW v \in Database, NEW e \in Database
  PROVE  Merge(d, v, e) \in Database
<1> DEFINE m == Merge(d, v, e)
<1>1. m.order \in OrderDoc
  BY DatabaseParts DEF Merge
<1>2. m.items \in [Items -> ItemStatus] /\ m.bills \in [Bills -> BillStatus]
  BY DatabaseParts DEF Merge
<1>3. m.tickets \in [Items -> Nat] /\ m.tasks \in Nat /\ m.refunds \in Nat
  BY DatabaseParts DEF Merge
<1> QED
  BY <1>1, <1>2, <1>3 DEF Merge, Database

(* A transaction commits the difference it has made: what it has changed,   *)
(* nobody else has committed.                                               *)
LEMMA MergedIsMerge ==
  ASSUME NEW w \in Workers, NEW d \in Database, db \in Database, view[w] \in Database,
         wrote[w] \cap stale[w] = {}, DifferIn(d, db, stale[w]), DifferIn(d, view[w], wrote[w])
  PROVE  Merged(w) = Merge(d, view[w], db)
<1> DEFINE v == view[w]
<1>1. (IF Order \in wrote[w] THEN v.order ELSE db.order)
        = (IF v.order = d.order THEN db.order ELSE v.order)
  BY DEF DifferIn
<1>2. ASSUME NEW i \in Items
      PROVE  (IF i \in wrote[w] THEN v.items[i] ELSE db.items[i])
               = (IF v.items[i] = d.items[i] THEN db.items[i] ELSE v.items[i])
  BY DEF DifferIn
<1>3. ASSUME NEW b \in Bills
      PROVE  (IF b \in wrote[w] THEN v.bills[b] ELSE db.bills[b])
               = (IF v.bills[b] = d.bills[b] THEN db.bills[b] ELSE v.bills[b])
  BY DEF DifferIn
<1> QED
  BY <1>1, <1>2, <1>3 DEF Merged, Merge

(* A commit, part by part.                                                  *)
IsMerge(d, v, e, t) ==
  /\ t.order = (IF v.order = d.order THEN e.order ELSE v.order)
  /\ \A i \in Items : t.items[i] = (IF v.items[i] = d.items[i] THEN e.items[i] ELSE v.items[i])
  /\ \A b \in Bills : t.bills[b] = (IF v.bills[b] = d.bills[b] THEN e.bills[b] ELSE v.bills[b])
  /\ \A i \in Items : t.tickets[i] = e.tickets[i] + v.tickets[i]
  /\ t.tasks = e.tasks + v.tasks /\ t.refunds = e.refunds + v.refunds

LEMMA MergeParts ==
  ASSUME NEW d \in Database, NEW v \in Database, NEW e \in Database, NEW t \in Database,
         IsMerge(d, v, e, t)
  PROVE  Merge(d, v, e) = t
<1> DEFINE m == Merge(d, v, e)
<1>1. m \in Database
  BY MergeIsTyped
<1>2. /\ m.order = t.order /\ m.tasks = t.tasks /\ m.refunds = t.refunds
      /\ \A i \in Items : m.items[i] = t.items[i] /\ m.tickets[i] = t.tickets[i]
      /\ \A b \in Bills : m.bills[b] = t.bills[b]
  BY DEF Merge, IsMerge
<1> HIDE DEF m
<1>3. m.items = t.items /\ m.tickets = t.tickets /\ m.bills = t.bills
  BY <1>1, <1>2, DatabaseParts
<1> QED
  BY <1>1, <1>2, <1>3, SameDatabase DEF m

(* An order e that has gone on from d, where a handler has changed it to v, *)
(* in other documents.                                                      *)
Beside(d, v, e) ==
  /\ Sound(d) /\ Sound(e)
  /\ d.tickets = [i \in Items |-> 0] /\ d.tasks = 0 /\ d.refunds = 0
  /\ v.order # d.order => e.order = d.order
  /\ \A b \in Bills : v.bills[b] # d.bills[b] => e.bills[b] = d.bills[b]
  /\ \A b \in Bills : e.bills[b] = "pending" => d.bills[b] = "pending"

(* The same order has the same items.                                       *)
LEMMA SameItems ==
  ASSUME NEW d \in Database, NEW e \in Database, Sound(d), Sound(e), e.order = d.order
  PROVE  e.items = d.items
<1>1. \A i \in Items : e.items[i] = d.items[i]
  BY DEF Sound
<1> QED
  BY <1>1, DatabaseParts

LEMMA NothingMerges ==
  ASSUME NEW d \in Database, NEW e \in Database, Beside(d, d, e)
  PROVE  Merge(d, d, e) = e
<1>1. IsMerge(d, d, e, e)
  BY DatabaseParts DEF Beside, IsMerge
<1> QED
  BY <1>1, MergeParts

LEMMA FailureMerges ==
  ASSUME NEW d \in Database, NEW v \in Database, NEW e \in Database, Beside(d, v, e),
         NEW b \in Bills, d.bills[b] = "pending", v = MarkBill(d, b, "failed")
  PROVE  Merge(d, v, e) \in Settled(e, b, FALSE)
<1> DEFINE t == MarkBill(e, b, "failed")
<1>1. /\ v.order = d.order /\ v.items = d.items /\ v.bills = [d.bills EXCEPT ![b] = "failed"]
      /\ v.tickets = d.tickets /\ v.tasks = d.tasks /\ v.refunds = d.refunds
  BY DEF MarkBill, Database
<1>2. e.bills[b] = "pending"
  BY <1>1, DatabaseParts DEF Beside
<1>3. /\ t.order = e.order /\ t.items = e.items /\ t.bills = [e.bills EXCEPT ![b] = "failed"]
      /\ t.tickets = e.tickets /\ t.tasks = e.tasks /\ t.refunds = e.refunds
  BY DEF MarkBill, Database
<1>4. t \in Database
  BY QueriesAreTyped DEF BillStatus
<1>5. \A a \in Bills : t.bills[a] = (IF v.bills[a] = d.bills[a] THEN e.bills[a] ELSE v.bills[a])
  BY <1>1, <1>2, <1>3, DatabaseParts DEF Beside
<1>6. /\ \A i \in Items : t.tickets[i] = e.tickets[i] + v.tickets[i]
      /\ t.tasks = e.tasks + v.tasks /\ t.refunds = e.refunds + v.refunds
  BY <1>1, <1>3, DatabaseParts DEF Beside
<1> HIDE DEF t
<1>7. IsMerge(d, v, e, t)
  BY <1>1, <1>3, <1>5, <1>6 DEF IsMerge
<1>8. Merge(d, v, e) = t
  BY <1>4, <1>7, MergeParts
<1> QED
  BY <1>2, <1>8 DEF Settled, t

LEMMA CardinalityOfOne ==
  ASSUME NEW S, S = {} \/ \E x : S = {x}
  PROVE  Cardinality(S) \in Nat
<1>1. CASE S = {}
  BY <1>1, FS_EmptySet
<1>2. CASE \E x : S = {x}
  BY <1>2, FS_Singleton
<1> QED
  BY <1>1, <1>2

LEMMA AppliedIsTyped ==
  ASSUME NEW c \in Database, NEW r, NEW p \in BOOLEAN, NEW t, t = ApplyResult(c, r, p),
         r.order \in OrderDoc, r.items \in [Items -> ItemStatus], Cardinality(r.refund) \in Nat
  PROVE  t \in Database
<1> DEFINE refunds == c.refunds + Cardinality(r.refund)
           tasks   == IF r.task /\ p THEN c.tasks + 1 ELSE c.tasks
<1>1. refunds \in Nat /\ tasks \in Nat
  BY DatabaseParts
<1>2. t = [c EXCEPT !.order = r.order, !.items = r.items, !.refunds = refunds, !.tasks = tasks]
  BY DEF ApplyResult, Database
<1> HIDE DEF refunds, tasks
<1> QED
  BY <1>1, <1>2 DEF Database

(* What a handler has made of d and e, a and c, before a result is applied. *)
Alike(d, a, e, c) ==
  /\ a.tasks = d.tasks /\ a.refunds = d.refunds /\ c.tasks = e.tasks /\ c.refunds = e.refunds
  /\ \A i \in Items : c.tickets[i] = e.tickets[i] + a.tickets[i]
  /\ \A b \in Bills : c.bills[b] = (IF a.bills[b] = d.bills[b] THEN e.bills[b] ELSE a.bills[b])

(* A result applied to one of two databases, and to the other.              *)
LEMMA AppliedMerges ==
  ASSUME NEW d \in Database, NEW v \in Database, NEW e \in Database, NEW t \in Database,
         NEW a \in Database, NEW c \in Database, NEW r, NEW p \in BOOLEAN,
         v = ApplyResult(a, r, p), t = ApplyResult(c, r, p), Cardinality(r.refund) \in Nat,
         Beside(d, v, e), v.order # d.order, Alike(d, a, e, c)
  PROVE  Merge(d, v, e) = t
<1>1. /\ v.order = r.order /\ v.items = r.items /\ v.bills = a.bills /\ v.tickets = a.tickets
      /\ v.refunds = a.refunds + Cardinality(r.refund)
      /\ v.tasks = (IF r.task /\ p THEN a.tasks + 1 ELSE a.tasks)
  BY AppliedParts
<1>2. /\ t.order = r.order /\ t.items = r.items /\ t.bills = c.bills /\ t.tickets = c.tickets
      /\ t.refunds = c.refunds + Cardinality(r.refund)
      /\ t.tasks = (IF r.task /\ p THEN c.tasks + 1 ELSE c.tasks)
  BY AppliedParts
<1>3. e.items = d.items
  BY SameItems DEF Beside
<1>4. t.order = v.order /\ t.items = v.items
  BY <1>1, <1>2
<1>5. \A i \in Items : t.items[i] = (IF v.items[i] = d.items[i] THEN e.items[i] ELSE v.items[i])
  BY <1>3, <1>4
<1>6. t.tasks = e.tasks + v.tasks
  BY <1>1, <1>2, DatabaseParts DEF Beside, Alike
<1>7. t.refunds = e.refunds + v.refunds
  BY <1>1, <1>2, DatabaseParts DEF Beside, Alike
<1>8. IsMerge(d, v, e, t)
  BY <1>1, <1>2, <1>4, <1>5, <1>6, <1>7 DEF IsMerge, Alike
<1> QED
  BY <1>8, MergeParts

LEMMA SuccessMerges ==
  ASSUME NEW d \in Database, NEW v \in Database, NEW e \in Database, Beside(d, v, e),
         v.order # d.order, NEW b \in Bills, v \in Settled(d, b, TRUE)
  PROVE  Merge(d, v, e) \in Settled(e, b, TRUE)
<1> DEFINE a == Credit(MarkBill(d, b, "paid"), b)
           c == Credit(MarkBill(e, b, "paid"), b)
           r == RecalculateOrderStatus(a.order, a.items, TRUE)
<1>1. /\ d.bills[b] = "pending" /\ r.verdict = "commit"
      /\ \E p \in BOOLEAN : v = ApplyResult(a, r, p)
  BY DEF Settled
<1>2. PICK p \in BOOLEAN : v = ApplyResult(a, r, p)
  BY <1>1
<1>3. a \in Database /\ c \in Database
  <2>1. MarkBill(d, b, "paid") \in Database /\ MarkBill(e, b, "paid") \in Database
    BY QueriesAreTyped DEF BillStatus
  <2> QED
    BY <2>1, QueriesAreTyped
<1>4. /\ a.order = [d.order EXCEPT !.paid = @ + Amount[b]] /\ a.items = d.items
      /\ a.bills = [d.bills EXCEPT ![b] = "paid"]
      /\ a.tickets = d.tickets /\ a.tasks = d.tasks /\ a.refunds = d.refunds
  BY DEF Credit, MarkBill, Database, OrderDoc
<1>5. /\ c.order = [e.order EXCEPT !.paid = @ + Amount[b]] /\ c.items = e.items
      /\ c.bills = [e.bills EXCEPT ![b] = "paid"]
      /\ c.tickets = e.tickets /\ c.tasks = e.tasks /\ c.refunds = e.refunds
  BY DEF Credit, MarkBill, Database, OrderDoc
<1>6. e.order = d.order /\ e.items = d.items
  BY SameItems DEF Beside
<1>7. c.order = a.order /\ c.items = a.items
  BY <1>4, <1>5, <1>6
<1>8. r = RecalculateOrderStatus(c.order, c.items, TRUE)
  BY <1>7
<1>9. Cardinality(r.refund) \in Nat
  <2> DEFINE n == RecalculateOrderStatus(a.order, a.items, FALSE)
  <2>1. r = Recalculated(a)
    BY DEF Recalculated
  <2> HIDE DEF a, r
  <2>2. ResultShape(a.order, a.items, r, n)
    BY <1>1, <1>3, <2>1, RecalculatedShapes
  <2>3. r.refund = {} \/ \E x : r.refund = {x}
    BY ONLY <2>2 DEF ResultShape
  <2> QED
    BY <2>3, CardinalityOfOne
<1>10. v.bills[b] = "paid"
  <2> HIDE DEF a, r
  <2>1. v.bills = a.bills
    BY <1>2, <1>3, AppliedParts
  <2> QED
    BY <1>4, <2>1, DatabaseParts
<1>11. e.bills[b] = "pending"
  BY <1>1, <1>10 DEF Beside
<1>12. ApplyResult(c, r, p) \in Settled(e, b, TRUE)
  <2>1. Settled(e, b, TRUE) = {ApplyResult(c, r, published) : published \in BOOLEAN}
    BY <1>1, <1>8, <1>11 DEF Settled
  <2> QED
    BY <2>1
<1>13. PICK t : t = ApplyResult(c, r, p)
  OBVIOUS
<1>14. \A x \in Bills : c.bills[x] = (IF a.bills[x] = d.bills[x] THEN e.bills[x] ELSE a.bills[x])
  BY <1>1, <1>4, <1>5, <1>11, DatabaseParts
<1>15. \A i \in Items : c.tickets[i] = e.tickets[i] + a.tickets[i]
  BY <1>4, <1>5, DatabaseParts DEF Beside
<1> HIDE DEF a, c, r
<1>16. t \in Database
  <2>1. v.order = r.order /\ v.items = r.items
    BY <1>2, <1>3, AppliedParts
  <2>2. r.order \in OrderDoc /\ r.items \in [Items -> ItemStatus]
    BY <2>1, DatabaseParts
  <2> QED
    BY <1>3, <1>9, <1>13, <2>2, AppliedIsTyped
<1>17. Alike(d, a, e, c)
  BY <1>4, <1>5, <1>14, <1>15 DEF Alike
<1>18. Merge(d, v, e) = t
  BY <1>2, <1>3, <1>9, <1>13, <1>16, <1>17, AppliedMerges
<1> QED
  BY <1>12, <1>13, <1>18

(* A recalculation opens one refund bill, if any.                           *)
LEMMA RefundsAtMostOne ==
  ASSUME NEW ord \in OrderDoc, NEW its, NEW p \in BOOLEAN,
         NEW r, r = RecalculateOrderStatus(ord, its, p)
  PROVE  r.refund = {} \/ \E x : r.refund = {x}
<1> DEFINE One(s) == s.refund = {} \/ \E x : s.refund = {x}
<1>1. /\ \A o : One(Commit(o, its))
      /\ \A verdict : One(Abort(ord, its, verdict))
      /\ \A status : One(Move(ord, its, status))
      /\ \A o, x : One(Result("commit", o, its, FALSE, {x}))
  BY DEF Commit, Abort, Move, Result
<1>2. One(UpdateOrderToPaid(ord, its, p))
  BY DEF UpdateOrderToPaid, Abort, Result
<1>3. ord.total \in Int /\ ord.paid \in Int /\ ord.itemsCount \in Nat /\ ord.returnedItemsCount \in Nat
  BY DEF OrderDoc
<1> HIDE DEF One
<1>4. One(RecalculateUnpaid(ord, its, p))
  BY <1>1, <1>2 DEF RecalculateUnpaid
<1>5. One(RecalculatePartiallyPaid(ord, its, p))
  BY <1>1, <1>2 DEF RecalculatePartiallyPaid
<1>6. One(RecalculatePendingRefund(ord, its, p)) /\ One(RecalculatePaid(ord, its))
  BY <1>1, <1>2 DEF RecalculatePendingRefund, RecalculatePaid
<1>7. One(RecalculateCompleted(ord, its)) /\ One(RecalculatePartiallyReturned(ord, its))
  BY <1>1 DEF RecalculateCompleted, RecalculatePartiallyReturned
<1>8. One(RecalculateReturnInProgress(ord, its))
  BY <1>1, <1>3 DEF RecalculateReturnInProgress
<1>9. One(r)
  BY <1>1, <1>4, <1>5, <1>6, <1>7, <1>8 DEF RecalculateOrderStatus
<1> QED
  BY <1>9 DEF One

LEMMA FulfilmentMerges ==
  ASSUME NEW d \in Database, NEW v \in Database, NEW e \in Database, Beside(d, v, e),
         v.order # d.order, v \in Fulfilled(d)
  PROVE  Merge(d, v, e) \in Fulfilled(e)
<1> DEFINE a == MoveItems(Made(d), "paid", "delivered")
           c == MoveItems(Made(e), "paid", "delivered")
           r == RecalculateOrderStatus(a.order, a.items, FALSE)
<1>0. PICK no \in BOOLEAN : no = FALSE
  OBVIOUS
<1>1. r.verdict = "commit" /\ v = ApplyResult(a, r, no)
  BY <1>0 DEF Fulfilled, Made
<1>2. e.order = d.order /\ e.items = d.items
  BY SameItems DEF Beside
<1>3. ASSUME NEW x \in Database, NEW y, y = MoveItems(Made(x), "paid", "delivered")
      PROVE  /\ y \in Database /\ y.order = x.order /\ y.bills = x.bills
             /\ y.items = UpdateItemsStatusByOrder(x.items, "paid", "delivered")
             /\ y.tickets = (IF x.order.status = "paid" THEN [i \in Items |-> x.tickets[i] + 1]
                             ELSE x.tickets)
             /\ y.tasks = x.tasks /\ y.refunds = x.refunds
  <2>1. /\ Made(x) \in Database /\ Made(x).order = x.order /\ Made(x).bills = x.bills
        /\ Made(x).items = x.items /\ Made(x).tasks = x.tasks /\ Made(x).refunds = x.refunds
        /\ Made(x).tickets = (IF x.order.status = "paid" THEN [i \in Items |-> x.tickets[i] + 1]
                              ELSE x.tickets)
    BY QueriesAreTyped DEF Made, CreateTickets, Database
  <2>2. "paid" \in ItemStatus /\ "delivered" \in ItemStatus
    BY DEF ItemStatus
  <2> HIDE DEF Made
  <2> QED
    BY <1>3, <2>1, <2>2, QueriesAreTyped DEF MoveItems, Database
<1>4. /\ a \in Database /\ a.order = d.order /\ a.bills = d.bills
      /\ a.items = UpdateItemsStatusByOrder(d.items, "paid", "delivered")
      /\ a.tickets = (IF d.order.status = "paid" THEN [i \in Items |-> d.tickets[i] + 1]
                      ELSE d.tickets)
      /\ a.tasks = d.tasks /\ a.refunds = d.refunds
  BY <1>3
<1>5. /\ c \in Database /\ c.order = e.order /\ c.bills = e.bills
      /\ c.items = UpdateItemsStatusByOrder(e.items, "paid", "delivered")
      /\ c.tickets = (IF e.order.status = "paid" THEN [i \in Items |-> e.tickets[i] + 1]
                      ELSE e.tickets)
      /\ c.tasks = e.tasks /\ c.refunds = e.refunds
  BY <1>3
<1>6. c.order = a.order /\ c.items = a.items
  BY <1>2, <1>4, <1>5
<1>7. Fulfilled(e) = {ApplyResult(c, r, no)}
  <2>1. r = RecalculateOrderStatus(c.order, c.items, FALSE)
    BY <1>6
  <2>2. Fulfilled(e) = IF RecalculateOrderStatus(c.order, c.items, FALSE).verdict = "commit"
                       THEN {ApplyResult(c, RecalculateOrderStatus(c.order, c.items, FALSE), FALSE)}
                       ELSE {e}
    BY DEF Fulfilled, Made
  <2> HIDE DEF a, c, r
  <2> QED
    BY <1>0, <1>1, <2>1, <2>2
<1>8. PICK t : t = ApplyResult(c, r, no)
  OBVIOUS
<1>9. \A i \in Items : c.tickets[i] = e.tickets[i] + a.tickets[i]
  BY <1>2, <1>4, <1>5, DatabaseParts DEF Beside
<1>10. Cardinality(r.refund) \in Nat
  <2> DEFINE ord == a.order
             its == a.items
  <2>1. r = RecalculateOrderStatus(ord, its, no)
    BY <1>0
  <2>2. ord \in OrderDoc
    BY <1>4, DatabaseParts
  <2> HIDE DEF a, r, ord, its
  <2>3. r.refund = {} \/ \E x : r.refund = {x}
    BY <2>1, <2>2, RefundsAtMostOne
  <2> QED
    BY <2>3, CardinalityOfOne
<1> HIDE DEF a, c, r
<1>11. t \in Database
  <2>1. v.order = r.order /\ v.items = r.items
    BY <1>1, <1>4, AppliedParts
  <2>2. r.order \in OrderDoc /\ r.items \in [Items -> ItemStatus]
    BY <2>1, DatabaseParts
  <2> QED
    BY <1>5, <1>8, <1>10, <2>2, AppliedIsTyped
<1>12. \A x \in Bills : c.bills[x] = (IF a.bills[x] = d.bills[x] THEN e.bills[x] ELSE a.bills[x])
  BY <1>4, <1>5
<1>13. Alike(d, a, e, c)
  BY <1>4, <1>5, <1>9, <1>12 DEF Alike
<1>14. Merge(d, v, e) = t
  BY <1>1, <1>4, <1>5, <1>8, <1>10, <1>11, <1>13, AppliedMerges
<1> QED
  BY <1>7, <1>8, <1>14

LEMMA CancellationMerges ==
  ASSUME NEW d \in Database, NEW v \in Database, NEW e \in Database, Beside(d, v, e),
         v.order # d.order, v \in Canceled(d)
  PROVE  Merge(d, v, e) \in Canceled(e)
<1>1. d.order.status = "unpaid"
  BY DEF Canceled
<1>2. e.order = d.order /\ e.items = d.items
  BY SameItems DEF Beside
<1>3. /\ v.order = [d.order EXCEPT !.status = "canceled"]
      /\ v.items = UpdateItemsStatusByOrder(d.items, "pending_payment", "canceled")
      /\ v.bills = [b \in Bills |-> IF d.bills[b] = "pending" THEN "canceled" ELSE d.bills[b]]
      /\ v.tickets = d.tickets /\ v.tasks = d.tasks /\ v.refunds = d.refunds
  BY <1>1, CanceledParts
<1>4. PICK t : t \in Canceled(e)
  BY <1>1, <1>2 DEF Canceled
<1>5. /\ t.order = [e.order EXCEPT !.status = "canceled"]
      /\ t.items = UpdateItemsStatusByOrder(e.items, "pending_payment", "canceled")
      /\ t.bills = [b \in Bills |-> IF e.bills[b] = "pending" THEN "canceled" ELSE e.bills[b]]
      /\ t.tickets = e.tickets /\ t.tasks = e.tasks /\ t.refunds = e.refunds
  BY <1>1, <1>2, <1>4, CanceledParts
<1>6. t \in Database
  BY <1>1, <1>2, <1>4, CanceledParts
<1>7. ASSUME NEW b \in Bills
      PROVE  t.bills[b] = (IF v.bills[b] = d.bills[b] THEN e.bills[b] ELSE v.bills[b])
  <2>1. CASE d.bills[b] = "pending"
    <3>1. v.bills[b] = "canceled" /\ v.bills[b] # d.bills[b]
      BY <1>3, <2>1
    <3>2. e.bills[b] = "pending"
      BY <2>1, <3>1 DEF Beside
    <3> QED
      BY <1>5, <3>1, <3>2
  <2>2. CASE d.bills[b] # "pending"
    <3>1. v.bills[b] = d.bills[b] /\ e.bills[b] # "pending"
      BY <1>3, <2>2 DEF Beside
    <3> QED
      BY <1>5, <3>1
  <2> QED
    BY <2>1, <2>2
<1>8. /\ t.order = v.order /\ t.items = v.items
  BY <1>2, <1>3, <1>5
<1>9. /\ \A i \in Items : t.tickets[i] = e.tickets[i] + v.tickets[i]
      /\ t.tasks = e.tasks + v.tasks /\ t.refunds = e.refunds + v.refunds
  BY <1>3, <1>5, DatabaseParts DEF Beside
<1>10. IsMerge(d, v, e, t)
  BY <1>2, <1>7, <1>8, <1>9 DEF IsMerge
<1>11. Merge(d, v, e) = t
  BY <1>6, <1>10, MergeParts
<1> QED
  BY <1>4, <1>11

(* What a handler has made of a snapshot, committed beside what others have *)
(* committed since, is what it makes of that.                               *)
LEMMA MergesAreOutcomes ==
  ASSUME NEW d \in Database, NEW v \in Database, NEW e \in Database, Beside(d, v, e),
         NEW j \in Jobs, v = d \/ v \in Outcomes(d, j)
  PROVE  Merge(d, v, e) = e \/ Merge(d, v, e) \in Outcomes(e, j)
<1>1. CASE v = d
  BY <1>1, NothingMerges
<1>2. CASE /\ j \in Results /\ j[2] # "success" /\ d.bills[j[1]] = "pending"
           /\ v = MarkBill(d, j[1], "failed")
  <2>1. PICK s \in BOOLEAN : s = (j[2] = "success")
    OBVIOUS
  <2>2. j[1] \in Bills /\ Outcomes(e, j) = Settled(e, j[1], s) /\ s = FALSE
    BY <1>2, <2>1, JobsAreDistinct DEF Outcomes
  <2>3. Merge(d, v, e) \in Settled(e, j[1], FALSE)
    BY <1>2, <2>2, FailureMerges
  <2> QED
    BY <2>2, <2>3
<1>3. CASE v \in Outcomes(d, j) /\ v.order # d.order
  <2>1. CASE j \in Results
    <3>1. PICK s \in BOOLEAN : s = (j[2] = "success")
      OBVIOUS
    <3>2. /\ j[1] \in Bills /\ Outcomes(e, j) = Settled(e, j[1], s)
          /\ v \in Settled(d, j[1], s)
      BY <1>3, <2>1, <3>1, JobsAreDistinct DEF Outcomes
    <3>3. s = TRUE
      <4>1. Sound(d) /\ j[1] \in Bills
        BY <3>2 DEF Beside
      <4>2. ASSUME ~s PROVE FALSE
        <5>1. v = d \/ v = MarkBill(d, j[1], "failed")
          BY <3>2, <4>1, <4>2, SettledIsSound
        <5>2. MarkBill(d, j[1], "failed").order = d.order
          BY DEF MarkBill, Database
        <5> QED
          BY <1>3, <5>1, <5>2
      <4> QED
        BY <4>2
    <3>4. Merge(d, v, e) \in Settled(e, j[1], TRUE)
      BY <1>3, <3>2, <3>3, SuccessMerges
    <3> QED
      BY <3>2, <3>3, <3>4
  <2>2. CASE j = <<"tickets">>
    BY <1>3, <2>2, FulfilmentMerges DEF Outcomes
  <2>3. CASE j = <<"cancel">>
    BY <1>3, <2>3, JobsAreDistinct, CancellationMerges DEF Outcomes
  <2> QED
    BY <2>1, <2>2, <2>3, JobsAreDistinct
<1> QED
  BY <1>1, <1>2, <1>3, OutcomesAreSound DEF Beside

LEMMA CommittedIsOutcome ==
  ASSUME IInv, NEW w \in Workers, EndHandler(w), manager = "mongo"
  PROVE  /\ job[w] \in Jobs /\ db \in Database /\ db' \in Database
         /\ db' = Merged(w) /\ (db' = db \/ db' \in Outcomes(db, job[w]))
<1>1. pc[w] = "commit" /\ pc[w] # "idle" /\ db' = Merged(w)
  BY DEF EndHandler
<1>2. db \in Database /\ view[w] \in Database /\ Sound(db) /\ job[w] \in Jobs
  BY <1>1, JobOfWorker DEF IInv, TypeOK, CommittedIsSound
<1>3. PICK d \in Database : At(w, d) /\ SnapshotOf(d, db, stale[w]) /\ DifferIn(d, view[w], wrote[w])
  BY <1>1 DEF IInv, FollowsCommitted
<1>4. view[w] = d \/ view[w] \in Outcomes(d, job[w])
  BY <1>1, <1>3 DEF At, Stage
<1>5. wrote[w] \cap stale[w] = {}
  BY DEF IInv, OneWriter
<1>6. Beside(d, view[w], db)
  BY <1>2, <1>3, <1>5 DEF Beside, SnapshotOf, DifferIn
<1>7. Merged(w) = Merge(d, view[w], db)
  BY <1>2, <1>3, <1>5, MergedIsMerge DEF SnapshotOf
<1>8. Merge(d, view[w], db) \in Database
  BY <1>2, MergeIsTyped
<1>9. Merge(d, view[w], db) = db \/ Merge(d, view[w], db) \in Outcomes(db, job[w])
  BY <1>2, <1>4, <1>6, MergesAreOutcomes
<1> QED
  BY <1>1, <1>2, <1>7, <1>8, <1>9

(* A snapshot stays one when others commit docs.                            *)
LEMMA SnapshotsAge ==
  ASSUME NEW d, NEW e, NEW f, NEW before, NEW docs,
         SnapshotOf(d, e, before), DifferIn(e, f, docs),
         \A b \in Bills : f.bills[b] = "pending" => e.bills[b] = "pending"
  PROVE  SnapshotOf(d, f, before \union docs)
BY DEF SnapshotOf, DifferIn

LEMMA EndHandlerKeeps ==
  ASSUME IInv, NEW w \in Workers, EndHandler(w)
  PROVE  IInv'
<1>1. pc[w] = "commit" /\ pc[w] # "idle" /\ Free(w) /\ UNCHANGED <<manager, copies, swallowed>>
  BY DEF EndHandler
<1>2. CASE manager # "mongo"
  <2>1. stale' = [stale EXCEPT ![w] = {}] /\ UNCHANGED <<db, queue, faults>>
    BY <1>2 DEF EndHandler
  <2>2. queue' \in [Jobs -> Nat] /\ faults' \in 0 .. MaxFaults
    BY <2>1 DEF IInv, TypeOK
  <2> QED
    BY <1>1, <2>1, <2>2, FreeKeeps
<1>3. CASE manager = "mongo"
  <2>1. /\ stale' = [v \in Workers |-> IF v # w /\ pc[v] # "idle"
                                       THEN stale[v] \union wrote[w] ELSE {}]
        /\ \/ UNCHANGED <<queue, faults>>
           \/ faults < MaxFaults /\ faults' = faults + 1 /\ PutBack(w)
    BY <1>3 DEF EndHandler
  <2>2. /\ pc' = [pc EXCEPT ![w] = "idle"] /\ job' = [job EXCEPT ![w] = NoJob]
        /\ view' = [view EXCEPT ![w] = NewDatabase] /\ wrote' = [wrote EXCEPT ![w] = {}]
        /\ plan' = [plan EXCEPT ![w] = NoPlan] /\ found' = [found EXCEPT ![w] = {}]
    BY <1>1 DEF Free
  <2>3. /\ job[w] \in Jobs /\ db \in Database /\ db' \in Database
        /\ db' = Merged(w) /\ (db' = db \/ db' \in Outcomes(db, job[w]))
    BY <1>3, CommittedIsOutcome
  <2>4. queue' \in [Jobs -> Nat] /\ faults' \in 0 .. MaxFaults
    <3>1. CASE UNCHANGED <<queue, faults>>
      BY <3>1 DEF IInv, TypeOK
    <3>2. CASE faults < MaxFaults /\ faults' = faults + 1 /\ PutBack(w)
      BY <1>1, <3>2, PutBackIsTyped, SettlementAssumption DEF IInv, TypeOK
    <3> QED
      BY <2>1, <3>1, <3>2
  <2>5. TypeOK'
    <3>1. stale' \in [Workers -> SUBSET Documents]
      <4>1. stale \in [Workers -> SUBSET Documents] /\ wrote[w] \in SUBSET Documents
        BY DEF IInv, TypeOK
      <4> QED
        BY <2>1, <4>1
    <3> QED
      BY <1>1, <2>2, <2>3, <2>4, <3>1, NewDatabaseType DEF IInv, TypeOK, Places
  <2>6. /\ pc'[w] = "idle" /\ job'[w] = NoJob /\ wrote'[w] = {} /\ plan'[w] = NoPlan
        /\ \A v \in Workers \ {w} :
             /\ pc'[v] = pc[v] /\ job'[v] = job[v] /\ wrote'[v] = wrote[v] /\ plan'[v] = plan[v]
             /\ view'[v] = view[v] /\ found'[v] = found[v]
             /\ pc[v] # "idle" => stale'[v] = stale[v] \union wrote[w]
    BY <2>1, <2>2 DEF IInv, TypeOK
  <2>7. InPlace'
    <3>1. Fits("idle", NoJob)
      BY DEF Fits, ResultPlaces, TicketPlaces, SharedPlaces, CancelPlaces
    <3> SUFFICES ASSUME NEW v \in Workers
                 PROVE  /\ Fits(pc'[v], job'[v])
                        /\ plan'[v].order \in OrderDoc /\ plan'[v].task \in BOOLEAN
      BY DEF InPlace
    <3>2. CASE v = w
      BY <2>6, <3>1, <3>2, NoPlanIsTyped
    <3>3. CASE v # w
      BY <2>6, <3>3 DEF IInv, InPlace
    <3> QED
      BY <3>2, <3>3
  <2>8. OneWriter'
    <3> SUFFICES ASSUME NEW u \in Workers, wrote'[u] # {}
                 PROVE  /\ manager' = "mongo" /\ pc'[u] # "idle" /\ wrote'[u] \cap stale'[u] = {}
                        /\ \A v \in Workers \ {u} : wrote'[u] \cap wrote'[v] = {}
      BY DEF OneWriter
    <3>1. u # w /\ wrote'[u] = wrote[u] /\ pc'[u] = pc[u]
      BY <2>6
    <3>2. /\ pc[u] # "idle" /\ wrote[u] \cap stale[u] = {}
          /\ \A v \in Workers \ {u} : wrote[u] \cap wrote[v] = {}
      BY <3>1 DEF IInv, OneWriter
    <3>3. stale'[u] = stale[u] \union wrote[w] /\ wrote[u] \cap wrote[w] = {}
      BY <2>6, <3>1, <3>2
    <3> QED
      BY <1>1, <1>3, <2>6, <3>1, <3>2, <3>3
  <2>9. /\ Sound(db) /\ Sound(db')
        /\ \A b \in Bills : db'.bills[b] = "pending" => db.bills[b] = "pending"
    <3>1. Sound(db)
      BY <1>3 DEF IInv, CommittedIsSound
    <3> DEFINE e == db'
    <3>2. e \in Database /\ (e = db \/ e \in Outcomes(db, job[w]))
      BY <2>3
    <3> HIDE DEF e
    <3>3. Sound(e) /\ \A b \in Bills : e.bills[b] = "pending" => db.bills[b] = "pending"
      BY <2>3, <3>1, <3>2, OutcomesAreSound
    <3> QED
      BY <3>1, <3>3 DEF e
  <2>10. CommittedIsSound'
    BY <2>9 DEF CommittedIsSound, Sound, PaidBills
  <2>11. FollowsCommitted'
    <3>1. DifferIn(db, db', wrote[w])
      BY <2>3 DEF Merged, DifferIn
    <3> SUFFICES ASSUME NEW v \in Workers, pc'[v] # "idle"
                 PROVE  \E d \in Database : /\ At(v, d)'
                                            /\ SnapshotOf(d, db', stale'[v])
                                            /\ DifferIn(d, view'[v], wrote'[v])
      BY DEF FollowsCommitted
    <3>2. v # w /\ pc'[v] = pc[v] /\ stale'[v] = stale[v] \union wrote[w]
      BY <2>6
    <3>3. PICK d \in Database : At(v, d) /\ SnapshotOf(d, db, stale[v]) /\ DifferIn(d, view[v], wrote[v])
      BY <1>3, <3>2 DEF IInv, FollowsCommitted
    <3>4. SnapshotOf(d, db', stale'[v])
      BY <2>9, <3>1, <3>2, <3>3, SnapshotsAge
    <3>5. At(v, d)'
      BY <2>6, <3>2, <3>3 DEF At
    <3> QED
      BY <2>6, <3>2, <3>3, <3>4, <3>5
  <2>12. CoveredIsCredited'
    <3>1. Covered' = PaidBills(db')
      BY <1>1, <1>3 DEF Covered, PaidBills
    <3>2. db'.order.paid = SumOver(Amount, PaidBills(db')) /\ db'.order.paid \in Int
      BY <2>3, <2>9, DatabaseParts DEF Sound
    <3> QED
      BY <3>1, <3>2 DEF CoveredIsCredited
  <2> QED
    BY <2>5, <2>7, <2>8, <2>10, <2>11, <2>12 DEF IInv
<1> QED
  BY <1>2, <1>3

-----------------------------------------------------------------------------
LEMMA HandleKeeps ==
  ASSUME IInv, NEW w \in Workers, Handle(w)
  PROVE  IInv'
BY GetBillKeeps, UpdateOrderKeeps, UpdateBillKeeps, RefetchBillKeeps, GetOrderKeeps,
   InsertTicketsKeeps, DeliverItemsKeeps, RecalculateKeeps, WriteStatusKeeps,
   CreateRefundBillKeeps, MarkItemsPaidKeeps, PublishTaskKeeps, ReadOrderKeeps, ReadBillsKeeps,
   CancelBillKeeps, CancelItemsKeeps, CloseOrderKeeps, EndHandlerKeeps DEF Handle

LEMMA InitIInv == Init => IInv
<1> SUFFICES ASSUME Init PROVE IInv
  OBVIOUS
<1>1. TypeOK
  <2>1. NoJob \in Jobs \union {NoJob} /\ 0 \in 0 .. MaxFaults /\ manager \in {"mongo", "noop"}
    BY SettlementAssumption DEF Init
  <2> QED
    BY <2>1, NewDatabaseType DEF Init, TypeOK, Places
<1>2. InPlace
  <2>1. Fits("idle", NoJob)
    BY DEF Fits, ResultPlaces, TicketPlaces, SharedPlaces, CancelPlaces
  <2> QED
    BY <2>1, NoPlanIsTyped DEF Init, InPlace
<1>3. OneWriter /\ FollowsCommitted
  BY DEF Init, OneWriter, FollowsCommitted
<1>4. CoveredIsCredited
  <2>1. Covered = {}
    <3>1. \A b \in Bills : db.bills[b] # "paid"
      BY DEF Init, NewDatabase
    <3>2. \A w \in Workers : pc[w] # "mark"
      BY DEF Init
    <3> QED
      BY <3>1, <3>2 DEF Covered
  <2>2. db.order.paid = 0
    BY DEF Init, NewDatabase, NewOrder
  <2>3. SumOver(Amount, {}) = 0
    BY SumOfNothing
  <2> QED
    BY <2>1, <2>2, <2>3 DEF CoveredIsCredited
<1>5. CommittedIsSound
  <2>1. PaidBills(NewDatabase) = {}
    BY DEF NewDatabase, PaidBills
  <2>2. /\ NewDatabase.order.total = Total /\ NewDatabase.order.returned = 0
        /\ NewDatabase.order.paid = 0 /\ NewDatabase.order.status = "unpaid"
        /\ \A i \in Items : NewDatabase.items[i] = "pending_payment"
    BY DEF NewDatabase, NewOrder
  <2>3. SumOver(Amount, {}) = 0
    BY SumOfNothing
  <2>4. Sound(NewDatabase)
    BY <2>1, <2>2, <2>3 DEF Sound, ItemsOf
  <2> QED
    BY <2>4 DEF Init, CommittedIsSound
<1> QED
  BY <1>1, <1>2, <1>3, <1>4, <1>5 DEF IInv

LEMMA StepKeepsIInv == IInv /\ [Next]_vars => IInv'
<1> SUFFICES ASSUME IInv, [Next]_vars PROVE IInv'
  OBVIOUS
<1>1. CASE Relay \/ \E j \in Jobs : Send(j)
  BY <1>1, SendKeeps
<1>2. ASSUME NEW j \in Jobs, NEW w \in Workers, Take(w, j) PROVE IInv'
  BY <1>2, TakeKeeps
<1>3. ASSUME NEW w \in Workers, Handle(w) PROVE IInv'
  BY <1>3, HandleKeeps
<1>4. ASSUME NEW w \in Workers, Fail(w) PROVE IInv'
  BY <1>4, FailKeeps
<1>5. CASE UNCHANGED vars
  <2>1. queue' \in [Jobs -> Nat] /\ copies' \in [Jobs -> Nat]
    BY <1>5 DEF vars, IInv, TypeOK
  <2> QED
    BY <1>5, <2>1, QueueStepKeeps DEF vars
<1> QED
  BY <1>1, <1>2, <1>3, <1>4, <1>5 DEF Next

(* With transactions every worker is at a stage of its handler, run on a    *)
(* snapshot of an order that whole handlers have made and that is behind    *)
(* only on documents it has not changed; and the credit comes first.        *)
THEOREM InvariantHolds == Spec => []IInv
BY InitIInv, StepKeepsIInv, PTL DEF Spec

(* The order, its bills, items and tasks, the workers and their queues keep *)
(* their types.                                                             *)
THEOREM TypeCorrect == Spec => []TypeOK
<1>1. IInv => TypeOK
  BY DEF IInv
<1> QED
  BY <1>1, InvariantHolds, PTL

(* No bill is marked paid before its order has its money, whatever fails or *)
(* races between two queries, also when every write stands alone.           *)
THEOREM PaidBillsAlwaysCredited == Spec => []PaidBillsAreCredited
<1>1. IInv => PaidBillsAreCredited
  <2> SUFFICES ASSUME IInv PROVE PaidBillsAreCredited
    OBVIOUS
  <2> DEFINE paid == PaidBills(db)
             now  == Covered
  <2>1. now \in SUBSET Bills /\ paid \in SUBSET now /\ paid \in SUBSET Bills
    BY DEF Covered, PaidBills
  <2>2. db.order.paid \in Int
    BY DatabaseParts DEF IInv, TypeOK
  <2>3. SumOver(Amount, now) <= db.order.paid
    BY DEF IInv, CoveredIsCredited
  <2>4. PaidBillsAreCredited <=> MapThenSumSet(LAMBDA b : Amount[b], paid) <= db.order.paid
    BY DEF PaidBillsAreCredited, PaidBills
  <2> HIDE DEF paid, now
  <2>5. SumOver(Amount, paid) <= SumOver(Amount, now)
    BY <2>1, AmountsAddUp, SumOfPart
  <2>6. SumOver(Amount, now) \in Int /\ SumOver(Amount, paid) \in Int
    BY <2>1, AmountsAddUp
  <2>7. SumOver(Amount, paid) <= db.order.paid
    BY <2>2, <2>3, <2>5, <2>6
  <2>8. MapThenSumSet(LAMBDA b : Amount[b], paid) = SumOver(Amount, paid)
    BY <2>1, AmountsAddUp
  <2> QED
    BY <2>4, <2>7, <2>8
<1> QED
  BY <1>1, InvariantHolds, PTL

(* With transactions only a commit changes what is committed.               *)
LEMMA OnlyCommitsChange ==
  ASSUME [Next]_vars, manager = "mongo", db' # db
  PROVE  \E w \in Workers : EndHandler(w)
<1>1. ASSUME NEW w \in Workers, NEW docs, NEW new, NEW next, Put(w, docs, new, next)
      PROVE  db' = db
  BY <1>1 DEF Put
<1>2. ASSUME NEW w \in Workers, NEW docs, NEW new, NEW next, Write(w, docs, new, next)
      PROVE  db' = db
  BY <1>1, <1>2 DEF Write, Retry
<1>3. ASSUME NEW w \in Workers, NEW next, GoOn(w, next) PROVE db' = db
  BY <1>3 DEF GoOn
<1>4. ASSUME NEW w \in Workers, NEW from, NEW to, NEW next, WriteItems(w, from, to, next)
      PROVE  db' = db
  BY <1>2, <1>3, <1>4 DEF WriteItems
<1>5. ASSUME NEW w \in Workers, Handle(w) PROVE EndHandler(w)
  <2>1. ~(UpdateOrder(w) \/ UpdateBill(w) \/ InsertTickets(w) \/ WriteStatus(w)
            \/ CreateRefundBill(w) \/ CloseOrder(w))
    BY <1>2 DEF UpdateOrder, UpdateBill, InsertTickets, WriteStatus, CreateRefundBill, CloseOrder
  <2>2. ~(GetBill(w) \/ RefetchBill(w) \/ GetOrder(w) \/ ReadOrder(w))
    BY <1>3 DEF GetBill, RefetchBill, GetOrder, ReadOrder
  <2>3. ~(DeliverItems(w) \/ MarkItemsPaid(w) \/ CancelItems(w))
    BY <1>4 DEF DeliverItems, MarkItemsPaid, CancelItems
  <2>4. ~(Recalculate(w) \/ ReadBills(w))
    BY DEF Recalculate, Panic, ReadBills
  <2>5. ~PublishTask(w)
    BY <1>2 DEF PublishTask, Panic
  <2>6. ~CancelBill(w)
    BY <1>1, <1>3 DEF CancelBill, Retry
  <2> QED
    BY <1>5, <2>1, <2>2, <2>3, <2>4, <2>5, <2>6 DEF Handle
<1>6. \E w \in Workers : Handle(w)
  BY DEF Next, Relay, Send, Take, Fail, vars
<1>7. PICK w \in Workers : EndHandler(w)
  BY <1>5, <1>6
<1> QED
  BY <1>7

(* With transactions what is committed changes by whole handlers only: this *)
(* is what lets OrderLifecycle take them as single steps.                   *)
THEOREM HandlersAreAlwaysAtomic == Spec => HandlersAreAtomic
<1> DEFINE Whole == manager = "mongo" =>
                      \/ db' = db
                      \/ \E b \in Bills, success \in BOOLEAN : db' \in Settled(db, b, success)
                      \/ db' \in Fulfilled(db) \union Canceled(db)
<1>1. IInv /\ [Next]_vars => Whole
  <2> SUFFICES ASSUME IInv, [Next]_vars, manager = "mongo", db' # db
               PROVE  \/ \E b \in Bills, success \in BOOLEAN : db' \in Settled(db, b, success)
                      \/ db' \in Fulfilled(db) \union Canceled(db)
    OBVIOUS
  <2>1. PICK w \in Workers : EndHandler(w)
    BY OnlyCommitsChange
  <2>2. job[w] \in Jobs /\ db' \in Outcomes(db, job[w])
    BY <2>1, CommittedIsOutcome
  <2>3. CASE job[w] \in Results
    <3>1. job[w][1] \in Bills /\ Outcomes(db, job[w]) = Settled(db, job[w][1], job[w][2] = "success")
      BY <2>3, JobsAreDistinct DEF Outcomes
    <3>2. (job[w][2] = "success") \in BOOLEAN
      OBVIOUS
    <3> QED
      BY <2>2, <3>1, <3>2
  <2>4. CASE job[w] = <<"tickets">>
    BY <2>2, <2>4 DEF Outcomes
  <2>5. CASE job[w] = <<"cancel">>
    BY <2>2, <2>5, JobsAreDistinct DEF Outcomes
  <2> QED
    BY <2>2, <2>3, <2>4, <2>5, JobsAreDistinct
<1>2. [Next]_vars /\ Whole => [Whole]_vars
  OBVIOUS
<1>3. IInv /\ [Next]_vars => [Whole]_vars
  BY <1>1, <1>2
<1> QED
  BY <1>3, InvariantHolds, PTL DEF Spec, HandlersAreAtomic
=============================================================================
