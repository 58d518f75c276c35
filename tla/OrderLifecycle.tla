--------------------------- MODULE OrderLifecycle ---------------------------
(***************************************************************************)
(* Orders, their items, bills and tickets, and the stock they are sold      *)
(* from: every operation of the public and the admin service and both       *)
(* message handlers of the consumer that write one of these collections.    *)
(*                                                                         *)
(* An operation runs in one MongoDB transaction and is one action here, the *)
(* commit.  A transaction that returns an error or panics leaves no trace,  *)
(* so an action is only defined where the transaction commits; the          *)
(* exceptions are the messages of the consumer, which a panic removes from  *)
(* the queue.                                                               *)
(*                                                                         *)
(* Transactions are isolated by snapshots: one reads the collections as     *)
(* they were when it began, and fails if a document it writes was written   *)
(* since.  Those that write no document in common overlap.  The ones that   *)
(* read an order and its items therefore commit on a view, which is the     *)
(* present or an older snapshot, and write only what they change.           *)
(* CreateBill writes no document it reads: it is two actions, the           *)
(* validation against its snapshot and the insert.                          *)
(*                                                                         *)
(* Messages stay in their queue: a handled one may be delivered again.      *)
(***************************************************************************)
EXTENDS OrderRules, Sequences, FiniteSetsExt

CONSTANTS
  Orders,               \* orders that may be placed
  Items, OrderOf,       \* their items, of quantity one each
  Stocks, StockOf,      \* ticket stocks, and the one an item is taken from
  Price,                \* price of an item
  InitialStock,         \* quantity of each stock before the first order
  MinQuantityPerOrder,
  MaxQuantityPerOrder,
  WordModulus,          \* number of values of the uint32 quantity of an item
  Snapshots,            \* bounds how many old snapshots are open at a time
  Bills,                \* bill identifiers: bounds how many bills are made
  Amounts,              \* amounts a request may name
  MissingSessions,      \* orders whose session the events service may not find
  NoItem

ASSUME ItemsAssumption ==
  /\ OrderOf \in [Items -> Orders]
  /\ StockOf \in [Items -> Stocks]
  /\ Price \in [Items -> Nat]
  /\ NoItem \notin Items
  /\ IsFiniteSet(Items)
  /\ Orders \cap Items = {}

ASSUME StockAssumption ==
  /\ InitialStock \in Nat
  /\ WordModulus \in Nat \ {0}
  /\ InitialStock < WordModulus
  /\ MinQuantityPerOrder \in Nat
  /\ MaxQuantityPerOrder \in Nat

ASSUME BillsAssumption ==
  /\ Amounts \subseteq Nat
  /\ MissingSessions \subseteq Orders
  /\ IsFiniteSet(Bills)

VARIABLES
  order,          \* orders collection
  item,           \* status column of the order_items collection
  bill,           \* bills collection
  stock,          \* quantity column of the ticket_stock collection
  ticket,         \* tickets collection: statuses of the tickets of an item
  paymentEvents,  \* payment events written to the outbox
  task,           \* ticket generation task of an order
  report,         \* result message of the payment service for a bill
  draft,          \* bills validated by a transaction that has not inserted them
  past            \* snapshots of an order that open transactions read

vars == <<order, item, bill, stock, ticket, paymentEvents, task, report, draft, past>>

-----------------------------------------------------------------------------
None == [status |-> "none"]

ItemsIn(o) == {i \in Items : OrderOf[i] = o}

StatusesIn(o) == [i \in ItemsIn(o) |-> item[i]]

BillDoc == [order : Orders, type : {"payment", "refund"}, amount : Int,
            status : BillStatus, item : Items \union {NoItem}, method : BOOLEAN]

(* `missed` are the documents of the order written since.                   *)
Snapshot == [of : Orders, order : OrderDoc,
             items : UNION {[I -> ItemStatus \union {"none"}] : I \in SUBSET Items},
             pending : SUBSET Bills, missed : SUBSET (Orders \union Items)]

TypeOK ==
  /\ order \in [Orders -> OrderDoc \union {None}]
  /\ item \in [Items -> ItemStatus \union {"none"}]
  /\ bill \in [Bills -> BillDoc \union {None}]
  /\ stock \in [Stocks -> Nat]
  /\ ticket \in [Items -> Seq(TicketStatus)]
  /\ paymentEvents \subseteq [action : {"create", "cancel", "refund"}, bill : Bills]
  /\ task \in [Orders -> {"none", "queued", "dropped"}]
  /\ report \in [Bills -> {"none", "success", "failure", "dropped"}]
  /\ draft \in [Bills -> [order : Orders, amount : Amounts] \union {None}]
  /\ past \in [Snapshots -> Snapshot \union {None}]

Init ==
  /\ order = [o \in Orders |-> None]
  /\ item = [i \in Items |-> "none"]
  /\ bill = [b \in Bills |-> None]
  /\ stock = [s \in Stocks |-> InitialStock]
  /\ ticket = [i \in Items |-> <<>>]
  /\ paymentEvents = {}
  /\ task = [o \in Orders |-> "none"]
  /\ report = [b \in Bills |-> "none"]
  /\ draft = [b \in Bills |-> None]
  /\ past = [s \in Snapshots |-> None]

-----------------------------------------------------------------------------
(* Pieces of the transactions.                                              *)

FreshBills == {b \in Bills : bill[b] = None /\ draft[b] = None}

BillsOf(o) == {b \in Bills : bill[b] # None /\ bill[b].order = o}

PendingBillsOf(o) == {b \in BillsOf(o) : bill[b].status = "pending"}

NewBill(o, type, amount, i, method) ==
  [order |-> o, type |-> type, amount |-> amount, status |-> "pending",
   item |-> i, method |-> method]

Event(action, b) == [action |-> action, bill |-> b]

TaggedQuantity(its, s) == Cardinality({i \in its : StockOf[i] = s})

(* The quantity of an item is an unsigned 32-bit one: its negation, the     *)
(* increment the update is given, is WordModulus - 1.                       *)
ReserveTickets(its) ==
  [s \in Stocks |-> stock[s] + TaggedQuantity(its, s) * (WordModulus - 1)]

ReleaseTickets(its) == [s \in Stocks |-> stock[s] + TaggedQuantity(its, s)]

(* A quantity that does not fit the field of the model cannot be read back. *)
GetValidTickets(its) == \A i \in its : stock[StockOf[i]] < WordModulus

CartAccepted(its) ==
  /\ its # {}
  /\ GetValidTickets(its)
  /\ \A i \in its :
       LET quantity == TaggedQuantity(its, StockOf[i])
       IN  /\ quantity <= stock[StockOf[i]]
           /\ quantity \in MinQuantityPerOrder .. MaxQuantityPerOrder

(* Refund bills a recalculation or an approved return opens: no item, no    *)
(* payment method and no payment event.  `bills` is the collection as the   *)
(* transaction has left it so far.                                          *)
OpenRefundBill(o, amounts, bills) ==
  \/ amounts = {} /\ bill' = bills
  \/ \E b \in FreshBills, amount \in amounts :
       /\ amounts = {amount}
       /\ bill' = [bills EXCEPT ![b] = NewBill(o, "refund", amount, NoItem, FALSE)]

(* What a transaction reads of an order that begins now.                    *)
Now(o) == [of |-> o, order |-> order[o], items |-> StatusesIn(o),
           pending |-> PendingBillsOf(o), missed |-> {}]

Views(o) == {Now(o)} \union {past[s] : s \in {t \in Snapshots : past[t] # None
                                                           /\ past[t].of = o}}

(* The documents of the order a result changes.                             *)
ChangedBy(v, result) ==
  {o \in {v.of} : result.order # v.order}
    \union {i \in ItemsIn(v.of) : result.items[i] # v.items[i]}

(* The open transactions on o have missed a write of these documents.       *)
Overtake(o, docs) ==
  past' = [s \in Snapshots |-> IF past[s] # None /\ past[s].of = o
                               THEN [past[s] EXCEPT !.missed = @ \union docs]
                               ELSE past[s]]

(* A result found on a view is committed.  `wrote` are the documents that   *)
(* are written whether the result changes them or not.                      *)
CommitResult(v, result, wrote, bills) ==
  LET docs == wrote \union ChangedBy(v, result)
  IN  /\ result.verdict = "commit"
      /\ docs \cap v.missed = {}
      /\ order' = [order EXCEPT ![v.of] = IF v.of \in docs THEN result.order ELSE @]
      /\ item' = [i \in Items |-> IF i \in docs THEN result.items[i] ELSE item[i]]
      /\ task' = [task EXCEPT ![v.of] = IF result.task THEN "queued" ELSE @]
      /\ OpenRefundBill(v.of, result.refund, bills)
      /\ Overtake(v.of, docs)

(* A transaction on o begins and will commit later.  In the statuses left   *)
(* out every transaction that reads the items writes the order as well, or  *)
(* fails: none of them can overlap another.                                 *)
TakeSnapshot(s, o) ==
  /\ order[o].status \in {"completed", "return_in_progress", "partially_returned"}
  /\ past' = [past EXCEPT ![s] = Now(o)]
  /\ UNCHANGED <<order, item, bill, stock, ticket, paymentEvents, task, report, draft>>

-----------------------------------------------------------------------------
(* Public and admin service: orders.                                        *)

(* A cart becomes an order, its items, a reservation, a bill over the full  *)
(* amount and the event that announces the bill.  The total is the client's *)
(* one, which has to match the sum of the prices.                           *)
AddOrder(o, total) ==
  /\ order[o] = None
  /\ CartAccepted(ItemsIn(o))
  /\ total = MapThenSumSet(LAMBDA i : Price[i], ItemsIn(o))
  /\ order' = [order EXCEPT ![o] = NewOrder(total)]
  /\ item' = [i \in Items |-> IF OrderOf[i] = o THEN "pending_payment" ELSE item[i]]
  /\ stock' = ReserveTickets(ItemsIn(o))
  /\ \E b \in FreshBills :
       /\ bill' = [bill EXCEPT ![b] = NewBill(o, "payment", total, NoItem, TRUE)]
       /\ paymentEvents' = paymentEvents \union {Event("create", b)}
  /\ UNCHANGED <<ticket, task, report, draft, past>>

(* voidUnpaidOrder: the whole order's items are released, those canceled    *)
(* one by one before included, and the total is left as it is.              *)
VoidUnpaidOrder(o) ==
  /\ \A b \in PendingBillsOf(o) : bill[b].method
  /\ bill' = [b \in Bills |-> IF b \in PendingBillsOf(o)
                              THEN [bill[b] EXCEPT !.status = "canceled"]
                              ELSE bill[b]]
  /\ paymentEvents' = paymentEvents \union {Event("cancel", b) : b \in PendingBillsOf(o)}
  /\ item' = [i \in Items |-> IF OrderOf[i] = o /\ item[i] = "pending_payment"
                              THEN "canceled" ELSE item[i]]
  /\ stock' = ReleaseTickets(ItemsIn(o))
  /\ order' = [order EXCEPT ![o].status = "canceled"]
  /\ UNCHANGED <<ticket, task, report, draft, past>>

CancelOrder(o) == order[o].status = "unpaid" /\ VoidUnpaidOrder(o)

(* _updateOrderItemStatus, when the recalculation does not fail.            *)
UpdateItem(i, new) ==
  \E v \in Views(OrderOf[i]) :
    /\ v.items[i] # "none"
    /\ CanUpdateOrderItemStatus(v.items[i], new)
    /\ CommitResult(v, UpdateOrderItemStatus(v.order, v.items, i, new, Price[i]),
                    IF new = "canceled" THEN {i, v.of} ELSE {i}, bill)
    /\ stock' = IF new = "canceled" THEN ReleaseTickets({i}) ELSE stock
    /\ UNCHANGED <<ticket, paymentEvents, report, draft>>

(* The statuses convertProtoOrderItemStatusToAppStatus lets an admin name.  *)
ChangeOrderItemStatus(i) ==
  \E new \in {"canceled", "return_requested", "return_approved"} : UpdateItem(i, new)

RequestOrderItemRefund(i) == UpdateItem(i, "return_requested")

RejectOrderItemRefund(i) == UpdateItem(i, "delivered")

-----------------------------------------------------------------------------
(* Admin service: bills.                                                    *)

CommittedAmount(o) ==
  MapThenSumSet(LAMBDA b : bill[b].amount,
                {b \in BillsOf(o) : bill[b].status \in {"pending", "paid"}})

(* CreateBill, up to its insert: it reads the order and its bills.          *)
ValidateBill(o, amount) ==
  /\ order[o].status \in {"unpaid", "partially_paid"}
  /\ amount <= order[o].total - CommittedAmount(o)
  /\ \E b \in FreshBills :
       draft' = [draft EXCEPT ![b] = [order |-> o, amount |-> amount]]
  /\ UNCHANGED <<order, item, bill, stock, ticket, paymentEvents, task, report, past>>

(* CreateBill, the insert and its event: neither conflicts with a write of  *)
(* another transaction, so the transaction commits on what it has read.     *)
CreateBill(b) ==
  /\ draft[b] # None
  /\ draft' = [draft EXCEPT ![b] = None]
  /\ bill' = [bill EXCEPT ![b] =
                NewBill(draft[b].order, "payment", draft[b].amount, NoItem, TRUE)]
  /\ paymentEvents' = paymentEvents \union {Event("create", b)}
  /\ UNCHANGED <<order, item, stock, ticket, task, report, past>>

(* Without a payment method the event cannot be built: the call panics.     *)
CancelBill(b) ==
  /\ bill[b].status = "pending"
  /\ bill[b].method
  /\ bill' = [bill EXCEPT ![b].status = "canceled"]
  /\ paymentEvents' = paymentEvents \union {Event("cancel", b)}
  /\ UNCHANGED <<order, item, stock, ticket, task, report, draft, past>>

RefundsOf(i) == {b \in Bills : bill[b] # None /\ bill[b].item = i}

(* Mutant: the approval of the item is forgotten. *)
Mutant_RefundWithoutApproval(i, amount) ==
  /\ item[i] = "return_requested"
  /\ amount <= Price[i]
  /\ \E b \in FreshBills :
       /\ bill' = [bill EXCEPT ![b] = NewBill(OrderOf[i], "refund", amount, i, TRUE)]
       /\ paymentEvents' = paymentEvents \union {Event("refund", b)}
  /\ order' = [order EXCEPT ![OrderOf[i]].status = "return_in_progress"]
  /\ Overtake(OrderOf[i], {OrderOf[i], i})
  /\ UNCHANGED <<item, stock, ticket, task, report, draft>>

(* It does not look at the status of the order it puts back in progress.    *)
CreateRefundBill(i, amount) ==
  /\ item[i] = "return_requested"
  /\ \A b \in RefundsOf(i) : bill[b].status \notin {"pending", "refunded"}
  /\ amount <= Price[i]
  /\ \E b \in FreshBills :
       /\ bill' = [bill EXCEPT ![b] = NewBill(OrderOf[i], "refund", amount, i, TRUE)]
       /\ paymentEvents' = paymentEvents \union {Event("refund", b)}
  /\ item' = [item EXCEPT ![i] = "return_approved"]
  /\ order' = [order EXCEPT ![OrderOf[i]].status = "return_in_progress"]
  /\ Overtake(OrderOf[i], {OrderOf[i], i})
  /\ UNCHANGED <<stock, ticket, task, report, draft>>

-----------------------------------------------------------------------------
(* The payment service: it settles, once, a bill it was told about.         *)
PaymentServiceReports(b) ==
  /\ \E e \in paymentEvents : e.bill = b /\ e.action \in {"create", "refund"}
  /\ report[b] = "none"
  /\ \E outcome \in {"success", "failure"} : report' = [report EXCEPT ![b] = outcome]
  /\ UNCHANGED <<order, item, bill, stock, ticket, paymentEvents, task, draft, past>>

(* Consumer: the queue of bill results.  A result for a bill that is not    *)
(* pending is acknowledged without effect; an error requeues the message;   *)
(* a panic is recovered by consumeQueue, which drops the message.           *)
Settled(b, status) == [bill EXCEPT ![b].status = status]

PaymentSucceeded(v, b) ==
  LET credit == [v.order EXCEPT !.paid = @ + bill[b].amount]
      result == RecalculateOrderStatus(credit, v.items, TRUE)
  IN  \/ /\ CommitResult(v, result, {v.of}, Settled(b, "paid"))
         /\ UNCHANGED <<stock, ticket, paymentEvents, report, draft>>
      \/ /\ result.verdict = "panic"
         /\ report' = [report EXCEPT ![b] = "dropped"]
         /\ UNCHANGED <<order, item, bill, stock, ticket, paymentEvents, task, draft, past>>

(* Mutant: only tickets that are still valid are voided. *)
Mutant_VoidValidTicketByOrderItem(i) ==
  IF ticket[i] # <<>> /\ ticket[i][1] = "valid"
  THEN /\ stock' = ReleaseTickets({i})
       /\ ticket' = [ticket EXCEPT ![i][1] = "invalidated"]
  ELSE UNCHANGED <<stock, ticket>>

VoidTicketByOrderItem(i) ==
  IF ticket[i] # <<>>
  THEN /\ stock' = ReleaseTickets({i})
       /\ ticket' = [ticket EXCEPT ![i][1] = "invalidated"]
  ELSE UNCHANGED <<stock, ticket>>

RefundSucceeded(v, b) ==
  LET i      == bill[b].item
      debit  == [v.order EXCEPT !.returned = @ + bill[b].amount,
                                !.returnedItemsCount = @ + 1]
      result == UpdateOrderItemStatus(debit, v.items, i, "returned", Price[i])
  IN  /\ i # NoItem
      /\ CanUpdateOrderItemStatus(v.items[i], "returned")
      /\ \/ /\ CommitResult(v, result, {v.of, i}, Settled(b, "refunded"))
            /\ VoidTicketByOrderItem(i)
            /\ UNCHANGED <<paymentEvents, report, draft>>
         \/ /\ result.verdict = "panic"
            /\ report' = [report EXCEPT ![b] = "dropped"]
            /\ UNCHANGED <<order, item, bill, stock, ticket, paymentEvents, task, draft, past>>

SettlementFailed(b) ==
  /\ bill' = Settled(b, "failed")
  /\ UNCHANGED <<order, item, stock, ticket, paymentEvents, task, report, draft, past>>

(* Mutant: the idempotency check on the bill is dropped. *)
Mutant_HandleBillStatusUpdate(b) ==
  /\ bill[b] # None
  /\ \/ /\ report[b] = "success"
        /\ \E v \in Views(bill[b].order) :
             /\ \/ bill[b].type = "payment" /\ PaymentSucceeded(v, b)
                \/ bill[b].type = "refund" /\ RefundSucceeded(v, b)
     \/ report[b] = "failure" /\ SettlementFailed(b)

HandleBillStatusUpdate(b) ==
  /\ bill[b].status = "pending"
  /\ \/ /\ report[b] = "success"
        /\ \E v \in Views(bill[b].order) :
             /\ b \in v.pending
             /\ \/ bill[b].type = "payment" /\ PaymentSucceeded(v, b)
                \/ bill[b].type = "refund" /\ RefundSucceeded(v, b)
     \/ report[b] = "failure" /\ SettlementFailed(b)

-----------------------------------------------------------------------------
(* Consumer: the queue of ticket generation tasks.                          *)

(* CountTicketsByOrder compares the serial number a ticket holds with the   *)
(* id of the order: it never finds one.                                     *)
CountTicketsByOrder(o) == 0

(* Mutant: only the count guards against a task delivered twice. *)
Mutant_GenerateTicketsForOrder(ord, o) ==
  IF CountTicketsByOrder(o) = 0
  THEN [i \in Items |-> IF OrderOf[i] = o THEN Append(ticket[i], "valid") ELSE ticket[i]]
  ELSE ticket

(* Every item of a paid order gets a ticket, a canceled one too.            *)
GenerateTicketsForOrder(ord, o) ==
  IF ord.status = "paid" /\ CountTicketsByOrder(o) = 0
  THEN [i \in Items |-> IF OrderOf[i] = o THEN Append(ticket[i], "valid") ELSE ticket[i]]
  ELSE ticket

(* Mutant: the name of the constant is stored instead of its text. *)
Mutant_MarkOrderItemsAsFulfilled(ord, its) ==
  RecalculateOrderStatus(ord, UpdateItemsStatusByOrder(its, "paid", "fulfilled"), FALSE)

MarkOrderItemsAsFulfilled(ord, its) ==
  RecalculateOrderStatus(ord, UpdateItemsStatusByOrder(its, "paid", "delivered"), FALSE)

HandleTicketTask(o) ==
  /\ task[o] = "queued"
  /\ \E v \in Views(o) :
       LET result == MarkOrderItemsAsFulfilled(v.order, v.items)
       IN  \/ /\ CommitResult(v, result, {}, bill)
              /\ ticket' = GenerateTicketsForOrder(v.order, o)
              /\ UNCHANGED <<stock, paymentEvents, report, draft>>
           \/ /\ result.verdict = "panic"
              /\ task' = [task EXCEPT ![o] = "dropped"]
              /\ UNCHANGED <<order, item, bill, stock, ticket, paymentEvents, report, draft,
                            past>>

(* ErrPermanent: the session does not exist, the message is acknowledged.   *)
AbandonTicketTask(o) ==
  /\ o \in MissingSessions
  /\ task[o] = "queued"
  /\ order[o].status = "paid"
  /\ task' = [task EXCEPT ![o] = "dropped"]
  /\ UNCHANGED <<order, item, bill, stock, ticket, paymentEvents, report, draft, past>>

-----------------------------------------------------------------------------
(* Tickets after their generation.  The clock is left out: a check-in and   *)
(* the expiry of a session may come in any order.                           *)

CheckInTicket(i, n) ==
  /\ ticket[i][n] = "valid"
  /\ ticket' = [ticket EXCEPT ![i][n] = "used"]
  /\ UNCHANGED <<order, item, bill, stock, paymentEvents, task, report, draft, past>>

(* All items of an order are for one session: their tickets expire together. *)
ExpireTickets(o) ==
  /\ ticket' = [i \in Items |->
                  [n \in DOMAIN ticket[i] |->
                     IF OrderOf[i] = o /\ ticket[i][n] = "valid" THEN "expired"
                     ELSE ticket[i][n]]]
  /\ UNCHANGED <<order, item, bill, stock, paymentEvents, task, report, draft, past>>

-----------------------------------------------------------------------------
Next ==
  \/ \E o \in Orders :
       \/ \E total \in Amounts : AddOrder(o, total)
       \/ \E amount \in Amounts : ValidateBill(o, amount)
       \/ CancelOrder(o)
       \/ HandleTicketTask(o) \/ AbandonTicketTask(o) \/ ExpireTickets(o)
       \/ \E s \in Snapshots : TakeSnapshot(s, o)
  \/ \E i \in Items :
       \/ ChangeOrderItemStatus(i) \/ RequestOrderItemRefund(i) \/ RejectOrderItemRefund(i)
       \/ \E amount \in Amounts : CreateRefundBill(i, amount)
       \/ \E n \in DOMAIN ticket[i] : CheckInTicket(i, n)
  \/ \E b \in Bills :
       \/ CreateBill(b) \/ CancelBill(b)
       \/ PaymentServiceReports(b) \/ HandleBillStatusUpdate(b)

Spec == Init /\ [][Next]_vars

-----------------------------------------------------------------------------
(* What the collections promise together.                                   *)

Sum(bs) == MapThenSumSet(LAMBDA b : bill[b].amount, bs)

SettledBills(o, type, status) ==
  {b \in BillsOf(o) : bill[b].type = type /\ bill[b].status = status}

Placed == {o \in Orders : order[o] # None}

(* The statuses an order has once it was paid in full.                      *)
PaidUp == {"paid", "completed", "return_in_progress", "partially_returned", "returned"}

(* The paid column of an order is what its settled payment bills add up to, *)
(* however often and in which order their results are delivered.            *)
PaidIsSettled ==
  \A o \in Placed : order[o].paid = Sum(SettledBills(o, "payment", "paid"))

(* The returned column and the count of returned items both follow the      *)
(* settled refund bills, and every settled refund has returned its item.    *)
ReturnedIsSettled ==
  \A o \in Placed :
    LET refunds == SettledBills(o, "refund", "refunded")
    IN  /\ order[o].returned = Sum(refunds)
        /\ order[o].returnedItemsCount = Cardinality(refunds)
        /\ order[o].returnedItemsCount = CountItems(StatusesIn(o), "returned")

(* CreateRefundBill opens at most one refund for an item, and the item is   *)
(* returned exactly when that refund went through; a refund that failed or  *)
(* was canceled leaves its item approved.                                   *)
RefundFollowsItem ==
  \A i \in Items : \A b \in RefundsOf(i) :
    /\ RefundsOf(i) = {b}
    /\ item[i] = IF bill[b].status = "refunded" THEN "returned" ELSE "return_approved"

(* A task that is delivered again generates no second ticket, although the  *)
(* count that should prevent it is always zero.                             *)
OneTicketPerItem == \A i \in Items : Len(ticket[i]) <= 1

(* A ticket, used or not, is invalidated when its item is returned and      *)
(* never before.                                                            *)
TicketVoidedWithReturn ==
  \A i \in Items : \A n \in DOMAIN ticket[i] :
    ticket[i][n] = "invalidated" <=> item[i] = "returned"

(* The total of an order is the price of the items not canceled one by one; *)
(* canceling the whole order keeps it.                                      *)
TotalIsOpenItems ==
  \A o \in Placed : order[o].status # "canceled" =>
    order[o].total = MapThenSumSet(LAMBDA i : Price[i],
                                   {i \in ItemsIn(o) : item[i] # "canceled"})

(* No item is paid for, delivered or returned before its order was paid in  *)
(* full, and from then on none is left waiting for a payment.               *)
ItemsFollowOrder ==
  \A i \in Items : order[OrderOf[i]] # None =>
    IF order[OrderOf[i]].status \in PaidUp
    THEN item[i] # "pending_payment"
    ELSE item[i] \in {"pending_payment", "canceled"}

(* An order that was paid in full still covers its total: canceling items   *)
(* and overlapping bills never leave it short.                              *)
PaidInFull ==
  \A o \in Placed : order[o].status \in PaidUp => order[o].paid >= order[o].total

(* No order pays back more than it took in.                                 *)
ReturnedWithinPaid == \A o \in Placed : order[o].returned <= order[o].paid

(* Amounts in whole units: a canceled order has taken no payment.           *)
CanceledOrderNotPaid ==
  \A o \in Placed : order[o].status = "canceled" => order[o].paid = 0

(* Money is booked once, whatever the queue does with a result: what an     *)
(* order has taken and given back is what its settled bills add up to.      *)
AmountsAreSettled == PaidIsSettled /\ ReturnedIsSettled

(* The amounts of an order fit its status and its items: see the parts.     *)
OrderBalances ==
  /\ TotalIsOpenItems
  /\ PaidInFull
  /\ ReturnedWithinPaid
  /\ CanceledOrderNotPaid

(* A canceled order stays so, whatever message or request comes late.  A    *)
(* returned one leaves this status only for a refund that was requested     *)
(* while its last item was settled (see FinishedOrderHasNoOpenItem).        *)
OrderStaysFinal ==
  [][\A o \in Orders :
       /\ order[o].status = "canceled" => order'[o].status = "canceled"
       /\ order[o].status = "returned" =>
            \/ order'[o].status = "returned"
            \/ \E i \in ItemsIn(o) : item[i] = "return_requested"]_vars

(* So do canceled and returned items.                                       *)
ItemStaysFinal ==
  [][\A i \in Items : item[i] \in {"canceled", "returned"} => item'[i] = item[i]]_vars

(* Nothing final moves again, but for that one way.                         *)
FinalStaysFinal == OrderStaysFinal /\ ItemStaysFinal

(* An order has a ticket task from the moment it was paid in full, and not  *)
(* before; it waits in the queue until it moves the order on, and is given  *)
(* up only where the events service denies the session.  (That publishing   *)
(* the task fails and its error is swallowed is in Settlement.)             *)
TaskFollowsPayment ==
  \A o \in Orders :
    /\ task[o] # "none" <=> order[o].status \in PaidUp
    /\ order[o].status = "paid" => task[o] = "queued" \/ o \in MissingSessions

-----------------------------------------------------------------------------
(* What the comments of the code promise and the code does not keep.        *)

(* "Reserve Stock": an order takes its items from the stock.                *)
StockIsTaken == \A s \in Stocks : stock[s] <= InitialStock

(* "Release ticket stock": an order canceled as a whole puts back, up to    *)
(* the width of the quantity, what it took.                                 *)
CanceledOrderRestoresStock ==
  \A s \in Stocks :
    (\A i \in Items : StockOf[i] = s => item[i] \in {"none", "canceled"})
      => stock[s] % WordModulus = InitialStock

(* "... must become delivered, and tickets issued".                         *)
DeliveredItemHasTicket ==
  \A i \in Items : item[i] = "delivered" => ticket[i] # <<>>

(* "If no items are in progress, we can finalize the order's return         *)
(* status": an order whose return is over, or that never had one, has no    *)
(* item of which a return is requested or approved.                         *)
FinishedOrderHasNoOpenItem ==
  \A o \in Placed :
    order[o].status \in {"completed", "partially_returned", "returned"}
      => ~SomeReturnOpen(StatusesIn(o))

(* The same comment: an order is only in a return while one of its items is.*)
ReturnInProgressHasOpenItem ==
  \A o \in Placed :
    order[o].status = "return_in_progress" => SomeReturnOpen(StatusesIn(o))

(* "payment has to be notified to carry out the refund" of an order that is *)
(* pending_refund.                                                          *)
PendingRefundIsAnnounced ==
  \A o \in Placed : order[o].status = "pending_refund" =>
    \E b \in BillsOf(o) : Event("refund", b) \in paymentEvents

(* "This case should not happen": a refund result that leaves more items    *)
(* returned than the order counts.                                          *)
NoDataInconsistency ==
  \A b \in Bills :
    bill[b].status = "pending" /\ bill[b].type = "refund" /\ bill[b].item # NoItem
      => order[bill[b].order].returnedItemsCount < order[bill[b].order].itemsCount
=============================================================================
