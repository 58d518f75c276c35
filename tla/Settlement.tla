------------------------------ MODULE Settlement ------------------------------
(***************************************************************************)
(* The settlement of one order, query by query: workers handle the payment  *)
(* results of its bills and the task that generates its tickets, a request  *)
(* cancels it, and any of them fails or is redelivered between two queries. *)
(*                                                                         *)
(* With MongoDB's transaction manager a handler reads a snapshot, a write   *)
(* conflicts when another transaction has written the same document since   *)
(* the snapshot or has it open, and its writes show together.  With the     *)
(* no-op manager of dev mode every write stands alone.  OrderLifecycle      *)
(* takes the same handlers as single steps; HandlersAreAtomic says when     *)
(* that is right.                                                           *)
(***************************************************************************)
EXTENDS OrderRules, FiniteSetsExt

CONSTANTS
  Order,       \* the document of the order
  Items,
  Bills,
  Amount,      \* of a payment bill
  Workers,
  Managers,    \* transaction managers a process may be built with
  MaxCopies,   \* bounds how often a message or a request is sent
  MaxSent,     \* and how many of them there are with a manager, without the tickets task
  MaxFaults,   \* bounds the queries and processes that fail
  NoJob

ASSUME SettlementAssumption ==
  /\ IsFiniteSet(Items) /\ IsFiniteSet(Bills) /\ Items # {}
  /\ Order \notin Items \union Bills /\ Items \cap Bills = {}
  /\ Amount \in [Bills -> Nat \ {0}]
  /\ Managers \subseteq {"mongo", "noop"}
  /\ MaxSent \in [Managers -> Nat] /\ MaxFaults \in Nat

(* A payment result is for a bill; the ticket task and the cancellation are *)
(* for the order.                                                           *)
Jobs == (Bills \X {"success", "failure"}) \union {<<"tickets">>, <<"cancel">>}

ASSUME JobAssumption == NoJob \notin Jobs /\ MaxCopies \in [Jobs -> Nat]

VARIABLES
  db,        \* what is committed
  manager,
  queue,     \* messages that wait, and requests
  copies,    \* how many of them there ever were
  pc,        \* where a worker is in its handler
  job,       \* what it handles
  view,      \* what it sees in its transaction: the snapshot and its writes
  wrote,     \* the documents it has changed in it,
  stale,     \* and those that others have committed since it began
  plan,      \* what a recalculation has decided to write
  found,     \* the pending bills a cancellation has read
  faults,
  swallowed  \* the error of publishing a ticket task was logged only

vars == <<db, manager, queue, copies, pc, job, view, wrote, stale, plan, found,
          faults, swallowed>>

Total == MapThenSumSet(LAMBDA b : Amount[b], Bills)

Documents == {Order} \union Items \union Bills

(* The order, its items and payment bills, the tickets of each item, the    *)
(* ticket tasks in the outbox and the refund bills opened by a              *)
(* recalculation.                                                           *)
Database ==
  [order : OrderDoc, items : [Items -> ItemStatus], bills : [Bills -> BillStatus],
   tickets : [Items -> Nat], tasks : Nat, refunds : Nat]

NewDatabase ==
  [order |-> NewOrder(Total),
   items |-> [i \in Items |-> "pending_payment"],
   bills |-> [b \in Bills |-> "pending"],
   tickets |-> [i \in Items |-> 0], tasks |-> 0, refunds |-> 0]

Places == {"idle", "bill", "credit", "mark", "refetch", "fetch", "insert", "deliver",
           "recalculate", "status", "refund", "items", "publish",
           "order", "bills", "void", "cancel_items", "close", "commit"}

NoPlan == Commit(NewDatabase.order, NewDatabase.items)

TypeOK ==
  /\ db \in Database
  /\ manager \in {"mongo", "noop"}
  /\ queue \in [Jobs -> Nat]
  /\ copies \in [Jobs -> Nat]
  /\ pc \in [Workers -> Places]
  /\ job \in [Workers -> Jobs \union {NoJob}]
  /\ view \in [Workers -> Database]
  /\ wrote \in [Workers -> SUBSET Documents]
  /\ stale \in [Workers -> SUBSET Documents]
  /\ DOMAIN plan = Workers
  /\ found \in [Workers -> SUBSET Bills]
  /\ faults \in 0 .. MaxFaults
  /\ swallowed \in BOOLEAN

Init ==
  /\ db = NewDatabase
  /\ manager \in Managers
  /\ queue = [j \in Jobs |-> 0]
  /\ copies = [j \in Jobs |-> 0]
  /\ pc = [w \in Workers |-> "idle"]
  /\ job = [w \in Workers |-> NoJob]
  /\ view = [w \in Workers |-> NewDatabase]
  /\ wrote = [w \in Workers |-> {}]
  /\ stale = [w \in Workers |-> {}]
  /\ plan = [w \in Workers |-> NoPlan]
  /\ found = [w \in Workers |-> {}]
  /\ faults = 0
  /\ swallowed = FALSE

-----------------------------------------------------------------------------
(* The queries that write, each on the documents it finds.                  *)

(* Mutant: the amount is set, not added. *)
Mutant_Credit(d, b) == [d EXCEPT !.order.paid = Amount[b]]

(* WithIncPaid, an increment: whatever else the order has become.           *)
Credit(d, b) == [d EXCEPT !.order.paid = @ + Amount[b]]

(* UpdateBill selects the bill by its id only.                              *)
MarkBill(d, b, status) == [d EXCEPT !.bills[b] = status]

SetStatus(d, status) == [d EXCEPT !.order.status = status]

MoveItems(d, from, to) == [d EXCEPT !.items = UpdateItemsStatusByOrder(@, from, to)]

CreateTickets(d) == [d EXCEPT !.tickets = [i \in Items |-> @[i] + 1]]

PublishTicketGenerationTask(d) == [d EXCEPT !.tasks = @ + 1]

Recalculated(d) == RecalculateOrderStatus(d.order, d.items, TRUE)

StoreResult(d, r) ==
  [d EXCEPT !.order.status = r.order.status, !.order.itemsCount = r.order.itemsCount]

OpenRefundBill(d) == [d EXCEPT !.refunds = @ + 1]

-----------------------------------------------------------------------------
(* What a query of a worker reads, and how it writes. *)
Seen(w) == IF manager = "mongo" THEN view[w] ELSE db

(* A transaction begins on what is committed.  Of what is only inserted it  *)
(* counts its own: nothing it reads depends on the others.                  *)
Snapshot ==
  [db EXCEPT !.tickets = NewDatabase.tickets, !.tasks = 0, !.refunds = 0]

(* MongoDB's conflict is per document: one that another transaction has     *)
(* committed since the snapshot, or has changed and not yet committed.  An  *)
(* insert meets nobody.                                                     *)
Conflict(w, docs) ==
  /\ manager = "mongo"
  /\ docs \cap stale[w] # {} \/ \E v \in Workers \ {w} : docs \cap wrote[v] # {}

First(j) ==
  CASE j = <<"tickets">> -> "fetch" [] j = <<"cancel">> -> "order" [] OTHER -> "bill"

Begin(w, j) ==
  /\ pc' = [pc EXCEPT ![w] = First(j)]
  /\ view' = [view EXCEPT ![w] = IF manager = "mongo" THEN Snapshot ELSE NewDatabase]
  /\ wrote' = [wrote EXCEPT ![w] = {}]
  /\ stale' = [stale EXCEPT ![w] = {}]
  /\ plan' = [plan EXCEPT ![w] = NoPlan]
  /\ found' = [found EXCEPT ![w] = {}]

(* A write conflict is transient: the driver runs the handler again.        *)
Retry(w, docs) ==
  /\ Conflict(w, docs)
  /\ Begin(w, job[w])
  /\ UNCHANGED <<db, manager, queue, copies, job, faults, swallowed>>

Put(w, docs, new, next) ==
  /\ ~Conflict(w, docs)
  /\ IF manager = "mongo"
     THEN /\ view' = [view EXCEPT ![w] = new]
          /\ wrote' = [wrote EXCEPT ![w] = @ \union docs]
          /\ UNCHANGED db
     ELSE db' = new /\ UNCHANGED <<view, wrote>>
  /\ pc' = [pc EXCEPT ![w] = next]
  /\ UNCHANGED <<manager, queue, copies, job, stale, plan, faults, swallowed>>

(* A query that changes the documents docs, or inserts others.              *)
Write(w, docs, new, next) == Retry(w, docs) \/ (Put(w, docs, new, next) /\ UNCHANGED found)

GoOn(w, next) ==
  /\ pc' = [pc EXCEPT ![w] = next]
  /\ UNCHANGED <<db, manager, queue, copies, job, view, wrote, stale, plan, found,
                 faults, swallowed>>

(* The worker is free: what it had not committed is gone.                   *)
Free(w) ==
  /\ pc' = [pc EXCEPT ![w] = "idle"]
  /\ job' = [job EXCEPT ![w] = NoJob]
  /\ view' = [view EXCEPT ![w] = NewDatabase]
  /\ wrote' = [wrote EXCEPT ![w] = {}]
  /\ plan' = [plan EXCEPT ![w] = NoPlan]
  /\ found' = [found EXCEPT ![w] = {}]

-----------------------------------------------------------------------------
(* The payment service sends a result, more than once and in any order; a   *)
(* customer or the console cancels.                                         *)
Send(j) ==
  /\ j # <<"tickets">> /\ copies[j] < MaxCopies[j]
  /\ MapThenSumSet(LAMBDA k : copies[k], Jobs \ {<<"tickets">>}) < MaxSent[manager]
  /\ copies' = [copies EXCEPT ![j] = @ + 1]
  /\ queue' = [queue EXCEPT ![j] = @ + 1]
  /\ UNCHANGED <<db, manager, pc, job, view, wrote, stale, plan, found, faults, swallowed>>

(* The outbox publishes the ticket task, and may publish it again.          *)
Relay ==
  /\ db.tasks > 0 /\ copies[<<"tickets">>] < MaxCopies[<<"tickets">>]
  /\ copies' = [copies EXCEPT ![<<"tickets">>] = @ + 1]
  /\ queue' = [queue EXCEPT ![<<"tickets">>] = @ + 1]
  /\ UNCHANGED <<db, manager, pc, job, view, wrote, stale, plan, found, faults, swallowed>>

Take(w, j) ==
  /\ pc[w] = "idle" /\ queue[j] > 0
  /\ queue' = [queue EXCEPT ![j] = @ - 1]
  /\ job' = [job EXCEPT ![w] = j]
  /\ Begin(w, j)
  /\ UNCHANGED <<db, manager, copies, faults, swallowed>>

(* A message goes back to its queue; a request is over.                     *)
PutBack(w) ==
  IF job[w] = <<"cancel">> THEN UNCHANGED queue ELSE queue' = [queue EXCEPT ![job[w]] = @ + 1]

(* A query fails, or the process: a transaction is rolled back.             *)
Fail(w) ==
  /\ pc[w] # "idle" /\ faults < MaxFaults
  /\ faults' = faults + 1
  /\ PutBack(w)
  /\ Free(w)
  /\ stale' = [stale EXCEPT ![w] = {}]
  /\ UNCHANGED <<db, manager, copies, swallowed>>

(* A panic is recovered by the consumer, which drops the message.           *)
Panic(w) ==
  /\ Free(w)
  /\ stale' = [stale EXCEPT ![w] = {}]
  /\ UNCHANGED <<db, manager, queue, copies, faults, swallowed>>

-----------------------------------------------------------------------------
(* ProcessPaymentUpdate. *)
GetBill(w) ==
  /\ pc[w] = "bill"
  /\ LET b == job[w][1]
     IN  CASE Seen(w).bills[b] # "pending" -> GoOn(w, "commit")
           [] Seen(w).bills[b] = "pending" ->
                GoOn(w, IF job[w][2] = "success" THEN "credit" ELSE "mark")

UpdateOrder(w) == pc[w] = "credit" /\ Write(w, {Order}, Credit(Seen(w), job[w][1]), "mark")

BillResult(j) == IF j[2] = "success" THEN "paid" ELSE "failed"

(* Mutant: the update is given the context outside the transaction. *)
Mutant_UpdateBill(w) ==
  /\ pc[w] = "mark"
  /\ db' = MarkBill(db, job[w][1], BillResult(job[w]))
  /\ pc' = [pc EXCEPT ![w] = "refetch"]
  /\ UNCHANGED <<manager, queue, copies, job, view, wrote, stale, plan, found,
                 faults, swallowed>>

UpdateBill(w) ==
  /\ pc[w] = "mark"
  /\ Write(w, {job[w][1]}, MarkBill(Seen(w), job[w][1], BillResult(job[w])), "refetch")

RefetchBill(w) ==
  /\ pc[w] = "refetch"
  /\ GoOn(w, IF job[w][2] = "success" THEN "recalculate" ELSE "commit")

(* GenerateTicketsForOrder: it generates tickets for every item of a paid   *)
(* order.  The count of the order's tickets that should stop a second run   *)
(* looks for the order's id where the tickets hold its serial, and is       *)
(* always zero.  Otherwise the handler goes on all the same.                *)
GetOrder(w) ==
  /\ pc[w] = "fetch"
  /\ GoOn(w, IF Seen(w).order.status = "paid" THEN "insert" ELSE "deliver")

InsertTickets(w) == pc[w] = "insert" /\ Write(w, {}, CreateTickets(Seen(w)), "deliver")

(* An update that matches no item writes nothing.                           *)
WriteItems(w, from, to, next) ==
  LET matched == {i \in Items : Seen(w).items[i] = from}
  IN  IF matched # {}
      THEN Write(w, matched, MoveItems(Seen(w), from, to), next)
      ELSE GoOn(w, next)

DeliverItems(w) == pc[w] = "deliver" /\ WriteItems(w, "paid", "delivered", "recalculate")

(* recalculateOrderStatus decides on what it reads, and then writes.        *)
Recalculate(w) ==
  /\ pc[w] = "recalculate"
  /\ LET r == Recalculated(Seen(w))
     IN  \/ /\ r.verdict = "commit"
            /\ plan' = [plan EXCEPT ![w] = r]
            /\ pc' = [pc EXCEPT ![w] = IF r = Commit(Seen(w).order, Seen(w).items)
                                       THEN "commit" ELSE "status"]
            /\ UNCHANGED <<db, manager, queue, copies, job, view, wrote, stale, found,
                           faults, swallowed>>
         \/ r.verdict = "panic" /\ Panic(w)

WriteStatus(w) ==
  /\ pc[w] = "status"
  /\ Write(w, {Order}, StoreResult(Seen(w), plan[w]),
           CASE plan[w].task -> "items"
             [] ~plan[w].task /\ plan[w].refund # {} -> "refund"
             [] OTHER -> "commit")

CreateRefundBill(w) == pc[w] = "refund" /\ Write(w, {}, OpenRefundBill(Seen(w)), "commit")

MarkItemsPaid(w) == pc[w] = "items" /\ WriteItems(w, "pending_payment", "paid", "publish")


(* The ticket handler passes no publisher.  The error of a publication is   *)
(* logged only.                                                             *)
PublishTask(w) ==
  /\ pc[w] = "publish"
  /\ \/ job[w] = <<"tickets">> /\ Panic(w)
     \/ /\ job[w] # <<"tickets">>
        /\ Write(w, {}, PublishTicketGenerationTask(Seen(w)), "commit")
     \/ /\ job[w] # <<"tickets">> /\ faults < MaxFaults
        /\ faults' = faults + 1
        /\ swallowed' = TRUE
        /\ pc' = [pc EXCEPT ![w] = "commit"]
        /\ UNCHANGED <<db, manager, queue, copies, job, view, wrote, stale, plan, found>>

(* CancelOrder: it goes by the order and the bills it has read.             *)
ReadOrder(w) ==
  /\ pc[w] = "order"
  /\ GoOn(w, IF Seen(w).order.status = "unpaid" THEN "bills" ELSE "commit")

ReadBills(w) ==
  /\ pc[w] = "bills"
  /\ found' = [found EXCEPT ![w] = {b \in Bills : Seen(w).bills[b] = "pending"}]
  /\ pc' = [pc EXCEPT ![w] = "void"]
  /\ UNCHANGED <<db, manager, queue, copies, job, view, wrote, stale, plan, faults, swallowed>>

CancelBill(w) ==
  /\ pc[w] = "void"
  /\ \/ \E b \in found[w] :
          \/ Retry(w, {b})
          \/ /\ Put(w, {b}, MarkBill(Seen(w), b, "canceled"), "void")
             /\ found' = [found EXCEPT ![w] = @ \ {b}]
     \/ found[w] = {} /\ GoOn(w, "cancel_items")

CancelItems(w) == pc[w] = "cancel_items" /\ WriteItems(w, "pending_payment", "canceled", "close")

CloseOrder(w) == pc[w] = "close" /\ Write(w, {Order}, SetStatus(Seen(w), "canceled"), "commit")

(* A commit puts the documents the transaction has changed in the place of  *)
(* the committed ones, and adds what it has inserted.                       *)
Merged(w) ==
  [order   |-> IF Order \in wrote[w] THEN view[w].order ELSE db.order,
   items   |-> [i \in Items |-> IF i \in wrote[w] THEN view[w].items[i] ELSE db.items[i]],
   bills   |-> [b \in Bills |-> IF b \in wrote[w] THEN view[w].bills[b] ELSE db.bills[b]],
   tickets |-> [i \in Items |-> db.tickets[i] + view[w].tickets[i]],
   tasks   |-> db.tasks + view[w].tasks,
   refunds |-> db.refunds + view[w].refunds]

(* A commit may fail though it went through.  Everybody else in a           *)
(* transaction is behind on what was changed.                               *)
EndHandler(w) ==
  /\ pc[w] = "commit"
  /\ Free(w)
  /\ IF manager = "mongo"
     THEN /\ db' = Merged(w)
          /\ stale' = [v \in Workers |-> IF v # w /\ pc[v] # "idle"
                                         THEN stale[v] \union wrote[w] ELSE {}]
          /\ \/ UNCHANGED <<queue, faults>>
             \/ faults < MaxFaults /\ faults' = faults + 1 /\ PutBack(w)
     ELSE /\ stale' = [stale EXCEPT ![w] = {}]
          /\ UNCHANGED <<db, queue, faults>>
  /\ UNCHANGED <<manager, copies, swallowed>>

-----------------------------------------------------------------------------
Handle(w) ==
  \/ GetBill(w) \/ UpdateOrder(w) \/ UpdateBill(w) \/ RefetchBill(w)
  \/ GetOrder(w) \/ InsertTickets(w) \/ DeliverItems(w)
  \/ Recalculate(w) \/ WriteStatus(w) \/ CreateRefundBill(w) \/ MarkItemsPaid(w) \/ PublishTask(w)
  \/ ReadOrder(w) \/ ReadBills(w) \/ CancelBill(w) \/ CancelItems(w) \/ CloseOrder(w)
  \/ EndHandler(w)

Next ==
  \/ Relay
  \/ \E j \in Jobs : Send(j) \/ \E w \in Workers : Take(w, j)
  \/ \E w \in Workers : Handle(w) \/ Fail(w)

Spec == Init /\ [][Next]_vars

(* The outbox publishes, and a message that waits is taken and handled.     *)
FairSpec ==
  /\ Spec
  /\ WF_vars(Relay)
  /\ \A j \in Jobs : SF_vars(\E w \in Workers : Take(w, j))
  /\ \A w \in Workers : WF_vars(Handle(w))

-----------------------------------------------------------------------------
(* The handlers as single steps. *)
ApplyResult(d, r, published) ==
  [d EXCEPT !.order = r.order, !.items = r.items, !.refunds = @ + Cardinality(r.refund),
            !.tasks = IF r.task /\ published THEN @ + 1 ELSE @]

Settled(d, b, success) ==
  LET paid == Credit(MarkBill(d, b, "paid"), b)
      r    == RecalculateOrderStatus(paid.order, paid.items, TRUE)
  IN  CASE d.bills[b] # "pending" -> {d}
        [] d.bills[b] = "pending" /\ ~success -> {MarkBill(d, b, "failed")}
        [] OTHER -> IF r.verdict = "commit"
                    THEN {ApplyResult(paid, r, published) : published \in BOOLEAN}
                    ELSE {d}

Fulfilled(d) ==
  LET made  == IF d.order.status = "paid" THEN CreateTickets(d) ELSE d
      moved == MoveItems(made, "paid", "delivered")
      r     == RecalculateOrderStatus(moved.order, moved.items, FALSE)
  IN  IF r.verdict = "commit" THEN {ApplyResult(moved, r, FALSE)} ELSE {d}

Canceled(d) ==
  IF d.order.status # "unpaid" THEN {d}
  ELSE {[MoveItems(SetStatus(d, "canceled"), "pending_payment", "canceled") EXCEPT
           !.bills = [b \in Bills |-> IF @[b] = "pending" THEN "canceled" ELSE @[b]]]}

(* With transactions, what is committed changes as if the handlers ran one  *)
(* after the other, whatever is read before others commit, runs again after *)
(* a conflict, fails half way or is delivered twice.  Documents conflict    *)
(* one by one, so two results for different bills may be committed from     *)
(* snapshots that do not know of each other; and nothing looks whether an   *)
(* order has tickets, so it is the order's status, which the run that       *)
(* inserts them writes as well, that keeps a second run from inserting      *)
(* others.  This is what lets OrderLifecycle take ProcessPaymentUpdate,     *)
(* GenerateTicketsForOrder and CancelOrder as single steps.                 *)
HandlersAreAtomic ==
  [][manager = "mongo" =>
       \/ db' = db
       \/ \E b \in Bills, success \in BOOLEAN : db' \in Settled(db, b, success)
       \/ db' \in Fulfilled(db) \union Canceled(db)]_vars

(* Even when every write stands alone, whatever fails or races between two  *)
(* of them, a bill is not marked paid before its order has its money: the   *)
(* customer who has paid is never left with an order that knows less.       *)
PaidBillsAreCredited ==
  MapThenSumSet(LAMBDA b : Amount[b], {b \in Bills : db.bills[b] = "paid"}) <= db.order.paid

=============================================================================
