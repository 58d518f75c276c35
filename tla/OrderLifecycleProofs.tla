------------------------ MODULE OrderLifecycleProofs ------------------------
(***************************************************************************)
(* The order lifecycle for any number of orders, items, stocks and bills,   *)
(* in four parts: the inductive invariant of the statuses and what follows  *)
(* from it; tickets and returns; ticket tasks; and the books, the amounts   *)
(* of an order against its status, its items and its bills.  The other      *)
(* parts are invariants on top of the first.                                *)
(***************************************************************************)
EXTENDS OrderLifecycle, OrderRulesProofs, SequenceTheorems

Completed == PaidUp \ {"paid"}

(* What refers to an order refers to one that was placed.                   *)
Linked ==
  /\ \A i \in Items : item[i] # "none" => order[OrderOf[i]] # None
  /\ \A b \in Bills : bill[b] # None =>
       /\ order[bill[b].order] # None
       /\ bill[b].item # NoItem => OrderOf[bill[b].item] = bill[b].order
  /\ \A b \in Bills : draft[b] # None => order[draft[b].order] # None /\ bill[b] = None
  /\ \A o \in Orders : task[o] # "none" => order[o] # None

(* The statuses an item has once it was handed over.                        *)
Fulfilled == {"delivered", "return_requested", "return_approved", "returned"}

(* An item is handed over, and returned, in a completed order.  Which of    *)
(* the later statuses the order has does not follow: two returns that       *)
(* overlap may leave it behind its items.                                   *)
ReturnsFollowOrder ==
  \A i \in Items : item[i] \in Fulfilled => order[OrderOf[i]].status \in Completed

(* Tickets are generated once, with the order leaving paid for good.        *)
TicketsFollowOrder ==
  \A i \in Items : ticket[i] # <<>> =>
    Len(ticket[i]) = 1 /\ order[OrderOf[i]].status \in Completed

(* A snapshot is of a completed order, and what was not written since is    *)
(* still as it shows it.                                                    *)
SnapshotsFollow ==
  \A s \in Snapshots : past[s] # None =>
    LET v == past[s]
    IN  /\ v.order.status \in {"completed", "return_in_progress", "partially_returned"}
        /\ v.items \in [ItemsIn(v.of) -> ItemStatusOrNone]
        /\ order[v.of].status \in Completed
        /\ v.of \notin v.missed => v.order = order[v.of]
        /\ \A i \in ItemsIn(v.of) \ v.missed : v.items[i] = item[i]

IInv ==
  /\ TypeOK
  /\ Linked
  /\ ItemsFollowOrder
  /\ ReturnsFollowOrder
  /\ TicketsFollowOrder
  /\ RefundFollowsItem
  /\ SnapshotsFollow

(* A step moves no canceled order, a returned one only while a return of an *)
(* item is requested, and no canceled or returned item.                     *)
FinalStays ==
  /\ \A p \in Orders :
       /\ order[p].status = "canceled" => order'[p].status = "canceled"
       /\ order[p].status = "returned" =>
            \/ order'[p].status = "returned"
            \/ \E i \in ItemsIn(p) : item[i] = "return_requested"
  /\ \A i \in Items : item[i] \in {"canceled", "returned"} => item'[i] = item[i]

-----------------------------------------------------------------------------
LEMMA NoneIsNoDocument ==
  /\ None.status = "none"
  /\ \A d \in OrderDoc : d # None /\ d.status \in OrderStatus
  /\ \A d \in BillDoc : d # None /\ d.status \in BillStatus
  /\ \A d \in [order : Orders, amount : Amounts] : d # None
BY DEF None, OrderDoc, BillDoc, OrderStatus, BillStatus

LEMMA OrderIsDocument ==
  ASSUME TypeOK, NEW o \in Orders
  PROVE  /\ order[o] # None <=> order[o] \in OrderDoc
         /\ order[o] = None <=> order[o].status \notin OrderStatus
BY NoneIsNoDocument DEF TypeOK, OrderStatus

LEMMA ItemsInFinite ==
  ASSUME NEW o \in Orders
  PROVE  IsFiniteSet(ItemsIn(o)) /\ ItemsIn(o) \subseteq Items
BY ItemsAssumption, FS_Subset DEF ItemsIn

LEMMA StatusesInType ==
  ASSUME TypeOK, NEW o \in Orders
  PROVE  /\ StatusesIn(o) \in [ItemsIn(o) -> ItemStatusOrNone]
         /\ \A i \in ItemsIn(o) : StatusesIn(o)[i] = item[i]
BY ItemsInFinite DEF TypeOK, StatusesIn, ItemStatusOrNone

-----------------------------------------------------------------------------
(* Views.                                                                   *)

(* What a result found on the present writes.                               *)
Written(o, r, bills) ==
  /\ order' = [order EXCEPT ![o] = r.order]
  /\ item' = [i \in Items |-> IF OrderOf[i] = o THEN r.items[i] ELSE item[i]]
  /\ task' = [task EXCEPT ![o] = IF r.task THEN "queued" ELSE @]
  /\ OpenRefundBill(o, r.refund, bills)

LEMMA ViewIsTyped ==
  ASSUME IInv, NEW o \in Orders, NEW v \in Views(o)
  PROVE  /\ v.of = o
         /\ v.items \in [ItemsIn(o) -> ItemStatusOrNone]
         /\ v.order \in OrderDoc <=> order[o] \in OrderDoc
         /\ v = Now(o) => /\ v.order = order[o] /\ v.items = StatusesIn(o)
                          /\ \A i \in ItemsIn(o) : v.items[i] = item[i]
                          /\ v.missed = {}
         /\ v # Now(o) => /\ v.order.status \in {"completed", "return_in_progress",
                                                   "partially_returned"}
                          /\ order[o].status \in Completed
         /\ o \notin v.missed => v.order = order[o]
         /\ \A i \in ItemsIn(o) \ v.missed : v.items[i] = item[i]
<1>1. CASE v = Now(o)
  <2>1. /\ v.of = o /\ v.order = order[o] /\ v.items = StatusesIn(o) /\ v.missed = {}
    BY <1>1 DEF Now
  <2>2. /\ v.items \in [ItemsIn(o) -> ItemStatusOrNone]
        /\ \A i \in ItemsIn(o) : v.items[i] = item[i]
    BY <2>1, StatusesInType DEF IInv
  <2> QED
    BY <1>1, <2>1, <2>2
<1>2. CASE v # Now(o)
  <2>1. PICK s \in Snapshots : v = past[s] /\ past[s] # None /\ past[s].of = o
    BY <1>2 DEF Views
  <2>2. past[s] \in Snapshot
    BY <2>1 DEF IInv, TypeOK
  <2>3. v.order \in OrderDoc
    BY <2>1, <2>2 DEF Snapshot
  <2>4. /\ v.order.status \in {"completed", "return_in_progress", "partially_returned"}
        /\ v.items \in [ItemsIn(v.of) -> ItemStatusOrNone]
        /\ order[v.of].status \in Completed
        /\ v.of \notin v.missed => v.order = order[v.of]
        /\ \A i \in ItemsIn(v.of) \ v.missed : v.items[i] = item[i]
    BY <2>1 DEF IInv, SnapshotsFollow
  <2>5. order[o] \in OrderDoc
    BY <2>1, <2>4, OrderIsDocument DEF IInv, Completed, PaidUp, OrderStatus
  <2> QED
    BY <1>2, <2>1, <2>3, <2>4, <2>5
<1> QED
  BY <1>1, <1>2

(* A result found on an old view is, on the documents that are there by     *)
(* now, a result as well: whatever is written was not missed, and of the    *)
(* rest nothing is claimed.  `ord` and `its` are what the recalculation     *)
(* started from, `new` and `moved` what it started from on the view.        *)
Rebased(v, o, new, moved, wrote, ord, its) ==
  /\ ord.status = order[o].status
  /\ IF o \in wrote THEN v.order = order[o] /\ ord = new ELSE ord = order[o]
  /\ \A j \in ItemsIn(o) :
       \/ j \notin wrote /\ its[j] = item[j]
       \/ v.items[j] = item[j] /\ its[j] = moved[j]

LEMMA CommittedOnView ==
  ASSUME IInv, NEW o \in Orders, order[o] \in OrderDoc, NEW v \in Views(o),
         NEW new \in OrderDoc, NEW moved \in [ItemsIn(o) -> ItemStatusOrNone],
         NEW wrote \in SUBSET ({o} \union ItemsIn(o)),
         new.status = v.order.status, o \in wrote \/ new = v.order,
         NEW r, RecalculationEffect(new, moved, r),
         NEW bills, CommitResult(v, r, wrote, bills)
  PROVE  \E ord \in OrderDoc, its \in [ItemsIn(o) -> ItemStatusOrNone] : \E R :
           /\ Rebased(v, o, new, moved, wrote, ord, its)
           /\ RecalculationEffect(ord, its, R)
           /\ Written(o, R, bills)
           /\ R.refund = r.refund
           /\ IF v = Now(o) THEN ord = new /\ its = moved /\ R = r
              ELSE order[o].status \in Completed /\ R.items = its
<1> DEFINE docs == wrote \union ChangedBy(v, r)
<1>1. /\ v.of = o /\ v.items \in [ItemsIn(o) -> ItemStatusOrNone]
      /\ v.order \in OrderDoc
      /\ v = Now(o) => v.order = order[o] /\ \A i \in ItemsIn(o) : v.items[i] = item[i]
      /\ v # Now(o) => /\ v.order.status \in {"completed", "return_in_progress",
                                                "partially_returned"}
                       /\ order[o].status \in Completed
      /\ o \notin v.missed => v.order = order[o]
      /\ \A i \in ItemsIn(o) \ v.missed : v.items[i] = item[i]
  BY ViewIsTyped
<1>2. /\ docs \subseteq {o} \union ItemsIn(o)
      /\ docs \cap v.missed = {}
      /\ o \notin docs => r.order = v.order
      /\ \A i \in ItemsIn(o) \ docs : r.items[i] = v.items[i]
  <2>1. ChangedBy(v, r) = {p \in {o} : r.order # v.order}
                            \union {i \in ItemsIn(o) : r.items[i] # v.items[i]}
    BY <1>1 DEF ChangedBy
  <2>2. docs \cap v.missed = {}
    BY DEF CommitResult
  <2> QED
    BY <2>1, <2>2
<1>3. /\ order' = [order EXCEPT ![o] = IF o \in docs THEN r.order ELSE @]
      /\ item' = [i \in Items |-> IF i \in docs THEN r.items[i] ELSE item[i]]
      /\ task' = [task EXCEPT ![o] = IF r.task THEN "queued" ELSE @]
      /\ OpenRefundBill(o, r.refund, bills)
  BY <1>1 DEF CommitResult
<1>4. \A i \in Items : i \notin ItemsIn(o) => i \notin docs
  BY <1>2, ItemsAssumption
<1>5. \A i \in Items : OrderOf[i] = o <=> i \in ItemsIn(o)
  BY DEF ItemsIn
<1> HIDE DEF docs
<1>6. CASE v = Now(o)
  <2>1. order' = [order EXCEPT ![o] = r.order]
    BY <1>1, <1>2, <1>3, <1>6 DEF IInv, TypeOK
  <2>2. \A i \in Items : item'[i] = IF OrderOf[i] = o THEN r.items[i] ELSE item[i]
    BY <1>1, <1>2, <1>3, <1>4, <1>5, <1>6
  <2>3. item' = [i \in Items |-> IF OrderOf[i] = o THEN r.items[i] ELSE item[i]]
    BY <1>3, <2>2
  <2>4. Written(o, r, bills)
    BY <1>3, <2>1, <2>3 DEF Written
  <2>5. Rebased(v, o, new, moved, wrote, new, moved)
    BY <1>1, <1>6 DEF Rebased
  <2> QED
    BY <1>6, <2>4, <2>5
<1>7. CASE v # Now(o)
  <2> DEFINE ord == IF o \in wrote THEN new ELSE order[o]
             its == [j \in ItemsIn(o) |-> IF j \in docs THEN moved[j] ELSE item[j]]
             R   == Result("commit", order'[o], its, r.task, r.refund)
  <2>1. /\ R.order = order'[o] /\ R.items = its /\ R.task = r.task /\ R.refund = r.refund
    BY DEF Result
  <2>2. new.status \in Completed /\ new.status # "paid"
    BY <1>1, <1>7 DEF Completed, PaidUp
  <2>3. /\ r.order \in OrderDoc /\ r.items = moved /\ r.task = FALSE
        /\ r.refund \subseteq Int /\ SameMoney(new, r.order)
        /\ r.order.status = new.status \/ <<new.status, r.order.status>> \in OtherMoves
    BY <2>2 DEF RecalculationEffect, MarkedPaid, Completed, PaidUp
  <2>4. its \in [ItemsIn(o) -> ItemStatusOrNone]
    BY DEF IInv, TypeOK, ItemsIn, ItemStatusOrNone
  <2>5. ord \in OrderDoc /\ ord.status = order[o].status
    BY <1>1, <1>2 DEF docs
  <2>6. order'[o] = (IF o \in docs THEN r.order ELSE order[o])
    BY <1>3 DEF IInv, TypeOK
  <2>7. RecalculationEffect(ord, its, R)
    <3>1. ord.status # "paid"
      BY <1>1, <1>7, <2>5 DEF Completed
    <3>2. CASE o \in docs
      <4>1. ord = new /\ order'[o] = r.order
        BY <1>1, <1>2, <2>6, <3>2
      <4> HIDE DEF ord, its, R
      <4> QED
        BY <2>1, <2>3, <2>4, <3>1, <4>1 DEF RecalculationEffect, Progress
    <3>3. CASE o \notin docs
      <4>1. ord = order[o] /\ order'[o] = order[o]
        BY <2>6, <3>3 DEF docs
      <4>2. <<ord.status, ord.status>> \notin MarkedPaid
        BY DEF MarkedPaid
      <4> HIDE DEF ord, its, R
      <4> QED
        BY <2>1, <2>3, <2>4, <3>1, <4>1, <4>2 DEF RecalculationEffect, Progress, SameMoney
    <3> QED
      BY <3>2, <3>3
  <2>8. Written(o, R, bills)
    <3>1. order' = [order EXCEPT ![o] = R.order]
      BY <1>3, <2>1 DEF IInv, TypeOK
    <3>2. \A i \in Items : item'[i] = IF OrderOf[i] = o THEN its[i] ELSE item[i]
      BY <1>3, <1>4, <1>5, <2>3
    <3> HIDE DEF its, R
    <3>3. item' = [i \in Items |-> IF OrderOf[i] = o THEN R.items[i] ELSE item[i]]
      BY <1>3, <2>1, <3>2
    <3> QED
      BY <1>3, <2>1, <3>1, <3>3 DEF Written
  <2>9. Rebased(v, o, new, moved, wrote, ord, its)
    <3>1. wrote \subseteq docs
      BY DEF docs
    <3>2. o \in wrote => v.order = order[o]
      BY <1>1, <1>2, <3>1
    <3>3. \A j \in ItemsIn(o) : \/ j \notin wrote /\ its[j] = item[j]
                                \/ v.items[j] = item[j] /\ its[j] = moved[j]
      BY <1>1, <1>2, <3>1
    <3>4. IF o \in wrote THEN ord = new ELSE ord = order[o]
      OBVIOUS
    <3> HIDE DEF ord, its
    <3> QED
      BY <2>5, <3>2, <3>3, <3>4 DEF Rebased
  <2> HIDE DEF ord, its, R
  <2> QED
    BY <1>1, <1>7, <2>1, <2>4, <2>5, <2>7, <2>8, <2>9
<1> QED
  BY <1>6, <1>7

(* The transactions that are open follow whatever is committed, if it says  *)
(* what it has written.                                                     *)
LEMMA SnapshotsOvertaken ==
  ASSUME IInv, NEW o \in Orders, NEW docs \in SUBSET ({o} \union ItemsIn(o)),
         Overtake(o, docs),
         \A p \in Orders \ {o} : order'[p] = order[p],
         \A i \in Items \ ItemsIn(o) : item'[i] = item[i],
         order[o].status \in Completed => order'[o].status \in Completed,
         o \notin docs => order'[o] = order[o],
         \A i \in ItemsIn(o) \ docs : item'[i] = item[i]
  PROVE  past' \in [Snapshots -> Snapshot \union {None}] /\ SnapshotsFollow'
<1> DEFINE new(s) == IF past[s] # None /\ past[s].of = o
                     THEN [past[s] EXCEPT !.missed = @ \union docs] ELSE past[s]
<1>1. past' = [s \in Snapshots |-> new(s)]
  BY DEF Overtake
<1>2. docs \in SUBSET (Orders \union Items)
  BY ItemsInFinite
<1>3. ASSUME NEW s \in Snapshots, past[s] # None, past[s].of = o
      PROVE  /\ new(s) \in Snapshot
             /\ new(s).of = o /\ new(s).order = past[s].order /\ new(s).items = past[s].items
             /\ new(s).missed = past[s].missed \union docs
  <2>1. past[s] \in Snapshot
    BY <1>3 DEF IInv, TypeOK
  <2> QED
    BY <1>2, <1>3, <2>1 DEF Snapshot
<1>4. past' \in [Snapshots -> Snapshot \union {None}]
  <2>1. \A s \in Snapshots : new(s) \in Snapshot \union {None}
    <3> SUFFICES ASSUME NEW s \in Snapshots PROVE new(s) \in Snapshot \union {None}
      OBVIOUS
    <3>1. CASE past[s] # None /\ past[s].of = o
      BY <1>3, <3>1
    <3>2. CASE ~(past[s] # None /\ past[s].of = o)
      BY <3>2 DEF IInv, TypeOK
    <3> QED
      BY <3>1, <3>2
  <2> HIDE DEF new
  <2> QED
    BY <1>1, <2>1
<1>5. ASSUME NEW s \in Snapshots, past'[s] # None
      PROVE  LET v == past'[s]
             IN  /\ v.order.status \in {"completed", "return_in_progress", "partially_returned"}
                 /\ v.items \in [ItemsIn(v.of) -> ItemStatusOrNone]
                 /\ order'[v.of].status \in Completed
                 /\ v.of \notin v.missed => v.order = order'[v.of]
                 /\ \A i \in ItemsIn(v.of) \ v.missed : v.items[i] = item'[i]
  <2>1. past'[s] = new(s)
    BY <1>1
  <2>2. CASE past[s] # None /\ past[s].of = o
    <3>1. /\ past'[s].of = o /\ past'[s].order = past[s].order
          /\ past'[s].items = past[s].items
          /\ past'[s].missed = past[s].missed \union docs
      BY <1>3, <2>1, <2>2
    <3>2. /\ past[s].order.status \in {"completed", "return_in_progress", "partially_returned"}
          /\ past[s].items \in [ItemsIn(o) -> ItemStatusOrNone]
          /\ order[o].status \in Completed
          /\ o \notin past[s].missed => past[s].order = order[o]
          /\ \A i \in ItemsIn(o) \ past[s].missed : past[s].items[i] = item[i]
      BY <2>2 DEF IInv, SnapshotsFollow
    <3> QED
      BY <3>1, <3>2
  <2>3. CASE past[s] # None /\ past[s].of # o
    <3>1. past'[s] = past[s] /\ past[s].of \in Orders
      BY <2>1, <2>3 DEF IInv, TypeOK, Snapshot
    <3>2. /\ past[s].order.status \in {"completed", "return_in_progress", "partially_returned"}
          /\ past[s].items \in [ItemsIn(past[s].of) -> ItemStatusOrNone]
          /\ order[past[s].of].status \in Completed
          /\ past[s].of \notin past[s].missed => past[s].order = order[past[s].of]
          /\ \A i \in ItemsIn(past[s].of) \ past[s].missed : past[s].items[i] = item[i]
      BY <2>3 DEF IInv, SnapshotsFollow
    <3>3. /\ order'[past[s].of] = order[past[s].of]
          /\ \A i \in ItemsIn(past[s].of) : item'[i] = item[i]
      BY <2>3, <3>1 DEF ItemsIn
    <3> QED
      BY <3>1, <3>2, <3>3
  <2> QED
    BY <1>5, <2>1, <2>2, <2>3
<1> QED
  BY <1>4, <1>5 DEF SnapshotsFollow

(* An order without a snapshot: none is overtaken.                          *)
LEMMA SnapshotsUntouched ==
  ASSUME IInv, NEW o \in Orders, UNCHANGED past, order[o].status \notin Completed,
         \A p \in Orders \ {o} : order'[p] = order[p],
         \A i \in Items \ ItemsIn(o) : item'[i] = item[i]
  PROVE  past' \in [Snapshots -> Snapshot \union {None}] /\ SnapshotsFollow'
<1>1. \A s \in Snapshots : past[s] # None => past[s].of # o /\ past[s].of \in Orders
  BY DEF IInv, TypeOK, Snapshot, SnapshotsFollow
<1>2. \A p \in Orders \ {o} : \A i \in ItemsIn(p) : item'[i] = item[i]
  BY DEF ItemsIn
<1> QED
  BY <1>1, <1>2 DEF IInv, TypeOK, SnapshotsFollow

(* A result is committed on a view: what it writes, the rest has missed.    *)
LEMMA CommitKeepsSnapshots ==
  ASSUME IInv, NEW o \in Orders, NEW v \in Views(o),
         NEW wrote \in SUBSET ({o} \union ItemsIn(o)), NEW r, NEW bills,
         CommitResult(v, r, wrote, bills),
         order[o].status \in Completed => order'[o].status \in Completed
  PROVE  past' \in [Snapshots -> Snapshot \union {None}] /\ SnapshotsFollow'
<1> DEFINE docs == wrote \union ChangedBy(v, r)
<1>1. v.of = o
  BY ViewIsTyped
<1>2. docs \in SUBSET ({o} \union ItemsIn(o))
  BY <1>1 DEF ChangedBy
<1>3. /\ order' = [order EXCEPT ![o] = IF o \in docs THEN r.order ELSE @]
      /\ item' = [i \in Items |-> IF i \in docs THEN r.items[i] ELSE item[i]]
      /\ Overtake(o, docs)
  BY <1>1 DEF CommitResult
<1>4. \A i \in Items \ ItemsIn(o) : i \notin docs
  BY <1>2, ItemsAssumption
<1> HIDE DEF docs
<1>5. /\ \A p \in Orders \ {o} : order'[p] = order[p]
      /\ o \notin docs => order'[o] = order[o]
  BY <1>3 DEF IInv, TypeOK
<1>6. /\ \A i \in Items \ ItemsIn(o) : item'[i] = item[i]
      /\ \A i \in ItemsIn(o) \ docs : item'[i] = item[i]
  BY <1>3, <1>4 DEF ItemsIn
<1> QED
  BY <1>2, <1>3, <1>5, <1>6, SnapshotsOvertaken

LEMMA TakeSnapshotKeeps ==
  ASSUME IInv, NEW o \in Orders, NEW s \in Snapshots, TakeSnapshot(s, o)
  PROVE  past' \in [Snapshots -> Snapshot \union {None}] /\ SnapshotsFollow'
<1>1. /\ order[o].status \in {"completed", "return_in_progress", "partially_returned"}
      /\ past' = [past EXCEPT ![s] = Now(o)]
      /\ UNCHANGED <<order, item>>
  BY DEF TakeSnapshot
<1>2. order[o] \in OrderDoc /\ order[o].status \in Completed
  BY <1>1, OrderIsDocument DEF IInv, Completed, PaidUp, OrderStatus
<1>3. /\ StatusesIn(o) \in [ItemsIn(o) -> ItemStatusOrNone]
      /\ \A i \in ItemsIn(o) : StatusesIn(o)[i] = item[i]
      /\ ItemsIn(o) \in SUBSET Items
  BY StatusesInType, ItemsInFinite DEF IInv
<1>4. /\ Now(o).of = o /\ Now(o).order = order[o] /\ Now(o).items = StatusesIn(o)
      /\ Now(o).missed = {}
  BY DEF Now
<1>5. Now(o) \in Snapshot
  <2>1. StatusesIn(o) \in UNION {[I -> ItemStatus \union {"none"}] : I \in SUBSET Items}
    BY <1>3 DEF ItemStatusOrNone
  <2>2. PendingBillsOf(o) \in SUBSET Bills
    BY DEF PendingBillsOf, BillsOf
  <2> QED
    BY <1>2, <2>1, <2>2 DEF Now, Snapshot
<1>6. past' \in [Snapshots -> Snapshot \union {None}]
  BY <1>1, <1>5 DEF IInv, TypeOK
<1>7. past'[s] = Now(o) /\ \A t \in Snapshots \ {s} : past'[t] = past[t]
  BY <1>1 DEF IInv, TypeOK
<1>8. SnapshotsFollow'
  BY <1>1, <1>2, <1>3, <1>4, <1>7 DEF IInv, SnapshotsFollow
<1> QED
  BY <1>6, <1>8

-----------------------------------------------------------------------------
(* What every recalculation keeps, whatever else its transaction has        *)
(* written to the order (ord) and to its items (its) before.                *)
LEMMA CommitResultKeeps ==
  ASSUME IInv, NEW o \in Orders, order[o] \in OrderDoc,
         NEW ord \in OrderDoc, NEW its \in [ItemsIn(o) -> ItemStatusOrNone], NEW r, NEW bills,
         ord.status = order[o].status,
         RecalculationEffect(ord, its, r),
         Written(o, r, bills),
         \A i \in ItemsIn(o) :
           IF ord.status \in PaidUp THEN its[i] # "pending_payment"
           ELSE its[i] \in {"pending_payment", "canceled"}
  PROVE  /\ order' \in [Orders -> OrderDoc \union {None}]
         /\ item' \in [Items -> ItemStatus \union {"none"}]
         /\ task' \in [Orders -> {"none", "queued", "dropped"}]
         /\ \A p \in Orders : order[p] # None => order'[p] # None
         /\ \A p \in Orders : task'[p] # "none" => order'[p] # None
         /\ \A i \in Items : item'[i] # "none" => order'[OrderOf[i]] # None
         /\ ItemsFollowOrder'
         /\ ReturnsFollowOrder'
         /\ \A p \in Orders : order[p].status \in Completed => order'[p].status \in Completed
         /\ order[o].status = "paid" => order'[o].status = "completed"
         /\ \A p \in Orders : order[p].status \in {"canceled", "returned"}
                              => order'[p].status = order[p].status
<1>a. r.order \in OrderDoc /\ r.order # None /\ r.order.status \in OrderStatus
  BY NoneIsNoDocument DEF RecalculationEffect
<1>b. order' = [order EXCEPT ![o] = r.order] /\ order'[o] = r.order
      /\ \A p \in Orders \ {o} : order'[p] = order[p]
  BY DEF Written, IInv, TypeOK
<1>c. /\ \A i \in ItemsIn(o) : OrderOf[i] = o /\ item'[i] = r.items[i]
      /\ \A i \in Items \ ItemsIn(o) : OrderOf[i] # o /\ OrderOf[i] \in Orders /\ item'[i] = item[i]
  BY ItemsAssumption DEF Written, ItemsIn
<1>d. r.items \in [ItemsIn(o) -> ItemStatusOrNone]
  BY DEF RecalculationEffect
<1>e. \A i \in ItemsIn(o) : \/ r.items[i] = its[i]
                            \/ /\ its[i] = "pending_payment"
                               /\ r.items[i] = "paid"
                               /\ r.order.status = "paid"
  BY DEF RecalculationEffect, UpdateItemsStatusByOrder, MarkedPaid
<1>1. order' \in [Orders -> OrderDoc \union {None}]
  BY <1>a, <1>b DEF IInv, TypeOK
<1>2. item' \in [Items -> ItemStatus \union {"none"}]
  <2>1. \A i \in Items : item'[i] \in ItemStatus \union {"none"}
    BY <1>c, <1>d DEF IInv, TypeOK, ItemStatusOrNone
  <2> QED
    BY <2>1 DEF Written
<1>3. task' \in [Orders -> {"none", "queued", "dropped"}]
  BY DEF Written, IInv, TypeOK
<1>4. \A p \in Orders : order[p] # None => order'[p] # None
  BY <1>a, <1>b
<1>5. \A p \in Orders : task'[p] # "none" => order'[p] # None
  BY <1>a, <1>b DEF Written, IInv, TypeOK, Linked
<1>6. \A i \in Items : item'[i] # "none" => order'[OrderOf[i]] # None
  BY <1>a, <1>b, <1>c DEF IInv, Linked
<1>7. /\ ord.status \in Completed => r.order.status \in Completed
      /\ ord.status = "paid" => r.order.status = "completed"
      /\ r.order.status \in PaidUp
           <=> ord.status \in PaidUp \/ <<ord.status, r.order.status>> \in MarkedPaid
      /\ <<ord.status, r.order.status>> \in MarkedPaid
           => ord.status \notin PaidUp /\ r.order.status = "paid"
  <2>1. ord.status = "paid" => r.order.status = "completed"
    <3>1. ord.status = "paid" => \A i \in DOMAIN its : its[i] # "pending_payment"
      BY DEF PaidUp
    <3> QED
      BY <3>1 DEF RecalculationEffect, Progress
  <2>2. r.order.status = ord.status \/ <<ord.status, r.order.status>> \in MarkedPaid \union OtherMoves
    BY DEF RecalculationEffect
  <2> QED
    BY <2>1, <2>2 DEF MarkedPaid, OtherMoves, PaidUp, Completed
<1>8. ItemsFollowOrder'
  <2>1. SUFFICES ASSUME NEW i \in Items, order'[OrderOf[i]] # None
                 PROVE  IF order'[OrderOf[i]].status \in PaidUp
                        THEN item'[i] # "pending_payment"
                        ELSE item'[i] \in {"pending_payment", "canceled"}
    BY DEF ItemsFollowOrder
  <2>2. CASE i \notin ItemsIn(o)
    BY <1>b, <1>c, <2>1, <2>2 DEF IInv, ItemsFollowOrder
  <2>3. CASE i \in ItemsIn(o) /\ <<ord.status, r.order.status>> \in MarkedPaid
    <3>1. r.items[i] = IF its[i] = "pending_payment" THEN "paid" ELSE its[i]
      <4>1. <<ord.status, r.order.status>> \notin OtherMoves /\ r.order.status # ord.status
        BY <2>3 DEF MarkedPaid, OtherMoves
      <4> QED
        BY <2>3, <4>1 DEF RecalculationEffect, UpdateItemsStatusByOrder
    <3> QED
      BY <1>b, <1>c, <1>7, <2>3, <3>1 DEF PaidUp
  <2>4. CASE i \in ItemsIn(o) /\ <<ord.status, r.order.status>> \notin MarkedPaid
    <3>1. r.items = its
      BY <2>4 DEF RecalculationEffect
    <3> QED
      BY <1>b, <1>c, <1>7, <2>4, <3>1
  <2> QED
    BY <2>2, <2>3, <2>4
<1>9. ReturnsFollowOrder'
  <2>1. SUFFICES ASSUME NEW i \in Items, item'[i] \in Fulfilled
                 PROVE  order'[OrderOf[i]].status \in Completed
    BY DEF ReturnsFollowOrder
  <2>2. CASE i \notin ItemsIn(o)
    BY <1>b, <1>c, <2>1, <2>2 DEF IInv, ReturnsFollowOrder
  <2>3. CASE i \in ItemsIn(o)
    <3>1. /\ OrderOf[i] = o /\ order'[o] = r.order
          /\ item'[i] = its[i] \/ item'[i] = "paid"
      BY <1>b, <1>c, <1>e, <2>3
    <3>2. its[i] \in Fulfilled
      BY <2>1, <3>1 DEF Fulfilled
    <3>3. ord.status \in PaidUp
      BY <2>3, <3>2 DEF Fulfilled
    <3> QED
      BY <1>7, <3>1, <3>3 DEF Completed, PaidUp
  <2> QED
    BY <2>2, <2>3
<1>10. \A p \in Orders : order[p].status \in {"canceled", "returned"}
         => order'[p].status = order[p].status
  <2>1. ord.status \in {"canceled", "returned"} => r.order.status = ord.status
    BY DEF RecalculationEffect, MarkedPaid, OtherMoves
  <2> QED
    BY <1>b, <2>1
<1> QED
  BY <1>b, <1>1, <1>2, <1>3, <1>4, <1>5, <1>6, <1>7, <1>8, <1>9, <1>10

-----------------------------------------------------------------------------
(* Bills.                                                                   *)

LEMMA BillIsDocument ==
  ASSUME TypeOK, NEW b \in Bills
  PROVE  /\ bill[b] # None <=> bill[b] \in BillDoc
         /\ bill[b].status \in BillStatus => bill[b] \in BillDoc
BY NoneIsNoDocument DEF TypeOK, BillStatus

(* Moving a bill to another status.                                         *)
LEMMA SettledBill ==
  ASSUME TypeOK, NEW b \in Bills, bill[b] \in BillDoc, NEW status \in BillStatus
  PROVE  /\ Settled(b, status) \in [Bills -> BillDoc \union {None}]
         /\ Settled(b, status)[b] \in BillDoc
         /\ Settled(b, status)[b].status = status
         /\ Settled(b, status)[b].order = bill[b].order
         /\ Settled(b, status)[b].item = bill[b].item
         /\ \A c \in Bills \ {b} : Settled(b, status)[c] = bill[c]
<1> DEFINE new == [bill[b] EXCEPT !.status = status]
<1>1. new \in BillDoc /\ new.status = status /\ new.order = bill[b].order /\ new.item = bill[b].item
  BY DEF BillDoc
<1>2. Settled(b, status) = [bill EXCEPT ![b] = new]
  BY DEF Settled
<1> HIDE DEF new
<1> QED
  BY <1>1, <1>2 DEF TypeOK

(* A bill keeps its order and its item; a new one has a placed order, no    *)
(* draft left and, but for the refund of an item, no item.                  *)
BillsKept ==
  \A b \in Bills :
    /\ bill[b] # None => /\ bill'[b] # None
                         /\ bill'[b].order = bill[b].order
                         /\ bill'[b].item = bill[b].item
    /\ bill[b] = None /\ bill'[b] # None =>
         bill'[b].item = NoItem /\ order'[bill'[b].order] # None /\ draft'[b] = None

LEMMA OpenedRefundBill ==
  ASSUME IInv, UNCHANGED draft, NEW o \in Orders, order'[o] # None, NEW amounts \in SUBSET Int,
         NEW bills \in [Bills -> BillDoc \union {None}],
         \A b \in Bills : /\ bill[b] = None <=> bills[b] = None
                          /\ bill[b] # None => /\ bills[b].order = bill[b].order
                                               /\ bills[b].item = bill[b].item,
         OpenRefundBill(o, amounts, bills)
  PROVE  /\ bill' \in [Bills -> BillDoc \union {None}]
         /\ BillsKept
         /\ \A b \in Bills : bill[b] # None => bill'[b] = bills[b]
<1>1. CASE bill' = bills
  BY <1>1 DEF BillsKept
<1>2. CASE \E b \in FreshBills, amount \in amounts :
             bill' = [bills EXCEPT ![b] = NewBill(o, "refund", amount, NoItem, FALSE)]
  <2>1. PICK b \in FreshBills, amount \in amounts :
          bill' = [bills EXCEPT ![b] = NewBill(o, "refund", amount, NoItem, FALSE)]
    BY <1>2
  <2> DEFINE new == NewBill(o, "refund", amount, NoItem, FALSE)
  <2>2. new \in BillDoc /\ new # None /\ new.order = o /\ new.item = NoItem
    <3>1. new \in BillDoc
      BY DEF NewBill, BillDoc, BillStatus
    <3> QED
      BY <3>1, NoneIsNoDocument DEF NewBill
  <2>3. b \in Bills /\ bill[b] = None /\ draft'[b] = None
    BY DEF FreshBills
  <2>4. bill' = [bills EXCEPT ![b] = new]
    BY <2>1
  <2> HIDE DEF new
  <2> QED
    BY <2>2, <2>3, <2>4 DEF BillsKept
<1> QED
  BY <1>1, <1>2 DEF OpenRefundBill

LEMMA BillsStayLinked ==
  ASSUME IInv, BillsKept, \A p \in Orders : order[p] # None => order'[p] # None
  PROVE  /\ \A b \in Bills : bill'[b] # None =>
              /\ order'[bill'[b].order] # None
              /\ bill'[b].item # NoItem => OrderOf[bill'[b].item] = bill'[b].order
         /\ \A i \in Items : RefundsOf(i)' = RefundsOf(i)
<1>1. \A b \in Bills : bill[b] # None => bill[b].order \in Orders
  BY BillIsDocument DEF BillDoc, IInv
<1>2. \A i \in Items : i # NoItem
  BY ItemsAssumption
<1>3. \A i \in Items, b \in Bills :
        bill'[b] # None /\ bill'[b].item = i <=> bill[b] # None /\ bill[b].item = i
  BY <1>2 DEF BillsKept
<1>4. \A i \in Items : RefundsOf(i)' = RefundsOf(i)
  BY <1>3 DEF RefundsOf
<1>5. ASSUME NEW b \in Bills, bill'[b] # None
      PROVE  /\ order'[bill'[b].order] # None
             /\ bill'[b].item # NoItem => OrderOf[bill'[b].item] = bill'[b].order
  <2>1. CASE bill[b] # None
    BY <1>1, <2>1 DEF BillsKept, IInv, Linked
  <2>2. CASE bill[b] = None
    BY <1>5, <2>2 DEF BillsKept
  <2> QED
    BY <2>1, <2>2
<1> QED
  BY <1>4, <1>5

(* A step that moves no refund of an item and no approved or returned item. *)
LEMMA RefundsKept ==
  ASSUME IInv, BillsKept, \A p \in Orders : order[p] # None => order'[p] # None,
         \A b \in Bills : bill[b] # None /\ bill[b].item # NoItem
           => (bill'[b].status = "refunded" <=> bill[b].status = "refunded"),
         \A i \in Items : item[i] \in {"return_approved", "returned"} => item'[i] = item[i]
  PROVE  RefundFollowsItem'
<1>1. SUFFICES ASSUME NEW i \in Items, NEW b \in RefundsOf(i)'
               PROVE  /\ RefundsOf(i)' = {b}
                      /\ item'[i] = IF bill'[b].status = "refunded" THEN "returned"
                                    ELSE "return_approved"
  BY DEF RefundFollowsItem
<1>2. RefundsOf(i)' = RefundsOf(i)
  BY BillsStayLinked
<1>3. b \in Bills /\ bill[b] # None /\ bill[b].item # NoItem
  BY <1>2, ItemsAssumption DEF RefundsOf
<1>4. /\ RefundsOf(i) = {b}
      /\ item[i] = IF bill[b].status = "refunded" THEN "returned" ELSE "return_approved"
  BY <1>2 DEF IInv, RefundFollowsItem
<1> QED
  BY <1>2, <1>3, <1>4

(* A step that leaves orders and items alone.                               *)
LEMMA OrdersUnchanged ==
  ASSUME IInv, UNCHANGED <<order, item>>
  PROVE  /\ ItemsFollowOrder' /\ ReturnsFollowOrder'
         /\ UNCHANGED past => past' \in [Snapshots -> Snapshot \union {None}] /\ SnapshotsFollow'
         /\ order' \in [Orders -> OrderDoc \union {None}]
         /\ item' \in [Items -> ItemStatus \union {"none"}]
         /\ \A i \in Items : item'[i] # "none" => order'[OrderOf[i]] # None
         /\ UNCHANGED ticket => TicketsFollowOrder'
BY DEF IInv, TypeOK, Linked, ItemsFollowOrder, ReturnsFollowOrder,
       TicketsFollowOrder, SnapshotsFollow

LEMMA TicketsKept ==
  ASSUME IInv, UNCHANGED ticket,
         \A p \in Orders : order[p].status \in Completed => order'[p].status \in Completed
  PROVE  TicketsFollowOrder'
BY ItemsAssumption DEF IInv, TicketsFollowOrder

LEMMA StockStaysTyped ==
  ASSUME TypeOK, NEW its \in SUBSET Items
  PROVE  ReserveTickets(its) \in [Stocks -> Nat] /\ ReleaseTickets(its) \in [Stocks -> Nat]
<1>1. \A s \in Stocks : TaggedQuantity(its, s) \in Nat
  <2>1. \A s \in Stocks : {i \in its : StockOf[i] = s} \subseteq Items
    OBVIOUS
  <2> QED
    BY <2>1, ItemsAssumption, FS_Subset, FS_CardinalityType DEF TaggedQuantity
<1>2. \A n \in Nat : n * (WordModulus - 1) \in Nat
  <2>1. WordModulus - 1 \in Nat
    BY StockAssumption
  <2> QED
    BY <2>1
<1>3. \A s \in Stocks : stock[s] + TaggedQuantity(its, s) * (WordModulus - 1) \in Nat
  <2>1. \A m, n \in Nat : m + n \in Nat
    OBVIOUS
  <2>2. \A s \in Stocks : stock[s] \in Nat
    BY DEF TypeOK
  <2> QED
    BY <1>1, <1>2, <2>1, <2>2, Zenon
<1>4. \A s \in Stocks : stock[s] + TaggedQuantity(its, s) \in Nat
  BY <1>1 DEF TypeOK
<1> QED
  BY <1>3, <1>4 DEF ReserveTickets, ReleaseTickets

(* The parts of the invariant, primed.                                      *)
LEMMA InvariantFromParts ==
  ASSUME order' \in [Orders -> OrderDoc \union {None}],
         item' \in [Items -> ItemStatus \union {"none"}],
         bill' \in [Bills -> BillDoc \union {None}],
         stock' \in [Stocks -> Nat],
         ticket' \in [Items -> Seq(TicketStatus)],
         paymentEvents' \subseteq [action : {"create", "cancel", "refund"}, bill : Bills],
         task' \in [Orders -> {"none", "queued", "dropped"}],
         report' \in [Bills -> {"none", "success", "failure", "dropped"}],
         draft' \in [Bills -> [order : Orders, amount : Amounts] \union {None}],
         past' \in [Snapshots -> Snapshot \union {None}],
         \A i \in Items : item'[i] # "none" => order'[OrderOf[i]] # None,
         \A b \in Bills : bill'[b] # None =>
              /\ order'[bill'[b].order] # None
              /\ bill'[b].item # NoItem => OrderOf[bill'[b].item] = bill'[b].order,
         \A b \in Bills : draft'[b] # None => order'[draft'[b].order] # None /\ bill'[b] = None,
         \A o \in Orders : task'[o] # "none" => order'[o] # None,
         ItemsFollowOrder', ReturnsFollowOrder', TicketsFollowOrder',
         RefundFollowsItem', SnapshotsFollow'
  PROVE  IInv'
BY DEF IInv, TypeOK, Linked

(* No order disappears and no bill is made under the id of a draft.         *)
LEMMA DraftsStayLinked ==
  ASSUME IInv, UNCHANGED draft, BillsKept,
         \A p \in Orders : order[p] # None => order'[p] # None
  PROVE  /\ draft' \in [Bills -> [order : Orders, amount : Amounts] \union {None}]
         /\ \A b \in Bills : draft'[b] # None => order'[draft'[b].order] # None /\ bill'[b] = None
BY DEF IInv, TypeOK, Linked, BillsKept

-----------------------------------------------------------------------------
(* Every action keeps the invariant.                                        *)

LEMMA InitEstablishes == Init => IInv
<1> SUFFICES ASSUME Init PROVE IInv
  OBVIOUS
<1>1. TypeOK
  BY StockAssumption, EmptySeq DEF Init, TypeOK
<1>2. Linked
  BY ItemsAssumption DEF Init, Linked
<1>3. ItemsFollowOrder /\ ReturnsFollowOrder
  BY ItemsAssumption DEF Init, ItemsFollowOrder, ReturnsFollowOrder, Fulfilled
<1>4. TicketsFollowOrder /\ SnapshotsFollow
  BY DEF Init, TicketsFollowOrder, SnapshotsFollow
<1>5. RefundFollowsItem
  BY DEF Init, RefundFollowsItem, RefundsOf
<1> QED
  BY <1>1, <1>2, <1>3, <1>4, <1>5 DEF IInv

LEMMA AddOrderKeeps ==
  ASSUME IInv, NEW o \in Orders, NEW total \in Amounts, AddOrder(o, total)
  PROVE  IInv' /\ FinalStays
<1> DEFINE its == ItemsIn(o)
<1>a. /\ order[o] = None /\ order[o].status = "none"
      /\ order' = [order EXCEPT ![o] = NewOrder(total)]
      /\ item' = [i \in Items |-> IF OrderOf[i] = o THEN "pending_payment" ELSE item[i]]
      /\ stock' = ReserveTickets(its)
      /\ UNCHANGED <<ticket, task, report, draft, past>>
  BY DEF AddOrder, None
<1>b. NewOrder(total) \in OrderDoc /\ NewOrder(total).status = "unpaid" /\ NewOrder(total) # None
  BY BillsAssumption DEF NewOrder, OrderDoc, OrderStatus, None
<1>c. /\ order'[o] = NewOrder(total) /\ \A p \in Orders \ {o} : order'[p] = order[p]
      /\ \A p \in Orders : order[p] # None => order'[p] # None
  BY <1>a, <1>b DEF IInv, TypeOK
<1>d. PICK b \in FreshBills :
        /\ bill' = [bill EXCEPT ![b] = NewBill(o, "payment", total, NoItem, TRUE)]
        /\ paymentEvents' = paymentEvents \union {Event("create", b)}
  BY DEF AddOrder
<1>e. b \in Bills /\ bill[b] = None /\ draft'[b] = None
  BY <1>a DEF FreshBills
<1>1. order' \in [Orders -> OrderDoc \union {None}]
  BY <1>a, <1>b DEF IInv, TypeOK
<1>2. item' \in [Items -> ItemStatus \union {"none"}]
  BY <1>a DEF IInv, TypeOK, ItemStatus
<1>3. bill' \in [Bills -> BillDoc \union {None}] /\ BillsKept
  <2> DEFINE new == NewBill(o, "payment", total, NoItem, TRUE)
  <2>1. new \in BillDoc
    BY BillsAssumption DEF NewBill, BillDoc, BillStatus
  <2>2. new # None /\ new.order = o /\ new.item = NoItem
    BY <2>1, NoneIsNoDocument DEF NewBill
  <2>3. bill' = [bill EXCEPT ![b] = new]
    BY <1>d
  <2> HIDE DEF new
  <2> QED
    BY <1>b, <1>c, <1>e, <2>1, <2>2, <2>3 DEF BillsKept, IInv, TypeOK
<1>4. stock' \in [Stocks -> Nat]
  BY <1>a, StockStaysTyped, ItemsInFinite DEF IInv
<1>5. paymentEvents' \subseteq [action : {"create", "cancel", "refund"}, bill : Bills]
  BY <1>d, <1>e DEF Event, IInv, TypeOK
<1>6. \A i \in Items : OrderOf[i] = o => item[i] = "none"
  BY <1>a DEF IInv, Linked
<1>7. ItemsFollowOrder' /\ ReturnsFollowOrder'
  <2>1. \A i \in Items : OrderOf[i] = o => item'[i] = "pending_payment" /\ order'[OrderOf[i]].status = "unpaid"
    BY <1>a, <1>b, <1>c
  <2>2. \A i \in Items : OrderOf[i] # o => item'[i] = item[i] /\ order'[OrderOf[i]] = order[OrderOf[i]]
    BY <1>a, <1>c, ItemsAssumption
  <2>3. ItemsFollowOrder'
    BY <2>1, <2>2 DEF ItemsFollowOrder, IInv, PaidUp
  <2>4. ReturnsFollowOrder'
    BY <2>1, <2>2 DEF ReturnsFollowOrder, Fulfilled, IInv
  <2> QED
    BY <2>3, <2>4
<1>8. TicketsFollowOrder'
  BY <1>a, <1>c, TicketsKept DEF Completed, PaidUp
<1>9. RefundFollowsItem'
  <2>1. \A c \in Bills : bill[c] # None => bill'[c] = bill[c]
    BY <1>d, <1>e DEF IInv, TypeOK
  <2>2. \A i \in Items : item[i] \in {"return_approved", "returned"} => item'[i] = item[i]
    BY <1>a, <1>6
  <2> QED
    BY <1>3, <1>c, <2>1, <2>2, RefundsKept
<1>10. /\ \A i \in Items : item'[i] # "none" => order'[OrderOf[i]] # None
       /\ \A p \in Orders : task'[p] # "none" => order'[p] # None
  BY <1>a, <1>b, <1>c, ItemsAssumption DEF IInv, Linked
<1>11. ticket' \in [Items -> Seq(TicketStatus)]
       /\ task' \in [Orders -> {"none", "queued", "dropped"}]
       /\ report' \in [Bills -> {"none", "success", "failure", "dropped"}]
  BY <1>a DEF IInv, TypeOK
<1>12. FinalStays
  BY <1>a, <1>c, <1>6 DEF FinalStays
<1>13. past' \in [Snapshots -> Snapshot \union {None}] /\ SnapshotsFollow'
  <2>1. order[o].status \notin Completed
    BY <1>a DEF Completed, PaidUp
  <2>2. \A i \in Items \ ItemsIn(o) : item'[i] = item[i]
    BY <1>a DEF ItemsIn
  <2> QED
    BY <1>a, <1>c, <2>1, <2>2, SnapshotsUntouched
<1> QED
  BY <1>c, <1>12, <1>13, <1>1, <1>2, <1>3, <1>4, <1>5, <1>7, <1>8, <1>9, <1>10, <1>11,
     <1>a, DraftsStayLinked, BillsStayLinked, InvariantFromParts

LEMMA CancelOrderKeeps ==
  ASSUME IInv, NEW o \in Orders, CancelOrder(o)
  PROVE  IInv' /\ FinalStays
<1> DEFINE new == [order[o] EXCEPT !.status = "canceled"]
<1>a. /\ order[o].status = "unpaid"
      /\ order' = [order EXCEPT ![o] = new]
      /\ item' = [i \in Items |-> IF OrderOf[i] = o /\ item[i] = "pending_payment"
                                  THEN "canceled" ELSE item[i]]
      /\ stock' = ReleaseTickets(ItemsIn(o))
      /\ bill' = [b \in Bills |-> IF b \in PendingBillsOf(o)
                                  THEN [bill[b] EXCEPT !.status = "canceled"] ELSE bill[b]]
      /\ paymentEvents' = paymentEvents \union {Event("cancel", b) : b \in PendingBillsOf(o)}
      /\ UNCHANGED <<ticket, task, report, draft, past>>
  BY DEF CancelOrder, VoidUnpaidOrder
<1>b. order[o] \in OrderDoc /\ order[o] # None
  BY <1>a, OrderIsDocument DEF IInv, OrderStatus
<1>c. new \in OrderDoc /\ new # None /\ new.status = "canceled"
  <2>1. new \in OrderDoc /\ new.status = "canceled"
    BY <1>b DEF OrderDoc, OrderStatus
  <2> QED
    BY <2>1, NoneIsNoDocument
<1> HIDE DEF new
<1>d. /\ order'[o] = new /\ \A p \in Orders \ {o} : order'[p] = order[p]
      /\ \A p \in Orders : order[p] # None => order'[p] # None
  BY <1>a, <1>c DEF IInv, TypeOK
<1>1. order' \in [Orders -> OrderDoc \union {None}]
  BY <1>a, <1>c DEF IInv, TypeOK
<1>2. item' \in [Items -> ItemStatus \union {"none"}]
  BY <1>a DEF IInv, TypeOK, ItemStatus
<1>3. \A b \in PendingBillsOf(o) : b \in Bills /\ bill[b] \in BillDoc /\ bill[b].status = "pending"
  BY BillIsDocument DEF PendingBillsOf, BillsOf, IInv
<1>4. \A b \in PendingBillsOf(o) :
        /\ bill'[b] \in BillDoc /\ bill'[b].status = "canceled"
        /\ bill'[b].order = bill[b].order /\ bill'[b].item = bill[b].item
  <2> SUFFICES ASSUME NEW b \in PendingBillsOf(o)
               PROVE  /\ bill'[b] \in BillDoc /\ bill'[b].status = "canceled"
                      /\ bill'[b].order = bill[b].order /\ bill'[b].item = bill[b].item
    OBVIOUS
  <2>1. bill'[b] = [bill[b] EXCEPT !.status = "canceled"]
    BY <1>a, <1>3
  <2>2. bill[b] \in BillDoc
    BY <1>3
  <2> QED
    BY <2>1, <2>2 DEF BillDoc, BillStatus
<1>5. \A b \in Bills \ PendingBillsOf(o) : bill'[b] = bill[b]
  BY <1>a
<1>6. bill' \in [Bills -> BillDoc \union {None}]
  <2>1. \A b \in Bills : bill'[b] \in BillDoc \union {None}
    BY <1>4, <1>5 DEF IInv, TypeOK
  <2> QED
    BY <1>a, <2>1
<1>7. BillsKept
  BY <1>3, <1>4, <1>5, NoneIsNoDocument DEF BillsKept
<1>8. stock' \in [Stocks -> Nat]
  BY <1>a, StockStaysTyped, ItemsInFinite DEF IInv
<1>9. paymentEvents' \subseteq [action : {"create", "cancel", "refund"}, bill : Bills]
  BY <1>a, <1>3 DEF Event, IInv, TypeOK
<1>10. ItemsFollowOrder' /\ ReturnsFollowOrder'
  <2>1. \A i \in Items : OrderOf[i] = o => item[i] \in {"pending_payment", "canceled"}
    BY <1>a, <1>b DEF IInv, ItemsFollowOrder, PaidUp
  <2>2. \A i \in Items : OrderOf[i] = o => item'[i] = "canceled" /\ order'[OrderOf[i]].status = "canceled"
    BY <1>a, <1>c, <1>d, <2>1
  <2>3. \A i \in Items : OrderOf[i] # o => item'[i] = item[i] /\ order'[OrderOf[i]] = order[OrderOf[i]]
    BY <1>a, <1>d, ItemsAssumption
  <2>4. ItemsFollowOrder'
    BY <2>2, <2>3 DEF ItemsFollowOrder, IInv
  <2>5. ReturnsFollowOrder'
    BY <2>2, <2>3 DEF ReturnsFollowOrder, Fulfilled, IInv
  <2> QED
    BY <2>4, <2>5
<1>11. TicketsFollowOrder'
  BY <1>a, <1>d, TicketsKept DEF Completed, PaidUp
<1>12. RefundFollowsItem'
  <2>1. \A b \in Bills : bill'[b].status = "refunded" <=> bill[b].status = "refunded"
    BY <1>3, <1>4, <1>5
  <2>2. \A i \in Items : item[i] \in {"return_approved", "returned"} => item'[i] = item[i]
    BY <1>a
  <2> QED
    BY <1>7, <1>d, <2>1, <2>2, RefundsKept
<1>13. /\ \A i \in Items : item'[i] # "none" => order'[OrderOf[i]] # None
       /\ \A p \in Orders : task'[p] # "none" => order'[p] # None
  BY <1>a, <1>d, ItemsAssumption DEF IInv, Linked
<1>14. /\ ticket' \in [Items -> Seq(TicketStatus)]
       /\ task' \in [Orders -> {"none", "queued", "dropped"}]
       /\ report' \in [Bills -> {"none", "success", "failure", "dropped"}]
  BY <1>a DEF IInv, TypeOK
<1>15. FinalStays
  BY <1>a, <1>c, <1>d DEF FinalStays
<1>16. past' \in [Snapshots -> Snapshot \union {None}] /\ SnapshotsFollow'
  <2>1. order[o].status \notin Completed
    BY <1>a DEF Completed, PaidUp
  <2>2. \A i \in Items \ ItemsIn(o) : item'[i] = item[i]
    BY <1>a DEF ItemsIn
  <2> QED
    BY <1>a, <1>d, <2>1, <2>2, SnapshotsUntouched
<1> QED
  BY <1>d, <1>15, <1>16, <1>1, <1>2, <1>6, <1>7, <1>8, <1>9, <1>10, <1>11, <1>12, <1>13, <1>14,
     <1>a, DraftsStayLinked, BillsStayLinked, InvariantFromParts

(* An item update commits r on v.  `new` is the document it starts from,    *)
(* with what else its transaction has changed of it, `wrote` what it writes.*)
UpdatesItem(i, v, status, new, wrote, r, bills) ==
  /\ v \in Views(OrderOf[i]) /\ v.items[i] # "none"
  /\ status \in ItemStatus
  /\ new \in OrderDoc /\ new.status = v.order.status
  /\ wrote \in SUBSET ({OrderOf[i]} \union ItemsIn(OrderOf[i])) /\ i \in wrote
  /\ OrderOf[i] \in wrote \/ (new = v.order /\ status # "canceled")
  /\ r = UpdateOrderItemStatus(new, v.items, i, status, Price[i])
  /\ CommitResult(v, r, wrote, bills)

(* It comes to a result R on the present document ord and the present items.*)
UpdateRebased(i, v, status, new, wrote, r, bills, ord, R) ==
  /\ ord.status = order[OrderOf[i]].status
  /\ IF OrderOf[i] \in wrote
     THEN ord = IF status = "canceled" THEN [new EXCEPT !.total = @ - Price[i]] ELSE new
     ELSE ord = order[OrderOf[i]]
  /\ RecalculationEffect(ord, [StatusesIn(OrderOf[i]) EXCEPT ![i] = status], R)
  /\ Written(OrderOf[i], R, bills)
  /\ R.refund = r.refund
  /\ IF v = Now(OrderOf[i]) THEN R = r
     ELSE /\ order[OrderOf[i]].status \in Completed
          /\ R.items = [StatusesIn(OrderOf[i]) EXCEPT ![i] = status]

LEMMA ItemUpdateOnView ==
  ASSUME IInv, NEW i \in Items, NEW v, NEW status, NEW new, NEW wrote, NEW r, NEW bills,
         UpdatesItem(i, v, status, new, wrote, r, bills)
  PROVE  /\ item[i] = v.items[i]
         /\ order[OrderOf[i]] \in OrderDoc
         /\ OrderOf[i] \in wrote => v.order = order[OrderOf[i]]
         /\ r.refund \in SUBSET Int
         /\ \E ord \in OrderDoc : \E R : UpdateRebased(i, v, status, new, wrote, r, bills, ord, R)
<1> USE DEF UpdatesItem
<1> DEFINE o     == OrderOf[i]
           moved == [v.items EXCEPT ![i] = status]
           now   == [StatusesIn(o) EXCEPT ![i] = status]
<1>1. o \in Orders /\ i \in ItemsIn(o) /\ Price[i] \in Nat /\ IsFiniteSet(ItemsIn(o))
  BY ItemsAssumption, ItemsInFinite DEF ItemsIn
<1>2. /\ v.of = o /\ v.items \in [ItemsIn(o) -> ItemStatusOrNone]
      /\ v.order \in OrderDoc <=> order[o] \in OrderDoc
      /\ v # Now(o) => order[o].status \in Completed
      /\ v = Now(o) => \A j \in ItemsIn(o) : v.items[j] = item[j]
      /\ o \notin v.missed => v.order = order[o]
      /\ \A j \in ItemsIn(o) \ v.missed : v.items[j] = item[j]
  BY <1>1, ViewIsTyped
<1>3. r.verdict = "commit" /\ \A d \in wrote : d \notin v.missed
  BY DEF CommitResult
<1>4. item[i] = v.items[i] /\ (o \in wrote => v.order = order[o])
  BY <1>1, <1>2, <1>3
<1>5. order[o] \in OrderDoc
  BY <1>1, <1>4, OrderIsDocument DEF IInv, Linked
<1>6. UpdateOrderItemStatus(new, v.items, i, status, Price[i]).verdict = "commit"
  BY <1>3
<1>7. PICK reduced \in OrderDoc :
        /\ reduced.status = new.status
        /\ reduced = IF status = "canceled" THEN [new EXCEPT !.total = @ - Price[i]] ELSE new
        /\ RecalculationEffect(reduced, moved,
                               UpdateOrderItemStatus(new, v.items, i, status, Price[i]))
  <2>1. new \in OrderDoc /\ status \in ItemStatus
    OBVIOUS
  <2> QED
    BY ONLY <1>1, <1>2, <1>6, <2>1, ItemUpdateIsSound
<1>8. RecalculationEffect(reduced, moved, r)
  BY <1>7
<1>9. /\ moved \in [ItemsIn(o) -> ItemStatusOrNone] /\ moved[i] = status
      /\ \A j \in ItemsIn(o) \ {i} : moved[j] = v.items[j]
  BY <1>1, <1>2 DEF ItemStatusOrNone
<1>10. /\ StatusesIn(o) \in [ItemsIn(o) -> ItemStatusOrNone]
       /\ \A j \in ItemsIn(o) : StatusesIn(o)[j] = item[j]
  BY <1>1, StatusesInType DEF IInv
<1>11. o \in wrote \/ reduced = v.order
  BY <1>7
<1>12. reduced.status = v.order.status
  BY <1>7
<1>13. r.refund \in SUBSET Int
  BY <1>8 DEF RecalculationEffect
<1> HIDE DEF moved, o
<1>14. \E ord \in OrderDoc, its \in [ItemsIn(o) -> ItemStatusOrNone] : \E R :
         /\ Rebased(v, o, reduced, moved, wrote, ord, its)
         /\ RecalculationEffect(ord, its, R)
         /\ Written(o, R, bills)
         /\ R.refund = r.refund
         /\ IF v = Now(o) THEN ord = reduced /\ its = moved /\ R = r
            ELSE order[o].status \in Completed /\ R.items = its
  <2>1. v \in Views(o) /\ wrote \in SUBSET ({o} \union ItemsIn(o))
    BY DEF o
  <2> QED
    BY <1>1, <1>5, <1>8, <1>9, <1>11, <1>12, <2>1, CommittedOnView
<1>15. PICK ord \in OrderDoc, its \in [ItemsIn(o) -> ItemStatusOrNone] : \E R :
         /\ Rebased(v, o, reduced, moved, wrote, ord, its)
         /\ RecalculationEffect(ord, its, R)
         /\ Written(o, R, bills)
         /\ R.refund = r.refund
         /\ IF v = Now(o) THEN ord = reduced /\ its = moved /\ R = r
            ELSE order[o].status \in Completed /\ R.items = its
  BY <1>14
<1>16. PICK R :
         /\ Rebased(v, o, reduced, moved, wrote, ord, its)
         /\ RecalculationEffect(ord, its, R)
         /\ Written(o, R, bills)
         /\ R.refund = r.refund
         /\ IF v = Now(o) THEN ord = reduced /\ its = moved /\ R = r
            ELSE order[o].status \in Completed /\ R.items = its
  BY <1>15
<1>17. its = now
  <2>1. ASSUME NEW j \in ItemsIn(o) PROVE its[j] = now[j]
    <3>1. CASE j = i
      BY <1>1, <1>9, <1>10, <1>16, <3>1 DEF Rebased
    <3>2. CASE j # i
      BY <1>9, <1>10, <1>16, <3>2 DEF Rebased
    <3> QED
      BY <3>1, <3>2
  <2>2. now \in [ItemsIn(o) -> ItemStatusOrNone]
    BY <1>10 DEF ItemStatusOrNone
  <2> HIDE DEF now
  <2> QED
    BY <2>1, <2>2
<1>18. /\ ord.status = order[o].status
       /\ IF o \in wrote
          THEN ord = IF status = "canceled" THEN [new EXCEPT !.total = @ - Price[i]] ELSE new
          ELSE ord = order[o]
  <2>1. o \in wrote => ord = reduced
    BY <1>16 DEF Rebased
  <2>2. ord.status = order[o].status /\ (o \notin wrote => ord = order[o])
    BY <1>16 DEF Rebased
  <2> QED
    BY <1>7, <2>1, <2>2
<1> HIDE DEF now
<1>19. /\ RecalculationEffect(ord, now, R)
       /\ Written(o, R, bills)
       /\ R.refund = r.refund
       /\ IF v = Now(o) THEN R = r ELSE order[o].status \in Completed /\ R.items = now
  BY <1>16, <1>17
<1>20. UpdateRebased(i, v, status, new, wrote, r, bills, ord, R)
  BY <1>18, <1>19 DEF UpdateRebased, now, o
<1> QED
  BY <1>4, <1>5, <1>13, <1>20 DEF o

(* What an item update keeps.                                               *)
LEMMA UpdatedItemKeeps ==
  ASSUME IInv, NEW i \in Items, NEW v, NEW status, NEW new, NEW wrote, NEW r, NEW bills,
         UpdatesItem(i, v, status, new, wrote, r, bills),
         status \in {"canceled", "return_requested", "return_approved", "delivered", "returned"},
         CanUpdateOrderItemStatus(v.items[i], status)
  PROVE  /\ order' \in [Orders -> OrderDoc \union {None}]
         /\ item' \in [Items -> ItemStatus \union {"none"}]
         /\ task' \in [Orders -> {"none", "queued", "dropped"}]
         /\ past' \in [Snapshots -> Snapshot \union {None}]
         /\ SnapshotsFollow'
         /\ \A p \in Orders : order[p] # None => order'[p] # None
         /\ \A p \in Orders : task'[p] # "none" => order'[p] # None
         /\ \A j \in Items : item'[j] # "none" => order'[OrderOf[j]] # None
         /\ ItemsFollowOrder'
         /\ ReturnsFollowOrder'
         /\ \A p \in Orders : order[p].status \in Completed => order'[p].status \in Completed
         /\ \A p \in Orders : order[p].status \in {"canceled", "returned"}
                              => order'[p].status = order[p].status
         /\ OpenRefundBill(OrderOf[i], r.refund, bills)
         /\ r.refund \in SUBSET Int
         /\ \A j \in Items \ {i} :
              item'[j] = item[j] \/ (item[j] = "pending_payment" /\ item'[j] = "paid")
         /\ item'[i] = status
         /\ item[i] = v.items[i]
<1> DEFINE o   == OrderOf[i]
           its == [StatusesIn(o) EXCEPT ![i] = status]
<1>a. o \in Orders /\ i \in ItemsIn(o)
  BY ItemsAssumption DEF ItemsIn
<1>b. /\ item[i] = v.items[i] /\ order[o] \in OrderDoc /\ r.refund \in SUBSET Int
      /\ \E ord \in OrderDoc : \E R : UpdateRebased(i, v, status, new, wrote, r, bills, ord, R)
  BY ItemUpdateOnView
<1>c. PICK ord \in OrderDoc : \E R : UpdateRebased(i, v, status, new, wrote, r, bills, ord, R)
  BY <1>b
<1>d. PICK R : /\ ord.status = order[o].status
               /\ RecalculationEffect(ord, its, R)
               /\ Written(o, R, bills)
               /\ R.refund = r.refund
  BY <1>c DEF UpdateRebased
<1>e. /\ StatusesIn(o) \in [ItemsIn(o) -> ItemStatusOrNone]
      /\ \A j \in ItemsIn(o) : StatusesIn(o)[j] = item[j]
  BY <1>a, StatusesInType DEF IInv
<1>g. /\ its \in [ItemsIn(o) -> ItemStatusOrNone] /\ its[i] = status
      /\ \A j \in ItemsIn(o) \ {i} : its[j] = item[j]
  BY <1>a, <1>e DEF ItemStatusOrNone, UpdatesItem
<1> HIDE DEF its
<1>2. item[i] \in SourcesOf(status)
  BY <1>b DEF CanUpdateOrderItemStatus
<1>3. ASSUME NEW j \in ItemsIn(o)
      PROVE  IF ord.status \in PaidUp THEN its[j] # "pending_payment"
             ELSE its[j] \in {"pending_payment", "canceled"}
  <2>1. OrderOf[j] = o /\ j \in Items
    BY DEF ItemsIn
  <2>2. IF order[o].status \in PaidUp THEN item[j] # "pending_payment"
        ELSE item[j] \in {"pending_payment", "canceled"}
    BY <1>b, <2>1, NoneIsNoDocument DEF IInv, ItemsFollowOrder
  <2>3. CASE j # i
    BY <1>d, <1>g, <2>2, <2>3
  <2>4. CASE j = i
    <3>1. status = "canceled" => item[i] = "pending_payment"
      BY <1>2 DEF SourcesOf
    <3>2. status \in {"delivered", "return_requested", "return_approved", "returned"}
            => item[i] \in {"delivered", "return_requested", "return_approved", "paid"}
      BY <1>2 DEF SourcesOf
    <3> QED
      BY <1>d, <1>g, <2>2, <2>4, <3>1, <3>2
  <2> QED
    BY <2>3, <2>4
<1>4. /\ order' \in [Orders -> OrderDoc \union {None}]
      /\ item' \in [Items -> ItemStatus \union {"none"}]
      /\ task' \in [Orders -> {"none", "queued", "dropped"}]
      /\ \A p \in Orders : order[p] # None => order'[p] # None
      /\ \A p \in Orders : task'[p] # "none" => order'[p] # None
      /\ \A j \in Items : item'[j] # "none" => order'[OrderOf[j]] # None
      /\ ItemsFollowOrder'
      /\ ReturnsFollowOrder'
      /\ \A p \in Orders : order[p].status \in Completed => order'[p].status \in Completed
      /\ \A p \in Orders : order[p].status \in {"canceled", "returned"}
                           => order'[p].status = order[p].status
  BY <1>a, <1>b, <1>d, <1>g, <1>3, CommitResultKeeps
<1>5. past' \in [Snapshots -> Snapshot \union {None}] /\ SnapshotsFollow'
  BY <1>a, <1>4, CommitKeepsSnapshots DEF UpdatesItem
<1>6. \A j \in ItemsIn(o) : \/ R.items[j] = its[j]
                            \/ its[j] = "pending_payment" /\ R.items[j] = "paid"
  BY <1>d, <1>g DEF RecalculationEffect, UpdateItemsStatusByOrder
<1>7. /\ \A j \in ItemsIn(o) : item'[j] = R.items[j]
      /\ \A j \in Items \ ItemsIn(o) : item'[j] = item[j]
      /\ OpenRefundBill(o, r.refund, bills)
  BY <1>d DEF Written, ItemsIn
<1>8. /\ item'[i] = status
      /\ \A j \in Items \ {i} :
           item'[j] = item[j] \/ (item[j] = "pending_payment" /\ item'[j] = "paid")
  <2>1. item'[i] = status
    BY <1>a, <1>g, <1>6, <1>7
  <2>2. ASSUME NEW j \in Items \ {i}
        PROVE  item'[j] = item[j] \/ (item[j] = "pending_payment" /\ item'[j] = "paid")
    <3>1. CASE j \in ItemsIn(o)
      <4>1. its[j] = item[j]
        BY <1>g, <3>1
      <4>2. item'[j] = R.items[j]
        BY <1>7, <3>1
      <4>3. R.items[j] = its[j] \/ (its[j] = "pending_payment" /\ R.items[j] = "paid")
        BY <1>6, <3>1
      <4> QED
        BY <4>1, <4>2, <4>3
    <3>2. CASE j \notin ItemsIn(o)
      BY <1>7, <3>2
    <3> QED
      BY <3>1, <3>2
  <2> QED
    BY <2>1, <2>2
<1> QED
  BY <1>4, <1>5, <1>7, <1>8, <1>b

(* The view an item update is committed on.                                 *)
LEMMA UpdateItemCommits ==
  ASSUME IInv, NEW i \in Items,
         NEW status \in {"canceled", "return_requested", "return_approved", "delivered"},
         UpdateItem(i, status)
  PROVE  /\ OrderOf[i] \in Orders
         /\ \E v, wrote, r :
              /\ UpdatesItem(i, v, status, v.order, wrote, r, bill)
              /\ CanUpdateOrderItemStatus(v.items[i], status)
              /\ wrote = IF status = "canceled" THEN {i, OrderOf[i]} ELSE {i}
         /\ stock' = IF status = "canceled" THEN ReleaseTickets({i}) ELSE stock
         /\ UNCHANGED <<ticket, paymentEvents, report, draft>>
<1>1. OrderOf[i] \in Orders /\ i \in ItemsIn(OrderOf[i]) /\ status \in ItemStatus
  BY ItemsAssumption DEF ItemsIn, ItemStatus
<1>2. PICK v \in Views(OrderOf[i]) :
        /\ v.items[i] # "none"
        /\ CanUpdateOrderItemStatus(v.items[i], status)
        /\ CommitResult(v, UpdateOrderItemStatus(v.order, v.items, i, status, Price[i]),
                        IF status = "canceled" THEN {i, v.of} ELSE {i}, bill)
        /\ stock' = IF status = "canceled" THEN ReleaseTickets({i}) ELSE stock
        /\ UNCHANGED <<ticket, paymentEvents, report, draft>>
  BY DEF UpdateItem
<1>3. v.order \in OrderDoc /\ v.of = OrderOf[i]
  <2>1. CASE v = Now(OrderOf[i])
    <3>1. v.items[i] = item[i]
      BY <1>1, <2>1, ViewIsTyped
    <3>2. order[OrderOf[i]] \in OrderDoc
      BY <1>1, <1>2, <3>1, OrderIsDocument DEF IInv, Linked
    <3> QED
      BY <1>1, <3>2, ViewIsTyped
  <2>2. CASE v # Now(OrderOf[i])
    <3>1. order[OrderOf[i]].status \in OrderStatus
      BY <1>1, <2>2, ViewIsTyped DEF Completed, PaidUp, OrderStatus
    <3> QED
      BY <1>1, <3>1, ViewIsTyped, OrderIsDocument DEF IInv
  <2> QED
    BY <2>1, <2>2
<1> DEFINE wrote == IF status = "canceled" THEN {i, OrderOf[i]} ELSE {i}
           r     == UpdateOrderItemStatus(v.order, v.items, i, status, Price[i])
<1>4. /\ wrote \in SUBSET ({OrderOf[i]} \union ItemsIn(OrderOf[i])) /\ i \in wrote
      /\ status = "canceled" => OrderOf[i] \in wrote
  BY <1>1
<1>5. /\ r = UpdateOrderItemStatus(v.order, v.items, i, status, Price[i])
      /\ wrote = IF status = "canceled" THEN {i, OrderOf[i]} ELSE {i}
      /\ CommitResult(v, r, wrote, bill)
  BY <1>2, <1>3
<1> HIDE DEF wrote, r
<1>6. UpdatesItem(i, v, status, v.order, wrote, r, bill)
  BY <1>1, <1>2, <1>3, <1>4, <1>5 DEF UpdatesItem
<1> QED
  BY <1>1, <1>2, <1>5, <1>6

LEMMA UpdateItemKeeps ==
  ASSUME IInv, NEW i \in Items,
         NEW status \in {"canceled", "return_requested", "return_approved", "delivered"},
         UpdateItem(i, status)
  PROVE  IInv' /\ FinalStays
<1> DEFINE o == OrderOf[i]
<1>a. /\ o \in Orders
      /\ stock' = IF status = "canceled" THEN ReleaseTickets({i}) ELSE stock
      /\ UNCHANGED <<ticket, paymentEvents, report, draft>>
  BY UpdateItemCommits
<1>b. PICK v, wrote, r : /\ UpdatesItem(i, v, status, v.order, wrote, r, bill)
                        /\ CanUpdateOrderItemStatus(v.items[i], status)
  BY UpdateItemCommits
<1>1. /\ order' \in [Orders -> OrderDoc \union {None}]
      /\ item' \in [Items -> ItemStatus \union {"none"}]
      /\ task' \in [Orders -> {"none", "queued", "dropped"}]
      /\ past' \in [Snapshots -> Snapshot \union {None}]
      /\ SnapshotsFollow'
      /\ \A p \in Orders : order[p] # None => order'[p] # None
      /\ \A p \in Orders : task'[p] # "none" => order'[p] # None
      /\ \A j \in Items : item'[j] # "none" => order'[OrderOf[j]] # None
      /\ ItemsFollowOrder'
      /\ ReturnsFollowOrder'
      /\ \A p \in Orders : order[p].status \in Completed => order'[p].status \in Completed
      /\ \A p \in Orders : order[p].status \in {"canceled", "returned"}
                           => order'[p].status = order[p].status
      /\ OpenRefundBill(o, r.refund, bill)
      /\ r.refund \in SUBSET Int
      /\ \A j \in Items \ {i} :
           item'[j] = item[j] \/ (item[j] = "pending_payment" /\ item'[j] = "paid")
      /\ item[i] = v.items[i]
  BY <1>b, UpdatedItemKeeps
<1>2. bill' \in [Bills -> BillDoc \union {None}] /\ BillsKept
      /\ \A b \in Bills : bill[b] # None => bill'[b] = bill[b]
  <2>1. order[o] # None
    <3>1. item[i] # "none"
      BY <1>b, <1>1 DEF UpdatesItem
    <3> QED
      BY <3>1 DEF IInv, Linked
  <2>2. order'[o] # None /\ bill \in [Bills -> BillDoc \union {None}]
    BY <1>a, <1>1, <2>1 DEF IInv, TypeOK
  <2> QED
    BY <1>a, <1>1, <2>2, OpenedRefundBill
<1>3. stock' \in [Stocks -> Nat]
  BY <1>a, StockStaysTyped DEF IInv, TypeOK
<1>4. TicketsFollowOrder'
  BY <1>a, <1>1, TicketsKept
<1>5. item[i] \notin {"return_approved", "returned", "canceled"}
  BY <1>b, <1>1 DEF CanUpdateOrderItemStatus, SourcesOf
<1>6. RefundFollowsItem'
  BY <1>1, <1>2, <1>5, RefundsKept
<1>7. /\ ticket' \in [Items -> Seq(TicketStatus)]
      /\ paymentEvents' \subseteq [action : {"create", "cancel", "refund"}, bill : Bills]
      /\ report' \in [Bills -> {"none", "success", "failure", "dropped"}]
  BY <1>a DEF IInv, TypeOK
<1>8. FinalStays
  BY <1>1, <1>5 DEF FinalStays
<1> QED
  BY <1>8, <1>a, <1>1, <1>2, <1>3, <1>4, <1>6, <1>7, DraftsStayLinked, BillsStayLinked,
     InvariantFromParts

LEMMA ValidateBillKeeps ==
  ASSUME IInv, NEW o \in Orders, NEW amount \in Amounts, ValidateBill(o, amount)
  PROVE  IInv'
<1>1. order[o] # None
  BY DEF ValidateBill, None
<1>2. PICK b \in FreshBills : draft' = [draft EXCEPT ![b] = [order |-> o, amount |-> amount]]
  BY DEF ValidateBill
<1>3. UNCHANGED <<order, item, bill, stock, ticket, paymentEvents, task, report, past>>
  BY DEF ValidateBill
<1>4. /\ draft' \in [Bills -> [order : Orders, amount : Amounts] \union {None}]
      /\ \A c \in Bills : draft'[c] # None => order'[draft'[c].order] # None /\ bill'[c] = None
  BY <1>1, <1>2, <1>3 DEF FreshBills, IInv, TypeOK, Linked
<1>5. RefundFollowsItem'
  BY <1>3 DEF IInv, RefundFollowsItem, RefundsOf
<1>6. TypeOK'
  BY <1>3, <1>4 DEF IInv, TypeOK
<1>7. Linked'
  BY <1>3, <1>4 DEF IInv, Linked
<1> QED
  BY <1>3, <1>5, <1>6, <1>7, OrdersUnchanged DEF IInv

(* A step of the bills alone.                                               *)
LEMMA BillStepKeeps ==
  ASSUME IInv, UNCHANGED <<order, item, stock, ticket, task, past>>,
         bill' \in [Bills -> BillDoc \union {None}],
         paymentEvents' \subseteq [action : {"create", "cancel", "refund"}, bill : Bills],
         report' \in [Bills -> {"none", "success", "failure", "dropped"}],
         draft' \in [Bills -> [order : Orders, amount : Amounts] \union {None}],
         BillsKept,
         \A b \in Bills : draft'[b] # None => order'[draft'[b].order] # None /\ bill'[b] = None,
         \A b \in Bills : bill[b] # None /\ bill[b].item # NoItem
           => (bill'[b].status = "refunded" <=> bill[b].status = "refunded")
  PROVE  IInv'
<1>1. RefundFollowsItem'
  BY RefundsKept
<1>2. /\ stock' \in [Stocks -> Nat]
      /\ ticket' \in [Items -> Seq(TicketStatus)]
      /\ task' \in [Orders -> {"none", "queued", "dropped"}]
      /\ \A o \in Orders : task'[o] # "none" => order'[o] # None
  BY DEF IInv, TypeOK, Linked
<1> QED
  BY <1>1, <1>2, OrdersUnchanged, BillsStayLinked, InvariantFromParts

LEMMA CreateBillKeeps ==
  ASSUME IInv, NEW b \in Bills, CreateBill(b)
  PROVE  IInv'
<1> DEFINE new == NewBill(draft[b].order, "payment", draft[b].amount, NoItem, TRUE)
<1>1. /\ draft[b] # None /\ draft' = [draft EXCEPT ![b] = None]
      /\ bill' = [bill EXCEPT ![b] = new]
      /\ paymentEvents' = paymentEvents \union {Event("create", b)}
      /\ UNCHANGED <<order, item, stock, ticket, task, report, past>>
  BY DEF CreateBill
<1>2. /\ draft[b] \in [order : Orders, amount : Amounts]
      /\ order[draft[b].order] # None /\ bill[b] = None
  BY <1>1 DEF IInv, TypeOK, Linked
<1>3. new \in BillDoc
  <2>1. draft[b].order \in Orders /\ draft[b].amount \in Int
    <3>1. draft[b].order \in Orders /\ draft[b].amount \in Amounts
      BY ONLY <1>2
    <3>2. \A a \in Amounts : a \in Int
      BY BillsAssumption
    <3> QED
      BY ONLY <3>1, <3>2
  <2>2. ASSUME NEW o \in Orders, NEW a \in Int
        PROVE  NewBill(o, "payment", a, NoItem, TRUE) \in BillDoc
    BY DEF NewBill, BillDoc, BillStatus
  <2> QED
    BY ONLY <2>1, <2>2
<1>4. new # None /\ new.order = draft[b].order /\ new.item = NoItem
  BY <1>3, NoneIsNoDocument DEF NewBill
<1> HIDE DEF new
<1>5. bill' \in [Bills -> BillDoc \union {None}] /\ bill'[b] = new
      /\ \A c \in Bills \ {b} : bill'[c] = bill[c]
  BY <1>1, <1>3 DEF IInv, TypeOK
<1>6. draft' \in [Bills -> [order : Orders, amount : Amounts] \union {None}] /\ draft'[b] = None
      /\ \A c \in Bills \ {b} : draft'[c] = draft[c]
  BY <1>1 DEF IInv, TypeOK
<1>7. \A c \in Bills : draft'[c] # None => order'[draft'[c].order] # None /\ bill'[c] = None
  BY <1>1, <1>5, <1>6 DEF IInv, Linked
<1>8. BillsKept
  BY <1>1, <1>2, <1>4, <1>5, <1>6 DEF BillsKept
<1>9. \A c \in Bills : bill[c] # None => bill'[c] = bill[c]
  BY <1>2, <1>5
<1>10. /\ paymentEvents' \subseteq [action : {"create", "cancel", "refund"}, bill : Bills]
       /\ report' \in [Bills -> {"none", "success", "failure", "dropped"}]
  BY <1>1 DEF IInv, TypeOK, Event
<1> QED
  BY <1>1, <1>5, <1>6, <1>7, <1>8, <1>9, <1>10, BillStepKeeps

(* A pending bill is moved to another status, no refund is settled.         *)
LEMMA SettledBillKeeps ==
  ASSUME IInv, NEW b \in Bills, bill[b].status = "pending", NEW status \in {"canceled", "failed"},
         bill' = Settled(b, status),
         paymentEvents' \subseteq [action : {"create", "cancel", "refund"}, bill : Bills],
         UNCHANGED <<order, item, stock, ticket, task, report, draft, past>>
  PROVE  IInv'
<1>1. bill[b] \in BillDoc /\ status \in BillStatus
  BY BillIsDocument DEF IInv, BillStatus
<1>2. /\ bill' \in [Bills -> BillDoc \union {None}]
      /\ bill'[b] \in BillDoc /\ bill'[b].status = status
      /\ bill'[b].order = bill[b].order /\ bill'[b].item = bill[b].item
      /\ \A c \in Bills \ {b} : bill'[c] = bill[c]
  BY <1>1, SettledBill DEF IInv
<1>3. BillsKept
  BY <1>1, <1>2, NoneIsNoDocument DEF BillsKept
<1>4. \A c \in Bills : bill'[c].status = "refunded" <=> bill[c].status = "refunded"
  BY <1>2
<1>5. report' \in [Bills -> {"none", "success", "failure", "dropped"}]
  BY DEF IInv, TypeOK
<1>6. \A p \in Orders : order[p] # None => order'[p] # None
  OBVIOUS
<1> QED
  BY <1>2, <1>3, <1>4, <1>5, <1>6, DraftsStayLinked, BillStepKeeps

LEMMA CancelBillKeeps ==
  ASSUME IInv, NEW b \in Bills, CancelBill(b)
  PROVE  IInv'
<1>1. /\ bill[b].status = "pending" /\ bill' = Settled(b, "canceled")
      /\ UNCHANGED <<order, item, stock, ticket, task, report, draft, past>>
  BY DEF CancelBill, Settled
<1>2. paymentEvents' \subseteq [action : {"create", "cancel", "refund"}, bill : Bills]
  BY DEF CancelBill, Event, IInv, TypeOK
<1> QED
  BY <1>1, <1>2, SettledBillKeeps

LEMMA SettlementFailedKeeps ==
  ASSUME IInv, NEW b \in Bills, bill[b].status = "pending", SettlementFailed(b)
  PROVE  IInv'
BY SettledBillKeeps DEF SettlementFailed, IInv, TypeOK

(* A step of the messages alone.                                            *)
LEMMA MessageStepKeeps ==
  ASSUME IInv, UNCHANGED <<order, item, bill, stock, ticket, paymentEvents, draft, past>>,
         task' \in [Orders -> {"none", "queued", "dropped"}],
         \A o \in Orders : task'[o] # "none" => order[o] # None,
         report' \in [Bills -> {"none", "success", "failure", "dropped"}]
  PROVE  IInv'
<1>1. RefundFollowsItem'
  BY DEF IInv, RefundFollowsItem, RefundsOf
<1>2. TypeOK'
  BY DEF IInv, TypeOK
<1>3. Linked'
  BY DEF IInv, Linked
<1> QED
  BY <1>1, <1>2, <1>3, OrdersUnchanged DEF IInv

LEMMA PaymentServiceReportsKeeps ==
  ASSUME IInv, NEW b \in Bills, PaymentServiceReports(b)
  PROVE  IInv'
BY MessageStepKeeps DEF PaymentServiceReports, IInv, TypeOK, Linked

LEMMA AbandonTicketTaskKeeps ==
  ASSUME IInv, NEW o \in Orders, AbandonTicketTask(o)
  PROVE  IInv'
BY MessageStepKeeps DEF AbandonTicketTask, IInv, TypeOK, Linked

LEMMA CreateRefundBillKeeps ==
  ASSUME IInv, NEW i \in Items, NEW amount \in Amounts, CreateRefundBill(i, amount)
  PROVE  IInv' /\ FinalStays
<1> DEFINE o   == OrderOf[i]
           new == NewBill(o, "refund", amount, i, TRUE)
<1>a. /\ item[i] = "return_requested"
      /\ item' = [item EXCEPT ![i] = "return_approved"]
      /\ UNCHANGED <<stock, ticket, task, report, draft>>
  BY DEF CreateRefundBill
<1>b. PICK b \in FreshBills : /\ bill' = [bill EXCEPT ![b] = new]
                             /\ paymentEvents' = paymentEvents \union {Event("refund", b)}
  BY DEF CreateRefundBill
<1>c. b \in Bills /\ bill[b] = None /\ draft[b] = None
  BY DEF FreshBills
<1>d. o \in Orders /\ i # NoItem
  BY ItemsAssumption
<1>e. new \in BillDoc
  BY <1>d, BillsAssumption DEF NewBill, BillDoc, BillStatus
<1>f. new # None /\ new.order = o /\ new.item = i /\ new.status = "pending"
  BY <1>e, NoneIsNoDocument DEF NewBill
<1>1. order[o] \in OrderDoc /\ order[o] # None /\ order[o].status \in Completed
  <2>1. order[o].status \in Completed
    BY <1>a DEF IInv, ReturnsFollowOrder, Fulfilled
  <2> QED
    BY <1>d, <2>1, OrderIsDocument DEF IInv, OrderStatus, Completed, PaidUp
<1>2. /\ order' \in [Orders -> OrderDoc \union {None}]
      /\ order'[o] # None /\ order'[o].status = "return_in_progress"
      /\ \A p \in Orders \ {o} : order'[p] = order[p]
      /\ order'[o].status \in Completed
  <2> DEFINE moved == [order[o] EXCEPT !.status = "return_in_progress"]
  <2>1. order' = [order EXCEPT ![o] = moved]
    BY DEF CreateRefundBill
  <2>2. moved \in OrderDoc /\ moved.status = "return_in_progress"
    BY <1>1 DEF OrderDoc, OrderStatus
  <2>3. moved # None
    BY <2>2, NoneIsNoDocument
  <2> HIDE DEF moved
  <2> QED
    BY <1>d, <2>1, <2>2, <2>3 DEF IInv, TypeOK, Completed, PaidUp
<1> HIDE DEF new
<1>3. /\ bill' \in [Bills -> BillDoc \union {None}] /\ bill'[b] = new
      /\ \A c \in Bills \ {b} : bill'[c] = bill[c]
  BY <1>b, <1>c, <1>e DEF IInv, TypeOK
<1>4. /\ item' \in [Items -> ItemStatus \union {"none"}] /\ item'[i] = "return_approved"
      /\ \A j \in Items \ {i} : item'[j] = item[j]
  BY <1>a DEF IInv, TypeOK, ItemStatus
<1>5. paymentEvents' \subseteq [action : {"create", "cancel", "refund"}, bill : Bills]
  BY <1>b, <1>c DEF IInv, TypeOK, Event
<1>6. \A c \in Bills : bill'[c] # None =>
         /\ order'[bill'[c].order] # None
         /\ bill'[c].item # NoItem => OrderOf[bill'[c].item] = bill'[c].order
  <2>1. \A p \in Orders : order[p] # None => order'[p] # None
    BY <1>2
  <2>2. ASSUME NEW c \in Bills, bill'[c] # None
        PROVE  /\ order'[bill'[c].order] # None
               /\ bill'[c].item # NoItem => OrderOf[bill'[c].item] = bill'[c].order
    <3>1. CASE c = b
      BY <1>d, <1>f, <1>2, <1>3, <3>1
    <3>2. CASE c # b
      <4>1. bill'[c] = bill[c] /\ bill[c].order \in Orders
        BY <1>3, <2>2, <3>2, BillIsDocument DEF BillDoc, IInv
      <4> QED
        BY <2>1, <2>2, <4>1 DEF IInv, Linked
    <3> QED
      BY <3>1, <3>2
  <2> QED
    BY <2>2
<1>7. ItemsFollowOrder' /\ ReturnsFollowOrder' /\ TicketsFollowOrder'
  <2>1. \A j \in Items : OrderOf[j] = o => item[j] # "pending_payment"
    BY <1>1 DEF IInv, ItemsFollowOrder, Completed
  <2>2. ItemsFollowOrder'
    <3>1. ASSUME NEW j \in Items, order'[OrderOf[j]] # None
          PROVE  IF order'[OrderOf[j]].status \in PaidUp THEN item'[j] # "pending_payment"
                 ELSE item'[j] \in {"pending_payment", "canceled"}
      <4>1. CASE OrderOf[j] = o
        BY <1>2, <1>4, <2>1, <4>1 DEF Completed
      <4>2. CASE OrderOf[j] # o
        <5>1. order'[OrderOf[j]] = order[OrderOf[j]] /\ j # i /\ item'[j] = item[j]
          BY <1>2, <1>4, <4>2, ItemsAssumption
        <5> QED
          BY <3>1, <5>1 DEF IInv, ItemsFollowOrder
      <4> QED
        BY <4>1, <4>2
    <3> QED
      BY <3>1 DEF ItemsFollowOrder
  <2>3. \A p \in Orders : order[p].status \in Completed => order'[p].status \in Completed
    BY <1>2
  <2>4. ReturnsFollowOrder'
    <3>1. \A j \in Items : item'[j] \in Fulfilled => item[j] \in Fulfilled
      BY <1>a, <1>4 DEF Fulfilled
    <3> QED
      BY <2>3, <3>1, ItemsAssumption DEF IInv, ReturnsFollowOrder
  <2>5. TicketsFollowOrder'
    BY <1>a, <2>3, TicketsKept
  <2> QED
    BY <2>2, <2>4, <2>5
<1>8. RefundFollowsItem'
  <2>1. RefundsOf(i) = {}
    BY <1>a DEF IInv, RefundFollowsItem
  <2>2. RefundsOf(i)' = {b}
    <3>1. \A c \in Bills \ {b} : ~(bill[c] # None /\ bill[c].item = i)
      BY <2>1 DEF RefundsOf
    <3>2. RefundsOf(i)' = {c \in Bills : bill'[c] # None /\ bill'[c].item = i}
      BY DEF RefundsOf
    <3> QED
      BY <1>c, <1>f, <1>3, <3>1, <3>2
  <2>3. ASSUME NEW j \in Items \ {i} PROVE RefundsOf(j)' = RefundsOf(j)
    <3>1. \A c \in Bills : bill'[c] # None /\ bill'[c].item = j <=> bill[c] # None /\ bill[c].item = j
      BY <1>c, <1>f, <1>3
    <3> QED
      BY <3>1 DEF RefundsOf
  <2>4. ASSUME NEW j \in Items, NEW c \in RefundsOf(j)'
        PROVE  /\ RefundsOf(j)' = {c}
               /\ item'[j] = IF bill'[c].status = "refunded" THEN "returned" ELSE "return_approved"
    <3>1. CASE j = i
      BY <1>f, <1>3, <1>4, <2>2, <2>4, <3>1
    <3>2. CASE j # i
      <4>1. c \in RefundsOf(j) /\ RefundsOf(j)' = RefundsOf(j)
        BY <2>3, <2>4, <3>2
      <4>2. c \in Bills /\ c # b
        BY <1>c, <4>1 DEF RefundsOf
      <4> QED
        BY <1>3, <1>4, <3>2, <4>1, <4>2 DEF IInv, RefundFollowsItem
    <3> QED
      BY <3>1, <3>2
  <2> QED
    BY <2>4 DEF RefundFollowsItem
<1>9. /\ \A j \in Items : item'[j] # "none" => order'[OrderOf[j]] # None
      /\ \A c \in Bills : draft'[c] # None => order'[draft'[c].order] # None /\ bill'[c] = None
      /\ \A p \in Orders : task'[p] # "none" => order'[p] # None
  <2>1. \A p \in Orders : order[p] # None => order'[p] # None
    BY <1>2
  <2>2. \A c \in Bills : draft'[c] # None => order'[draft'[c].order] # None /\ bill'[c] = None
    <3>1. \A c \in Bills : draft[c] # None => draft[c].order \in Orders
      BY NoneIsNoDocument DEF IInv, TypeOK
    <3>2. \A c \in Bills : draft[c] # None => c # b
      BY <1>c
    <3> QED
      BY <1>a, <1>3, <2>1, <3>1, <3>2 DEF IInv, Linked
  <2>3. \A j \in Items : item'[j] # "none" => order'[OrderOf[j]] # None
    BY <1>a, <1>d, <1>2, <1>4, <2>1, ItemsAssumption DEF IInv, Linked
  <2> QED
    BY <1>a, <2>1, <2>2, <2>3 DEF IInv, Linked
<1>10. /\ stock' \in [Stocks -> Nat]
       /\ ticket' \in [Items -> Seq(TicketStatus)]
       /\ task' \in [Orders -> {"none", "queued", "dropped"}]
       /\ report' \in [Bills -> {"none", "success", "failure", "dropped"}]
       /\ draft' \in [Bills -> [order : Orders, amount : Amounts] \union {None}]
  BY <1>a DEF IInv, TypeOK
<1>11. FinalStays
  <2>1. i \in ItemsIn(o) /\ order[o].status # "canceled"
    BY <1>1 DEF ItemsIn, Completed, PaidUp
  <2> QED
    BY <1>a, <1>2, <1>4, <2>1 DEF FinalStays
<1>12. past' \in [Snapshots -> Snapshot \union {None}] /\ SnapshotsFollow'
  <2>1. Overtake(o, {o, i}) /\ {o, i} \in SUBSET ({o} \union ItemsIn(o))
    BY DEF CreateRefundBill, ItemsIn
  <2>2. /\ \A j \in Items \ ItemsIn(o) : item'[j] = item[j]
        /\ \A j \in ItemsIn(o) \ {o, i} : item'[j] = item[j]
    BY <1>4 DEF ItemsIn
  <2>3. o \notin {o, i} => order'[o] = order[o]
    OBVIOUS
  <2> DEFINE docs == {o, i}
  <2> HIDE DEF docs, o
  <2> QED
    BY <1>d, <1>2, <2>1, <2>2, <2>3, SnapshotsOvertaken
<1> QED
  BY <1>2, <1>3, <1>4, <1>5, <1>6, <1>7, <1>8, <1>9, <1>10, <1>11, <1>12, InvariantFromParts

(* A result for a pending bill, and the view it is committed on.            *)
LEMMA BillOnView ==
  ASSUME IInv, NEW b \in Bills, bill[b].status = "pending", NEW v \in Views(bill[b].order)
  PROVE  /\ bill[b] \in BillDoc /\ bill[b] # None /\ bill[b].order \in Orders
         /\ order[bill[b].order] \in OrderDoc /\ order[bill[b].order] # None
         /\ v.order \in OrderDoc /\ v.of = bill[b].order
         /\ v.items \in [ItemsIn(bill[b].order) -> ItemStatusOrNone]
<1>1. bill[b] \in BillDoc
  BY BillIsDocument DEF IInv, BillStatus
<1>2. bill[b] # None /\ bill[b].order \in Orders
  BY <1>1, NoneIsNoDocument DEF BillDoc
<1>3. order[bill[b].order] \in OrderDoc /\ order[bill[b].order] # None
  BY <1>1, <1>2, OrderIsDocument DEF IInv, Linked
<1> QED
  BY <1>1, <1>2, <1>3, ViewIsTyped

(* What a paid bill does, on whatever view: the document it credits is the  *)
(* present one, and it comes to a result R on the present items.            *)
Credit(b) == [order[bill[b].order] EXCEPT !.paid = @ + bill[b].amount]

PaymentRebased(v, b, r, R) ==
  /\ RecalculationEffect(Credit(b), StatusesIn(bill[b].order), R)
  /\ Written(bill[b].order, R, Settled(b, "paid"))
  /\ R.refund = r.refund
  /\ IF v = Now(bill[b].order) THEN R = r
     ELSE order[bill[b].order].status \in Completed /\ R.items = StatusesIn(bill[b].order)

LEMMA PaymentOnView ==
  ASSUME IInv, NEW b \in Bills, bill[b].status = "pending", NEW v \in Views(bill[b].order),
         NEW r, r = RecalculateOrderStatus([v.order EXCEPT !.paid = @ + bill[b].amount],
                                           v.items, TRUE),
         CommitResult(v, r, {v.of}, Settled(b, "paid"))
  PROVE  /\ v.order = order[bill[b].order]
         /\ Credit(b) \in OrderDoc /\ Credit(b).status = order[bill[b].order].status
         /\ r.refund \in SUBSET Int
         /\ \E R : PaymentRebased(v, b, r, R)
<1> DEFINE o     == bill[b].order
           new   == [v.order EXCEPT !.paid = @ + bill[b].amount]
           moved == v.items
           bills == Settled(b, "paid")
<1>1. /\ bill[b] \in BillDoc /\ o \in Orders /\ order[o] \in OrderDoc
      /\ v.order \in OrderDoc /\ v.of = o
      /\ moved \in [ItemsIn(o) -> ItemStatusOrNone]
  BY BillOnView
<1>2. new \in OrderDoc /\ new.status = v.order.status
  <2>1. bill[b].amount \in Int
    BY <1>1 DEF BillDoc
  <2> QED
    BY <1>1, <2>1 DEF OrderDoc
<1>3. new = [v.order EXCEPT !.paid = @ + bill[b].amount]
  OBVIOUS
<1>4. v \in Views(o) /\ CommitResult(v, r, {o}, bills) /\ r = RecalculateOrderStatus(new, moved, TRUE)
  BY <1>1
<1>b. moved = v.items
  OBVIOUS
<1> HIDE DEF o, new, moved, bills
<1>5. RecalculationEffect(new, moved, r)
  <2>1. IsFiniteSet(ItemsIn(o)) /\ TRUE \in BOOLEAN
    BY <1>1, ItemsInFinite
  <2>2. RecalculateOrderStatus(new, moved, TRUE).verdict = "commit"
    BY <1>4 DEF CommitResult
  <2>3. RecalculationEffect(new, moved, RecalculateOrderStatus(new, moved, TRUE))
    BY ONLY <1>1, <1>2, <2>1, <2>2, RecalculationIsSound
  <2> QED
    BY <1>4, <2>3
<1> DEFINE wrote == {o}
<1>6. /\ wrote \in SUBSET ({o} \union ItemsIn(o)) /\ o \in wrote
      /\ v \in Views(o) /\ CommitResult(v, r, wrote, bills)
  BY <1>4
<1> HIDE DEF wrote
<1>7. PICK ord \in OrderDoc, its \in [ItemsIn(o) -> ItemStatusOrNone] : \E R :
        /\ Rebased(v, o, new, moved, wrote, ord, its)
        /\ RecalculationEffect(ord, its, R)
        /\ Written(o, R, bills)
        /\ R.refund = r.refund
        /\ IF v = Now(o) THEN ord = new /\ its = moved /\ R = r
           ELSE order[o].status \in Completed /\ R.items = its
  BY ONLY IInv, <1>1, <1>2, <1>5, <1>6, CommittedOnView
<1>8. PICK R :
        /\ Rebased(v, o, new, moved, wrote, ord, its)
        /\ RecalculationEffect(ord, its, R)
        /\ Written(o, R, bills)
        /\ R.refund = r.refund
        /\ IF v = Now(o) THEN ord = new /\ its = moved /\ R = r
           ELSE order[o].status \in Completed /\ R.items = its
  BY <1>7
<1>9. ord = new /\ v.order = order[o] /\ \A j \in ItemsIn(o) : its[j] = item[j]
  BY <1>6, <1>8, <1>b DEF Rebased
<1>10. its = StatusesIn(o)
  BY <1>9 DEF StatusesIn
<1>11. r.refund \in SUBSET Int
  BY <1>5 DEF RecalculationEffect
<1>12. new = Credit(b) /\ new \in OrderDoc /\ new.status = order[o].status
  BY <1>2, <1>3, <1>9 DEF Credit, o
<1>13. /\ RecalculationEffect(new, StatusesIn(o), R)
       /\ Written(o, R, bills)
       /\ R.refund = r.refund
       /\ IF v = Now(o) THEN R = r ELSE order[o].status \in Completed /\ R.items = StatusesIn(o)
  BY <1>8, <1>9, <1>10
<1>14. PaymentRebased(v, b, r, R)
  BY <1>12, <1>13 DEF PaymentRebased, o, bills
<1> QED
  BY <1>9, <1>11, <1>12, <1>14 DEF o

LEMMA PaymentSucceededKeeps ==
  ASSUME IInv, NEW b \in Bills, bill[b].status = "pending", NEW v \in Views(bill[b].order),
         PaymentSucceeded(v, b)
  PROVE  IInv' /\ FinalStays
<1> DEFINE o      == bill[b].order
           credit == Credit(b)
           its    == StatusesIn(o)
           r      == RecalculateOrderStatus([v.order EXCEPT !.paid = @ + bill[b].amount],
                                            v.items, TRUE)
<1>a. bill[b] \in BillDoc /\ o \in Orders /\ order[o] \in OrderDoc /\ order[o] # None /\ v.of = o
  BY BillOnView
<1>b. /\ its \in [ItemsIn(o) -> ItemStatusOrNone]
      /\ \A j \in ItemsIn(o) : its[j] = item[j] /\ OrderOf[j] = o /\ j \in Items
  BY <1>a, StatusesInType DEF IInv, ItemsIn
<1>1. CASE /\ CommitResult(v, r, {v.of}, Settled(b, "paid"))
           /\ UNCHANGED <<stock, ticket, paymentEvents, report, draft>>
  <2>1. /\ credit \in OrderDoc /\ credit.status = order[o].status
        /\ r.refund \in SUBSET Int
        /\ \E R : PaymentRebased(v, b, r, R)
    <3>1. CommitResult(v, r, {v.of}, Settled(b, "paid"))
      BY <1>1
    <3>2. r = RecalculateOrderStatus([v.order EXCEPT !.paid = @ + bill[b].amount], v.items, TRUE)
      OBVIOUS
    <3> HIDE DEF r
    <3> QED
      BY <3>1, <3>2, PaymentOnView
  <2>2. PICK R : /\ RecalculationEffect(credit, its, R)
                 /\ Written(o, R, Settled(b, "paid"))
                 /\ R.refund = r.refund
    BY <2>1 DEF PaymentRebased
  <2> HIDE DEF credit, its
  <2>3. ASSUME NEW j \in ItemsIn(o)
        PROVE  IF credit.status \in PaidUp THEN its[j] # "pending_payment"
               ELSE its[j] \in {"pending_payment", "canceled"}
    BY <1>a, <1>b, <2>1 DEF IInv, ItemsFollowOrder
  <2>4. /\ order' \in [Orders -> OrderDoc \union {None}]
        /\ item' \in [Items -> ItemStatus \union {"none"}]
        /\ task' \in [Orders -> {"none", "queued", "dropped"}]
        /\ \A p \in Orders : order[p] # None => order'[p] # None
        /\ \A p \in Orders : task'[p] # "none" => order'[p] # None
        /\ \A j \in Items : item'[j] # "none" => order'[OrderOf[j]] # None
        /\ ItemsFollowOrder'
        /\ ReturnsFollowOrder'
        /\ \A p \in Orders : order[p].status \in Completed => order'[p].status \in Completed
        /\ \A p \in Orders : order[p].status \in {"canceled", "returned"}
                             => order'[p].status = order[p].status
    <3> HIDE DEF o
    <3> QED
      BY <1>a, <1>b, <2>1, <2>2, <2>3, CommitResultKeeps
  <2>5. past' \in [Snapshots -> Snapshot \union {None}] /\ SnapshotsFollow'
    <3> DEFINE wrote == {o}
    <3>1. wrote \in SUBSET ({o} \union ItemsIn(o)) /\ CommitResult(v, r, wrote, Settled(b, "paid"))
      BY <1>1, <1>a
    <3> HIDE DEF wrote, r, o
    <3> QED
      BY <1>a, <2>4, <3>1, CommitKeepsSnapshots DEF o
  <2>6. /\ Settled(b, "paid") \in [Bills -> BillDoc \union {None}]
        /\ Settled(b, "paid")[b] \in BillDoc
        /\ Settled(b, "paid")[b].status = "paid"
        /\ Settled(b, "paid")[b].order = bill[b].order
        /\ Settled(b, "paid")[b].item = bill[b].item
        /\ \A c \in Bills \ {b} : Settled(b, "paid")[c] = bill[c]
    <3>1. "paid" \in BillStatus
      BY DEF BillStatus
    <3> QED
      BY <1>a, <3>1, SettledBill DEF IInv
  <2>7. /\ bill' \in [Bills -> BillDoc \union {None}] /\ BillsKept
        /\ \A c \in Bills : bill[c] # None => bill'[c] = Settled(b, "paid")[c]
    <3>1. \A c \in Bills : /\ bill[c] = None <=> Settled(b, "paid")[c] = None
                           /\ bill[c] # None => /\ Settled(b, "paid")[c].order = bill[c].order
                                                /\ Settled(b, "paid")[c].item = bill[c].item
      BY <1>a, <2>6, NoneIsNoDocument
    <3>2. OpenRefundBill(o, r.refund, Settled(b, "paid"))
      BY <2>2 DEF Written
    <3>3. order'[o] # None
      BY <1>a, <2>4
    <3> HIDE DEF r
    <3> QED
      BY <1>1, <1>a, <2>1, <2>6, <3>1, <3>2, <3>3, OpenedRefundBill
  <2>8. \A j \in Items : item[j] \in {"return_approved", "returned", "canceled"} => item'[j] = item[j]
    <3>1. \A j \in ItemsIn(o) : its[j] \in {"return_approved", "returned", "canceled"}
                                => R.items[j] = its[j]
      BY <1>b, <2>2 DEF RecalculationEffect, UpdateItemsStatusByOrder
    <3>2. /\ \A j \in ItemsIn(o) : item'[j] = R.items[j]
          /\ \A j \in Items \ ItemsIn(o) : item'[j] = item[j]
      BY <2>2 DEF Written, ItemsIn
    <3> QED
      BY <1>b, <3>1, <3>2
  <2>9. RefundFollowsItem'
    <3>1. \A c \in Bills : bill[c] # None
            => (bill'[c].status = "refunded" <=> bill[c].status = "refunded")
      BY <2>6, <2>7, Zenon
    <3> QED
      BY <2>4, <2>7, <2>8, <3>1, RefundsKept
  <2>10. TicketsFollowOrder'
    BY <1>1, <2>4, TicketsKept
  <2>11. /\ stock' \in [Stocks -> Nat]
         /\ ticket' \in [Items -> Seq(TicketStatus)]
         /\ paymentEvents' \subseteq [action : {"create", "cancel", "refund"}, bill : Bills]
         /\ report' \in [Bills -> {"none", "success", "failure", "dropped"}]
    BY <1>1 DEF IInv, TypeOK
  <2>12. IInv'
    BY <1>1, <2>4, <2>5, <2>7, <2>9, <2>10, <2>11, DraftsStayLinked, BillsStayLinked,
       InvariantFromParts
  <2>13. FinalStays
    BY <2>4, <2>8 DEF FinalStays
  <2> QED
    BY <2>12, <2>13
<1>2. CASE /\ report' = [report EXCEPT ![b] = "dropped"]
           /\ UNCHANGED <<order, item, bill, stock, ticket, paymentEvents, task, draft, past>>
  BY <1>2, MessageStepKeeps DEF IInv, TypeOK, Linked, FinalStays
<1> QED
  BY <1>1, <1>2 DEF PaymentSucceeded

(* Tickets change their status and none is added.                           *)
LEMMA TicketsRestamped ==
  ASSUME IInv, ticket' \in [Items -> Seq(TicketStatus)],
         \A i \in Items : Len(ticket'[i]) = Len(ticket[i]),
         \A p \in Orders : order[p].status \in Completed => order'[p].status \in Completed
  PROVE  TicketsFollowOrder'
<1>1. SUFFICES ASSUME NEW i \in Items, ticket'[i] # <<>>
               PROVE  Len(ticket'[i]) = 1 /\ order'[OrderOf[i]].status \in Completed
  BY DEF TicketsFollowOrder
<1>2. Len(ticket'[i]) # 0
  BY <1>1, EmptySeq
<1>3. ticket[i] # <<>>
  BY <1>2, EmptySeq
<1> QED
  BY <1>3, ItemsAssumption DEF IInv, TicketsFollowOrder

(* One ticket of an item gets another status.                               *)
LEMMA RestampedTicket ==
  ASSUME IInv, NEW i \in Items, NEW n \in 1 .. Len(ticket[i]), NEW status \in TicketStatus,
         ticket' = [ticket EXCEPT ![i][n] = status]
  PROVE  /\ ticket' \in [Items -> Seq(TicketStatus)]
         /\ \A j \in Items : Len(ticket'[j]) = Len(ticket[j])
<1> DEFINE new == [ticket[i] EXCEPT ![n] = status]
<1>1. ticket[i] \in Seq(TicketStatus)
  BY DEF IInv, TypeOK
<1>2. new \in Seq(TicketStatus) /\ Len(new) = Len(ticket[i])
  BY <1>1, ExceptSeq
<1>3. ticket' = [ticket EXCEPT ![i] = new]
  OBVIOUS
<1> HIDE DEF new
<1> QED
  BY <1>2, <1>3 DEF IInv, TypeOK

LEMMA TicketStepKeeps ==
  ASSUME IInv, UNCHANGED <<order, item, bill, stock, paymentEvents, task, report, draft, past>>,
         ticket' \in [Items -> Seq(TicketStatus)],
         \A i \in Items : Len(ticket'[i]) = Len(ticket[i])
  PROVE  IInv'
<1>1. RefundFollowsItem'
  BY DEF IInv, RefundFollowsItem, RefundsOf
<1>2. TypeOK'
  BY DEF IInv, TypeOK
<1>3. Linked'
  BY DEF IInv, Linked
<1>4. TicketsFollowOrder'
  BY TicketsRestamped
<1> QED
  BY <1>1, <1>2, <1>3, <1>4, OrdersUnchanged DEF IInv

LEMMA CheckInTicketKeeps ==
  ASSUME IInv, NEW i \in Items, NEW n \in DOMAIN ticket[i], CheckInTicket(i, n)
  PROVE  IInv'
<1>1. n \in 1 .. Len(ticket[i]) /\ "used" \in TicketStatus
  BY LenProperties DEF IInv, TypeOK, TicketStatus
<1>2. /\ ticket' = [ticket EXCEPT ![i][n] = "used"]
      /\ UNCHANGED <<order, item, bill, stock, paymentEvents, task, report, draft, past>>
  BY DEF CheckInTicket
<1> QED
  BY <1>1, <1>2, RestampedTicket, TicketStepKeeps

LEMMA ExpireTicketsKeeps ==
  ASSUME IInv, NEW o \in Orders, ExpireTickets(o)
  PROVE  IInv'
<1> DEFINE new(i) == [n \in DOMAIN ticket[i] |->
                        IF OrderOf[i] = o /\ ticket[i][n] = "valid" THEN "expired"
                        ELSE ticket[i][n]]
<1>1. ticket' = [i \in Items |-> new(i)]
  BY DEF ExpireTickets
<1>2. ASSUME NEW i \in Items
      PROVE  new(i) \in Seq(TicketStatus) /\ Len(new(i)) = Len(ticket[i])
  <2>1. ticket[i] \in Seq(TicketStatus)
    BY DEF IInv, TypeOK
  <2>2. /\ Len(ticket[i]) \in Nat /\ DOMAIN ticket[i] = 1 .. Len(ticket[i])
        /\ \A n \in 1 .. Len(ticket[i]) : ticket[i][n] \in TicketStatus
    BY <2>1, LenProperties, ElementOfSeq
  <2>3. new(i) \in [1 .. Len(ticket[i]) -> TicketStatus]
    BY <2>2 DEF TicketStatus
  <2> HIDE DEF new
  <2> QED
    BY <2>2, <2>3, SeqDef, LenProperties
<1> HIDE DEF new
<1>3. ticket' \in [Items -> Seq(TicketStatus)] /\ \A i \in Items : Len(ticket'[i]) = Len(ticket[i])
  BY <1>1, <1>2
<1>4. UNCHANGED <<order, item, bill, stock, paymentEvents, task, report, draft, past>>
  BY DEF ExpireTickets
<1> QED
  BY <1>3, <1>4, TicketStepKeeps

(* A refund and the view it is committed on: the document it debits and its *)
(* item are the present ones.                                               *)
LEMMA RefundOnView ==
  ASSUME IInv, NEW b \in Bills, bill[b].status = "pending", NEW v \in Views(bill[b].order),
         bill[b].item # NoItem, CanUpdateOrderItemStatus(v.items[bill[b].item], "returned")
  PROVE  LET i     == bill[b].item
             debit == [v.order EXCEPT !.returned = @ + bill[b].amount,
                                      !.returnedItemsCount = @ + 1]
         IN  /\ i \in Items /\ OrderOf[i] = bill[b].order
             /\ v.items[i] = "return_approved"
             /\ debit \in OrderDoc /\ debit.status = v.order.status
             /\ {v.of, i} \in SUBSET ({OrderOf[i]} \union ItemsIn(OrderOf[i]))
             /\ OrderOf[i] \in {v.of, i}
<1>1. /\ bill[b] \in BillDoc /\ bill[b] # None /\ v.order \in OrderDoc /\ v.of = bill[b].order
  BY BillOnView
<1>2. bill[b].item \in Items /\ OrderOf[bill[b].item] = bill[b].order
  BY <1>1 DEF BillDoc, IInv, Linked
<1>3. v.items[bill[b].item] = "return_approved"
  BY DEF CanUpdateOrderItemStatus, SourcesOf
<1>4. LET debit == [v.order EXCEPT !.returned = @ + bill[b].amount, !.returnedItemsCount = @ + 1]
      IN  debit \in OrderDoc /\ debit.status = v.order.status
  <2>1. bill[b].amount \in Int
    BY <1>1 DEF BillDoc
  <2>2. ASSUME NEW d \in OrderDoc, NEW amount \in Int
        PROVE  LET new == [d EXCEPT !.returned = @ + amount, !.returnedItemsCount = @ + 1]
               IN  new \in OrderDoc /\ new.status = d.status
    <3>1. d.returned + amount \in Int /\ d.returnedItemsCount + 1 \in Nat
      BY DEF OrderDoc
    <3> QED
      BY <3>1 DEF OrderDoc
  <2> QED
    BY ONLY <1>1, <2>1, <2>2
<1>5. /\ {v.of, bill[b].item} \in SUBSET ({OrderOf[bill[b].item]} \union ItemsIn(OrderOf[bill[b].item]))
      /\ OrderOf[bill[b].item] \in {v.of, bill[b].item}
  BY <1>1, <1>2 DEF ItemsIn
<1> QED
  BY <1>2, <1>3, <1>4, <1>5

LEMMA RefundSucceededKeeps ==
  ASSUME IInv, NEW b \in Bills, bill[b].status = "pending", NEW v \in Views(bill[b].order),
         RefundSucceeded(v, b)
  PROVE  IInv' /\ FinalStays
<1> DEFINE o     == bill[b].order
           i     == bill[b].item
           debit == [v.order EXCEPT !.returned = @ + bill[b].amount,
                                    !.returnedItemsCount = @ + 1]
           wrote == {v.of, i}
           r     == UpdateOrderItemStatus(debit, v.items, i, "returned", Price[i])
<1>a. bill[b] \in BillDoc /\ o \in Orders /\ order[o] \in OrderDoc /\ order[o] # None /\ bill[b] # None
  BY BillOnView
<1>c. i # NoItem /\ CanUpdateOrderItemStatus(v.items[i], "returned")
  BY DEF RefundSucceeded
<1>b. /\ i \in Items /\ i # NoItem /\ OrderOf[i] = o
      /\ v.items[i] = "return_approved"
      /\ debit \in OrderDoc /\ debit.status = v.order.status
      /\ wrote \in SUBSET ({OrderOf[i]} \union ItemsIn(OrderOf[i]))
      /\ i \in wrote /\ OrderOf[i] \in wrote
  BY <1>c, RefundOnView
<1>1. CASE /\ CommitResult(v, r, wrote, Settled(b, "refunded"))
           /\ VoidTicketByOrderItem(i)
           /\ UNCHANGED <<paymentEvents, report, draft>>
  <2>2. /\ order' \in [Orders -> OrderDoc \union {None}]
        /\ item' \in [Items -> ItemStatus \union {"none"}]
        /\ task' \in [Orders -> {"none", "queued", "dropped"}]
        /\ past' \in [Snapshots -> Snapshot \union {None}]
        /\ SnapshotsFollow'
        /\ \A p \in Orders : order[p] # None => order'[p] # None
        /\ \A p \in Orders : task'[p] # "none" => order'[p] # None
        /\ \A j \in Items : item'[j] # "none" => order'[OrderOf[j]] # None
        /\ ItemsFollowOrder'
        /\ ReturnsFollowOrder'
        /\ \A p \in Orders : order[p].status \in Completed => order'[p].status \in Completed
        /\ \A p \in Orders : order[p].status \in {"canceled", "returned"}
                             => order'[p].status = order[p].status
        /\ OpenRefundBill(OrderOf[i], r.refund, Settled(b, "refunded"))
        /\ r.refund \in SUBSET Int
        /\ \A j \in Items \ {i} :
             item'[j] = item[j] \/ (item[j] = "pending_payment" /\ item'[j] = "paid")
        /\ item'[i] = "returned"
        /\ item[i] = v.items[i]
    <3>1. "returned" \in ItemStatus /\ v.items[i] # "none"
          /\ "returned" \in {"canceled", "return_requested", "return_approved", "delivered", "returned"}
      BY <1>b DEF ItemStatus
    <3>2. r = UpdateOrderItemStatus(debit, v.items, i, "returned", Price[i])
      OBVIOUS
    <3>3. v \in Views(OrderOf[i]) /\ CommitResult(v, r, wrote, Settled(b, "refunded"))
      BY <1>1, <1>b
    <3> HIDE DEF debit, r, i, wrote
    <3>4. UpdatesItem(i, v, "returned", debit, wrote, r, Settled(b, "refunded"))
      BY <1>b, <3>1, <3>2, <3>3 DEF UpdatesItem
    <3> QED
      BY ONLY IInv, <1>b, <1>c, <3>1, <3>4, UpdatedItemKeeps
  <2>3. /\ Settled(b, "refunded") \in [Bills -> BillDoc \union {None}]
        /\ Settled(b, "refunded")[b] \in BillDoc
        /\ Settled(b, "refunded")[b].status = "refunded"
        /\ Settled(b, "refunded")[b].order = bill[b].order
        /\ Settled(b, "refunded")[b].item = bill[b].item
        /\ \A c \in Bills \ {b} : Settled(b, "refunded")[c] = bill[c]
    <3>1. "refunded" \in BillStatus
      BY DEF BillStatus
    <3> QED
      BY <1>a, <3>1, SettledBill DEF IInv
  <2>4. /\ bill' \in [Bills -> BillDoc \union {None}] /\ BillsKept
        /\ \A c \in Bills : bill[c] # None => bill'[c] = Settled(b, "refunded")[c]
    <3>1. \A c \in Bills : /\ bill[c] = None <=> Settled(b, "refunded")[c] = None
                           /\ bill[c] # None => /\ Settled(b, "refunded")[c].order = bill[c].order
                                                /\ Settled(b, "refunded")[c].item = bill[c].item
      BY <1>a, <2>3, NoneIsNoDocument, Zenon
    <3>2. OpenRefundBill(o, r.refund, Settled(b, "refunded"))
      BY <1>b, <2>2
    <3>3. order'[o] # None
      BY <1>a, <2>2
    <3> HIDE DEF r
    <3> QED
      BY <1>1, <1>a, <2>2, <2>3, <3>1, <3>2, <3>3, OpenedRefundBill
  <2>5. RefundFollowsItem'
    <3>1. SUFFICES ASSUME NEW j \in Items, NEW c \in RefundsOf(j)'
                   PROVE  /\ RefundsOf(j)' = {c}
                          /\ item'[j] = IF bill'[c].status = "refunded" THEN "returned"
                                        ELSE "return_approved"
      BY DEF RefundFollowsItem
    <3>2. RefundsOf(j)' = RefundsOf(j)
      BY <2>2, <2>4, BillsStayLinked
    <3>3. c \in Bills /\ bill[c] # None /\ bill[c].item = j
      BY <3>1, <3>2 DEF RefundsOf
    <3>4. /\ RefundsOf(j) = {c}
          /\ item[j] = IF bill[c].status = "refunded" THEN "returned" ELSE "return_approved"
      BY <3>1, <3>2 DEF IInv, RefundFollowsItem
    <3>5. CASE j = i
      <4>1. b \in RefundsOf(i)
        BY <1>a, <1>b DEF RefundsOf
      <4>2. c = b
        BY <3>4, <3>5, <4>1
      <4> QED
        BY <2>2, <2>3, <2>4, <3>2, <3>3, <3>4, <3>5, <4>2
    <3>6. CASE j # i
      <4>1. c # b
        BY <3>3, <3>6
      <4>2. bill'[c] = bill[c]
        BY <2>3, <2>4, <3>3, <4>1
      <4>3. item'[j] = item[j]
        BY <2>2, <3>4, <3>6
      <4> QED
        BY <3>2, <3>4, <4>2, <4>3
    <3> QED
      BY <3>5, <3>6
  <2>6. /\ stock' \in [Stocks -> Nat]
        /\ ticket' \in [Items -> Seq(TicketStatus)]
        /\ \A j \in Items : Len(ticket'[j]) = Len(ticket[j])
    <3>1. CASE ticket[i] # <<>>
      <4>1. /\ stock' = ReleaseTickets({i})
            /\ ticket' = [ticket EXCEPT ![i][1] = "invalidated"]
        BY <1>1, <3>1 DEF VoidTicketByOrderItem
      <4>2. 1 \in 1 .. Len(ticket[i]) /\ "invalidated" \in TicketStatus
        BY <1>b, <3>1, EmptySeq DEF IInv, TypeOK, TicketStatus
      <4>3. stock' \in [Stocks -> Nat]
        BY <1>b, <4>1, StockStaysTyped DEF IInv
      <4> HIDE DEF i
      <4> QED
        BY <1>b, <4>1, <4>2, <4>3, RestampedTicket
    <3>2. CASE ticket[i] = <<>>
      BY <1>1, <3>2 DEF VoidTicketByOrderItem, IInv, TypeOK
    <3> QED
      BY <3>1, <3>2
  <2>7. TicketsFollowOrder'
    BY <2>2, <2>6, TicketsRestamped
  <2>8. /\ paymentEvents' \subseteq [action : {"create", "cancel", "refund"}, bill : Bills]
        /\ report' \in [Bills -> {"none", "success", "failure", "dropped"}]
    BY <1>1 DEF IInv, TypeOK
  <2>9. IInv'
    BY <1>1, <2>2, <2>4, <2>5, <2>6, <2>7, <2>8, DraftsStayLinked, BillsStayLinked,
       InvariantFromParts
  <2>10. FinalStays
    BY <1>b, <2>2 DEF FinalStays
  <2> QED
    BY <2>9, <2>10
<1>2. CASE /\ report' = [report EXCEPT ![b] = "dropped"]
           /\ UNCHANGED <<order, item, bill, stock, ticket, paymentEvents, task, draft, past>>
  BY <1>2, MessageStepKeeps DEF IInv, TypeOK, Linked, FinalStays
<1> QED
  BY <1>1, <1>2 DEF RefundSucceeded

(* A ticket task, and the view it is committed on: a paid order is read as  *)
(* it is, and an item that was moved on since is left where it is.          *)
LEMMA TicketTaskOnView ==
  ASSUME IInv, NEW o \in Orders, task[o] = "queued", NEW v \in Views(o),
         NEW r, r = MarkOrderItemsAsFulfilled(v.order, v.items), CommitResult(v, r, {}, bill)
  PROVE  /\ order[o] \in OrderDoc /\ order[o] # None
         /\ r.refund \in SUBSET Int
         /\ v.order.status = "paid" => v = Now(o) /\ order[o].status = "paid"
         /\ \E its \in [ItemsIn(o) -> ItemStatusOrNone] : \E R :
              /\ \A j \in ItemsIn(o) :
                   its[j] = item[j] \/ (item[j] = "paid" /\ its[j] = "delivered")
              /\ RecalculationEffect(order[o], its, R)
              /\ Written(o, R, bill)
              /\ R.refund = r.refund
              /\ IF v = Now(o) THEN R = r ELSE order[o].status \in Completed /\ R.items = its
<1> DEFINE moved == UpdateItemsStatusByOrder(v.items, "paid", "delivered")
           new   == v.order
           wrote == {}
<1>1. order[o] \in OrderDoc /\ order[o] # None
  BY OrderIsDocument DEF IInv, Linked
<1>2. /\ new \in OrderDoc /\ v.items \in [ItemsIn(o) -> ItemStatusOrNone]
      /\ v = Now(o) => new = order[o]
      /\ v # Now(o) => new.status \in {"completed", "return_in_progress", "partially_returned"}
      /\ IsFiniteSet(ItemsIn(o))
  BY <1>1, ViewIsTyped, ItemsInFinite
<1>3. /\ moved \in [ItemsIn(o) -> ItemStatusOrNone]
      /\ \A j \in ItemsIn(o) :
           moved[j] = v.items[j] \/ (v.items[j] = "paid" /\ moved[j] = "delivered")
  BY <1>2 DEF UpdateItemsStatusByOrder, ItemStatusOrNone, ItemStatus
<1>4. r = RecalculateOrderStatus(new, moved, FALSE)
  BY DEF MarkOrderItemsAsFulfilled
<1>5. wrote \in SUBSET ({o} \union ItemsIn(o)) /\ CommitResult(v, r, wrote, bill) /\ o \notin wrote
  OBVIOUS
<1>6. new.status = v.order.status /\ new = v.order
  OBVIOUS
<1> HIDE DEF moved, new, wrote
<1>7. RecalculationEffect(new, moved, r)
  <2>1. RecalculateOrderStatus(new, moved, FALSE).verdict = "commit" /\ FALSE \in BOOLEAN
    BY <1>4 DEF CommitResult
  <2>2. RecalculationEffect(new, moved, RecalculateOrderStatus(new, moved, FALSE))
    BY ONLY <1>2, <1>3, <2>1, RecalculationIsSound
  <2> QED
    BY <1>4, <2>2
<1>8. r.refund \in SUBSET Int
  BY <1>7 DEF RecalculationEffect
<1>9. PICK ord \in OrderDoc, its \in [ItemsIn(o) -> ItemStatusOrNone] : \E R :
        /\ Rebased(v, o, new, moved, wrote, ord, its)
        /\ RecalculationEffect(ord, its, R)
        /\ Written(o, R, bill)
        /\ R.refund = r.refund
        /\ IF v = Now(o) THEN ord = new /\ its = moved /\ R = r
           ELSE order[o].status \in Completed /\ R.items = its
  BY <1>1, <1>2, <1>3, <1>5, <1>6, <1>7, CommittedOnView
<1>10. PICK R :
        /\ Rebased(v, o, new, moved, wrote, ord, its)
        /\ RecalculationEffect(ord, its, R)
        /\ Written(o, R, bill)
        /\ R.refund = r.refund
        /\ IF v = Now(o) THEN ord = new /\ its = moved /\ R = r
           ELSE order[o].status \in Completed /\ R.items = its
  BY <1>9
<1>11. ord = order[o]
  BY <1>5, <1>10 DEF Rebased
<1>12. \A j \in ItemsIn(o) : its[j] = item[j] \/ (item[j] = "paid" /\ its[j] = "delivered")
  BY <1>3, <1>10 DEF Rebased
<1>13. \E S :
        /\ RecalculationEffect(order[o], its, S)
        /\ Written(o, S, bill)
        /\ S.refund = r.refund
        /\ IF v = Now(o) THEN S = r ELSE order[o].status \in Completed /\ S.items = its
  BY <1>10, <1>11
<1>14. v.order.status = "paid" => v = Now(o) /\ order[o].status = "paid"
  BY <1>2, <1>6
<1> QED
  BY <1>1, <1>8, <1>12, <1>13, <1>14

LEMMA HandleTicketTaskKeeps ==
  ASSUME IInv, NEW o \in Orders, HandleTicketTask(o)
  PROVE  IInv' /\ FinalStays
<1>a. task[o] = "queued"
  BY DEF HandleTicketTask
<1>1. ASSUME NEW v \in Views(o),
             CommitResult(v, MarkOrderItemsAsFulfilled(v.order, v.items), {}, bill),
             ticket' = GenerateTicketsForOrder(v.order, o),
             UNCHANGED <<stock, paymentEvents, report, draft>>
      PROVE  IInv' /\ FinalStays
  <2> DEFINE r == MarkOrderItemsAsFulfilled(v.order, v.items)
  <2>1. r = MarkOrderItemsAsFulfilled(v.order, v.items) /\ CommitResult(v, r, {}, bill)
    BY <1>1
  <2> HIDE DEF r
  <2>2. /\ order[o] \in OrderDoc /\ order[o] # None
        /\ r.refund \in SUBSET Int
        /\ v.order.status = "paid" => v = Now(o) /\ order[o].status = "paid"
        /\ \E its \in [ItemsIn(o) -> ItemStatusOrNone] : \E R :
             /\ \A j \in ItemsIn(o) :
                  its[j] = item[j] \/ (item[j] = "paid" /\ its[j] = "delivered")
             /\ RecalculationEffect(order[o], its, R)
             /\ Written(o, R, bill)
             /\ R.refund = r.refund
    BY <1>a, <2>1, TicketTaskOnView
  <2>3. PICK its \in [ItemsIn(o) -> ItemStatusOrNone] : \E R :
          /\ \A j \in ItemsIn(o) :
               its[j] = item[j] \/ (item[j] = "paid" /\ its[j] = "delivered")
          /\ RecalculationEffect(order[o], its, R)
          /\ Written(o, R, bill)
          /\ R.refund = r.refund
    BY <2>2
  <2>4. PICK R :
          /\ \A j \in ItemsIn(o) :
               its[j] = item[j] \/ (item[j] = "paid" /\ its[j] = "delivered")
          /\ RecalculationEffect(order[o], its, R)
          /\ Written(o, R, bill)
          /\ R.refund = r.refund
    BY <2>3
  <2>5. ASSUME NEW j \in ItemsIn(o)
        PROVE  IF order[o].status \in PaidUp THEN its[j] # "pending_payment"
               ELSE its[j] \in {"pending_payment", "canceled"}
    BY <2>2, <2>4 DEF IInv, ItemsFollowOrder, ItemsIn
  <2>6. /\ order' \in [Orders -> OrderDoc \union {None}]
        /\ item' \in [Items -> ItemStatus \union {"none"}]
        /\ task' \in [Orders -> {"none", "queued", "dropped"}]
        /\ \A p \in Orders : order[p] # None => order'[p] # None
        /\ \A p \in Orders : task'[p] # "none" => order'[p] # None
        /\ \A j \in Items : item'[j] # "none" => order'[OrderOf[j]] # None
        /\ ItemsFollowOrder'
        /\ ReturnsFollowOrder'
        /\ \A p \in Orders : order[p].status \in Completed => order'[p].status \in Completed
        /\ order[o].status = "paid" => order'[o].status = "completed"
        /\ \A p \in Orders : order[p].status \in {"canceled", "returned"}
                             => order'[p].status = order[p].status
    BY <2>2, <2>4, <2>5, CommitResultKeeps
  <2>7. past' \in [Snapshots -> Snapshot \union {None}] /\ SnapshotsFollow'
    <3> DEFINE wrote == {}
    <3>1. wrote \in SUBSET ({o} \union ItemsIn(o)) /\ CommitResult(v, r, wrote, bill)
      BY <2>1
    <3> HIDE DEF wrote
    <3> QED
      BY <2>6, <3>1, CommitKeepsSnapshots
  <2>8. /\ bill' \in [Bills -> BillDoc \union {None}] /\ BillsKept
        /\ \A c \in Bills : bill[c] # None => bill'[c] = bill[c]
    <3>1. OpenRefundBill(o, r.refund, bill)
      BY <2>4 DEF Written
    <3>2. order'[o] # None /\ bill \in [Bills -> BillDoc \union {None}]
      BY <2>2, <2>6 DEF IInv, TypeOK
    <3> QED
      BY <1>1, <2>2, <3>1, <3>2, OpenedRefundBill
  <2>9. \A j \in Items : item[j] \in {"return_approved", "returned", "canceled"} => item'[j] = item[j]
    <3>1. \A j \in ItemsIn(o) : its[j] \in {"return_approved", "returned", "canceled"}
                                => R.items[j] = its[j]
      BY <2>4 DEF RecalculationEffect, UpdateItemsStatusByOrder
    <3>2. /\ \A j \in ItemsIn(o) : item'[j] = R.items[j]
          /\ \A j \in Items \ ItemsIn(o) : item'[j] = item[j]
      BY <2>4 DEF Written, ItemsIn
    <3> QED
      BY <2>4, <3>1, <3>2
  <2>10. RefundFollowsItem'
    BY <2>6, <2>8, <2>9, RefundsKept
  <2>11. ticket' \in [Items -> Seq(TicketStatus)] /\ TicketsFollowOrder'
    <3>1. CASE v.order.status # "paid"
      <4>1. ticket' = ticket
        BY <1>1, <3>1 DEF GenerateTicketsForOrder
      <4> QED
        BY <2>6, <4>1, TicketsKept DEF IInv, TypeOK
    <3>2. CASE v.order.status = "paid"
      <4>1. ticket' = [i \in Items |-> IF OrderOf[i] = o THEN Append(ticket[i], "valid")
                                       ELSE ticket[i]]
        BY <1>1, <3>2 DEF GenerateTicketsForOrder, CountTicketsByOrder
      <4>2. \A i \in Items : OrderOf[i] = o => ticket[i] = <<>>
        BY <2>2, <3>2 DEF IInv, TicketsFollowOrder, Completed, PaidUp
      <4>3. \A i \in Items : OrderOf[i] = o => ticket'[i] = <<"valid">>
        <5>1. Append(<<>>, "valid") = <<"valid">>
          OBVIOUS
        <5> QED
          BY <4>1, <4>2, <5>1
      <4>4. \A i \in Items : OrderOf[i] # o => ticket'[i] = ticket[i]
        BY <4>1
      <4>5. <<"valid">> \in Seq(TicketStatus) /\ Len(<<"valid">>) = 1
        BY DEF TicketStatus
      <4>6. ticket' \in [Items -> Seq(TicketStatus)]
        <5>1. \A i \in Items : ticket'[i] \in Seq(TicketStatus)
          BY <4>3, <4>4, <4>5 DEF IInv, TypeOK
        <5> QED
          BY <4>1, <5>1
      <4>7. order'[o].status \in Completed
        BY <2>2, <2>6, <3>2 DEF Completed, PaidUp
      <4>8. ASSUME NEW i \in Items, ticket'[i] # <<>>
            PROVE  Len(ticket'[i]) = 1 /\ order'[OrderOf[i]].status \in Completed
        <5>1. CASE OrderOf[i] = o
          BY <4>3, <4>5, <4>7, <5>1
        <5>2. CASE OrderOf[i] # o
          BY <2>6, <4>4, <4>8, <5>2, ItemsAssumption DEF IInv, TicketsFollowOrder
        <5> QED
          BY <5>1, <5>2
      <4> QED
        BY <4>6, <4>8 DEF TicketsFollowOrder
    <3> QED
      BY <3>1, <3>2
  <2>12. /\ stock' \in [Stocks -> Nat]
         /\ paymentEvents' \subseteq [action : {"create", "cancel", "refund"}, bill : Bills]
         /\ report' \in [Bills -> {"none", "success", "failure", "dropped"}]
    BY <1>1 DEF IInv, TypeOK
  <2>13. IInv'
    BY <1>1, <2>6, <2>7, <2>8, <2>10, <2>11, <2>12, DraftsStayLinked, BillsStayLinked,
       InvariantFromParts
  <2>14. FinalStays
    BY <2>6, <2>9 DEF FinalStays
  <2> QED
    BY <2>13, <2>14
<1>2. CASE /\ task' = [task EXCEPT ![o] = "dropped"]
           /\ UNCHANGED <<order, item, bill, stock, ticket, paymentEvents, report, draft, past>>
  BY <1>a, <1>2, MessageStepKeeps DEF IInv, TypeOK, Linked, FinalStays
<1> QED
  BY <1>1, <1>2 DEF HandleTicketTask

LEMMA HandleBillStatusUpdateKeeps ==
  ASSUME IInv, NEW b \in Bills, HandleBillStatusUpdate(b)
  PROVE  IInv' /\ FinalStays
<1>1. bill[b].status = "pending"
  BY DEF HandleBillStatusUpdate
<1>2. ASSUME NEW v \in Views(bill[b].order), PaymentSucceeded(v, b)
      PROVE  IInv' /\ FinalStays
  BY <1>1, <1>2, PaymentSucceededKeeps
<1>3. ASSUME NEW v \in Views(bill[b].order), RefundSucceeded(v, b)
      PROVE  IInv' /\ FinalStays
  BY <1>1, <1>3, RefundSucceededKeeps
<1>4. CASE SettlementFailed(b)
  BY <1>1, <1>4, SettlementFailedKeeps DEF SettlementFailed, FinalStays
<1> QED
  BY <1>2, <1>3, <1>4 DEF HandleBillStatusUpdate

-----------------------------------------------------------------------------
(* Every step keeps the invariant and leaves final orders and items alone.  *)
LEMMA StepKeeps ==
  ASSUME IInv, [Next]_vars
  PROVE  IInv' /\ FinalStays
<1>1. ASSUME NEW o \in Orders, NEW total \in Amounts, AddOrder(o, total)
      PROVE  IInv' /\ FinalStays
  BY <1>1, AddOrderKeeps
<1>2. ASSUME NEW o \in Orders, NEW amount \in Amounts, ValidateBill(o, amount)
      PROVE  IInv' /\ FinalStays
  BY <1>2, ValidateBillKeeps DEF ValidateBill, FinalStays
<1>3. ASSUME NEW o \in Orders, CancelOrder(o)
      PROVE  IInv' /\ FinalStays
  BY <1>3, CancelOrderKeeps
<1>4. ASSUME NEW o \in Orders, HandleTicketTask(o)
      PROVE  IInv' /\ FinalStays
  BY <1>4, HandleTicketTaskKeeps
<1>5. ASSUME NEW o \in Orders, AbandonTicketTask(o)
      PROVE  IInv' /\ FinalStays
  BY <1>5, AbandonTicketTaskKeeps DEF AbandonTicketTask, FinalStays
<1>6. ASSUME NEW o \in Orders, ExpireTickets(o)
      PROVE  IInv' /\ FinalStays
  BY <1>6, ExpireTicketsKeeps DEF ExpireTickets, FinalStays
<1>7. ASSUME NEW i \in Items,
             ChangeOrderItemStatus(i) \/ RequestOrderItemRefund(i) \/ RejectOrderItemRefund(i)
      PROVE  IInv' /\ FinalStays
  BY <1>7, UpdateItemKeeps
  DEF ChangeOrderItemStatus, RequestOrderItemRefund, RejectOrderItemRefund
<1>8. ASSUME NEW i \in Items, NEW amount \in Amounts, CreateRefundBill(i, amount)
      PROVE  IInv' /\ FinalStays
  BY <1>8, CreateRefundBillKeeps
<1>9. ASSUME NEW i \in Items, NEW n \in DOMAIN ticket[i], CheckInTicket(i, n)
      PROVE  IInv' /\ FinalStays
  BY <1>9, CheckInTicketKeeps DEF CheckInTicket, FinalStays
<1>10. ASSUME NEW b \in Bills, CreateBill(b)
       PROVE  IInv' /\ FinalStays
  BY <1>10, CreateBillKeeps DEF CreateBill, FinalStays
<1>11. ASSUME NEW b \in Bills, CancelBill(b)
       PROVE  IInv' /\ FinalStays
  BY <1>11, CancelBillKeeps DEF CancelBill, FinalStays
<1>12. ASSUME NEW b \in Bills, PaymentServiceReports(b)
       PROVE  IInv' /\ FinalStays
  BY <1>12, PaymentServiceReportsKeeps DEF PaymentServiceReports, FinalStays
<1>13. ASSUME NEW b \in Bills, HandleBillStatusUpdate(b)
       PROVE  IInv' /\ FinalStays
  BY <1>13, HandleBillStatusUpdateKeeps
<1>14. ASSUME NEW o \in Orders, NEW s \in Snapshots, TakeSnapshot(s, o)
       PROVE  IInv' /\ FinalStays
  <2>1. UNCHANGED <<order, item, bill, stock, ticket, paymentEvents, task, report, draft>>
    BY <1>14 DEF TakeSnapshot
  <2>2. past' \in [Snapshots -> Snapshot \union {None}] /\ SnapshotsFollow'
    BY <1>14, TakeSnapshotKeeps
  <2>3. RefundFollowsItem' /\ FinalStays
    BY <2>1 DEF IInv, RefundFollowsItem, RefundsOf, FinalStays
  <2>4. TypeOK' /\ Linked'
    BY <2>1, <2>2 DEF IInv, TypeOK, Linked
  <2> QED
    BY <2>1, <2>2, <2>3, <2>4, OrdersUnchanged DEF IInv
<1>15. CASE UNCHANGED vars
  <2>1. RefundFollowsItem'
    BY <1>15 DEF vars, IInv, RefundFollowsItem, RefundsOf
  <2>2. TypeOK' /\ Linked' /\ FinalStays
    BY <1>15 DEF vars, IInv, TypeOK, Linked, FinalStays
  <2>3. UNCHANGED <<order, item>> /\ UNCHANGED ticket /\ UNCHANGED past
    BY <1>15 DEF vars
  <2> QED
    BY <2>1, <2>2, <2>3, OrdersUnchanged DEF IInv
<1> QED
  BY <1>1, <1>2, <1>3, <1>4, <1>5, <1>6, <1>7, <1>8, <1>9, <1>10, <1>11, <1>12, <1>13, <1>14, <1>15
  DEF Next

-----------------------------------------------------------------------------
(* The inductive invariant holds in every state.                            *)
THEOREM InvariantHolds == Spec => []IInv
<1>1. IInv /\ [Next]_vars => IInv'
  BY StepKeeps
<1> QED
  BY <1>1, InitEstablishes, PTL DEF Spec

(* Every state of the collections is well-typed.                            *)
THEOREM TypeCorrect == Spec => []TypeOK
<1>1. IInv => TypeOK
  BY DEF IInv
<1> QED
  BY <1>1, InvariantHolds, PTL

(* Items are paid for, delivered and returned only in an order that was     *)
(* paid in full, where no item waits for a payment.                         *)
THEOREM ItemsAlwaysFollowOrder == Spec => []ItemsFollowOrder
<1>1. IInv => ItemsFollowOrder
  BY DEF IInv
<1> QED
  BY <1>1, InvariantHolds, PTL

(* However often a ticket task is delivered, an item gets one ticket: the   *)
(* first delivery completes the order, and no order is paid again.          *)
THEOREM OneTicketForEveryItem == Spec => []OneTicketPerItem
<1>1. ASSUME IInv PROVE OneTicketPerItem
  <2>1. \A i \in Items : ticket[i] # <<>> => Len(ticket[i]) = 1
    BY <1>1 DEF IInv, TicketsFollowOrder
  <2>2. Len(<<>>) = 0
    OBVIOUS
  <2>3. \A i \in Items : Len(ticket[i]) \in {0, 1}
    BY <2>1, <2>2
  <2>4. \A n \in {0, 1} : n <= 1
    OBVIOUS
  <2> QED
    BY <2>3, <2>4 DEF OneTicketPerItem
<1> QED
  BY <1>1, InvariantHolds, PTL

(* An item has at most one refund bill, and is returned exactly when that   *)
(* bill is refunded.                                                        *)
THEOREM RefundAlwaysFollowsItem == Spec => []RefundFollowsItem
<1>1. IInv => RefundFollowsItem
  BY DEF IInv
<1> QED
  BY <1>1, InvariantHolds, PTL

(* No request and no late or repeated message revives a canceled order, and *)
(* none a returned one, but for the refund of an item that was requested    *)
(* while the order was settled.                                             *)
THEOREM OrdersStayFinal == Spec => OrderStaysFinal
<1>1. IInv /\ [Next]_vars =>
        [\A o \in Orders :
           /\ order[o].status = "canceled" => order'[o].status = "canceled"
           /\ order[o].status = "returned" =>
                \/ order'[o].status = "returned"
                \/ \E i \in ItemsIn(o) : item[i] = "return_requested"]_vars
  BY StepKeeps DEF FinalStays
<1> QED
  BY <1>1, InvariantHolds, PTL DEF Spec, OrderStaysFinal

(* Nor a canceled or returned item.                                         *)
THEOREM ItemsStayFinal == Spec => ItemStaysFinal
<1>1. IInv /\ [Next]_vars =>
        [\A i \in Items : item[i] \in {"canceled", "returned"} => item'[i] = item[i]]_vars
  BY StepKeeps DEF FinalStays
<1> QED
  BY <1>1, InvariantHolds, PTL DEF Spec, ItemStaysFinal

(* Canceled orders, and canceled and returned items, are final whatever     *)
(* transactions overlap; a returned order is, while no item waits for its   *)
(* refund.                                                                  *)
THEOREM FinalsStayFinal == Spec => FinalStaysFinal
BY OrdersStayFinal, ItemsStayFinal DEF FinalStaysFinal

-----------------------------------------------------------------------------
(* Tickets and returns: a ticket is void exactly when its item was returned.*)

SameReturned == \A i \in Items : item'[i] = "returned" <=> item[i] = "returned"

SameVoid ==
  \A i \in Items :
    /\ DOMAIN ticket'[i] = DOMAIN ticket[i]
    /\ \A n \in DOMAIN ticket[i] :
         ticket'[i][n] = "invalidated" <=> ticket[i][n] = "invalidated"

LEMMA SameStays ==
  ASSUME TicketVoidedWithReturn, SameReturned, SameVoid
  PROVE  TicketVoidedWithReturn'
BY DEF TicketVoidedWithReturn, SameReturned, SameVoid

LEMMA UntouchedTickets ==
  ASSUME UNCHANGED ticket
  PROVE  SameVoid
BY DEF SameVoid

(* A recalculation returns no item by itself.                               *)
LEMMA RecalculationReturnsNone ==
  ASSUME IInv, NEW o \in Orders, NEW its \in [ItemsIn(o) -> ItemStatusOrNone],
         NEW ord, NEW r, NEW bills,
         RecalculationEffect(ord, its, r), Written(o, r, bills)
  PROVE  \A i \in Items : item'[i] = "returned"
           <=> IF OrderOf[i] = o THEN its[i] = "returned" ELSE item[i] = "returned"
<1>1. ASSUME NEW i \in ItemsIn(o)
      PROVE  r.items[i] = "returned" <=> its[i] = "returned"
  BY <1>1 DEF RecalculationEffect, UpdateItemsStatusByOrder
<1> QED
  BY <1>1 DEF Written, ItemsIn

-----------------------------------------------------------------------------
LEMMA ServiceReturnsNone ==
  ASSUME IInv,
         \/ \E o \in Orders : \E total \in Amounts : AddOrder(o, total)
         \/ \E o \in Orders : CancelOrder(o)
         \/ \E i \in Items : \E amount \in Amounts : CreateRefundBill(i, amount)
  PROVE  SameReturned /\ SameVoid
<1>1. ASSUME NEW o \in Orders, NEW total \in Amounts, AddOrder(o, total)
      PROVE  SameReturned /\ SameVoid
  <2>1. \A i \in Items : OrderOf[i] = o => item[i] = "none"
    BY <1>1 DEF AddOrder, IInv, Linked
  <2> QED
    BY <1>1, <2>1, UntouchedTickets DEF AddOrder, SameReturned
<1>2. ASSUME NEW o \in Orders, CancelOrder(o)
      PROVE  SameReturned /\ SameVoid
  BY <1>2, UntouchedTickets DEF CancelOrder, VoidUnpaidOrder, SameReturned
<1>3. ASSUME NEW i \in Items, NEW amount \in Amounts, CreateRefundBill(i, amount)
      PROVE  SameReturned /\ SameVoid
  BY <1>3, UntouchedTickets DEF CreateRefundBill, SameReturned, IInv, TypeOK
<1> QED
  BY <1>1, <1>2, <1>3

LEMMA UpdateReturnsNone ==
  ASSUME IInv, NEW i \in Items,
         NEW new \in {"canceled", "return_requested", "return_approved", "delivered"},
         UpdateItem(i, new)
  PROVE  SameReturned /\ SameVoid
<1>1. UNCHANGED ticket
  BY UpdateItemCommits
<1>2. PICK v, wrote, r : /\ UpdatesItem(i, v, new, v.order, wrote, r, bill)
                         /\ CanUpdateOrderItemStatus(v.items[i], new)
  BY UpdateItemCommits
<1>3. /\ new \in {"canceled", "return_requested", "return_approved", "delivered", "returned"}
      /\ new # "returned" /\ v.items[i] # "returned"
  BY <1>2 DEF CanUpdateOrderItemStatus, SourcesOf
<1>4. /\ item'[i] = new /\ item[i] = v.items[i]
      /\ \A j \in Items \ {i} :
           item'[j] = item[j] \/ (item[j] = "pending_payment" /\ item'[j] = "paid")
  BY <1>2, <1>3, UpdatedItemKeeps
<1> QED
  BY <1>1, <1>3, <1>4, UntouchedTickets DEF SameReturned

LEMMA PaymentReturnsNone ==
  ASSUME IInv, NEW b \in Bills, bill[b].status = "pending", NEW v \in Views(bill[b].order),
         PaymentSucceeded(v, b)
  PROVE  SameReturned /\ SameVoid
<1> DEFINE o   == bill[b].order
           its == StatusesIn(o)
           r   == RecalculateOrderStatus([v.order EXCEPT !.paid = @ + bill[b].amount], v.items, TRUE)
<1>1. UNCHANGED ticket
  BY DEF PaymentSucceeded
<1>2. o \in Orders
  BY BillOnView
<1>3. /\ its \in [ItemsIn(o) -> ItemStatusOrNone]
      /\ \A j \in ItemsIn(o) : its[j] = item[j]
  BY <1>2, StatusesInType DEF IInv
<1>4. CASE CommitResult(v, r, {v.of}, Settled(b, "paid"))
  <2>1. r = RecalculateOrderStatus([v.order EXCEPT !.paid = @ + bill[b].amount], v.items, TRUE)
    OBVIOUS
  <2> HIDE DEF r
  <2>2. \E R : PaymentRebased(v, b, r, R)
    BY <1>4, <2>1, PaymentOnView
  <2>3. PICK R : RecalculationEffect(Credit(b), its, R) /\ Written(o, R, Settled(b, "paid"))
    BY <2>2 DEF PaymentRebased
  <2> HIDE DEF its, o
  <2>4. \A i \in Items : item'[i] = "returned"
          <=> IF OrderOf[i] = o THEN its[i] = "returned" ELSE item[i] = "returned"
    BY <1>2, <1>3, <2>3, RecalculationReturnsNone
  <2> QED
    BY <1>1, <1>3, <2>4, UntouchedTickets DEF SameReturned, ItemsIn
<1>5. CASE UNCHANGED item
  BY <1>1, <1>5, UntouchedTickets DEF SameReturned
<1> QED
  BY <1>4, <1>5 DEF PaymentSucceeded

-----------------------------------------------------------------------------
(* The refund of an item updates it to returned.                            *)
Debit(v, b) ==
  [v.order EXCEPT !.returned = @ + bill[b].amount, !.returnedItemsCount = @ + 1]

LEMMA RefundUpdatesItem ==
  ASSUME IInv, NEW b \in Bills, bill[b].status = "pending", NEW v \in Views(bill[b].order),
         bill[b].item # NoItem, CanUpdateOrderItemStatus(v.items[bill[b].item], "returned"),
         NEW r, r = UpdateOrderItemStatus(Debit(v, b), v.items, bill[b].item, "returned",
                                          Price[bill[b].item]),
         CommitResult(v, r, {v.of, bill[b].item}, Settled(b, "refunded"))
  PROVE  /\ bill[b].item \in Items /\ OrderOf[bill[b].item] = bill[b].order
         /\ v.items[bill[b].item] = "return_approved"
         /\ bill[b].order \in {v.of, bill[b].item}
         /\ UpdatesItem(bill[b].item, v, "returned", Debit(v, b), {v.of, bill[b].item}, r,
                        Settled(b, "refunded"))
<1> DEFINE i     == bill[b].item
           wrote == {v.of, i}
<1>1. /\ i \in Items /\ OrderOf[i] = bill[b].order
      /\ v.items[i] = "return_approved"
      /\ Debit(v, b) \in OrderDoc /\ Debit(v, b).status = v.order.status
      /\ wrote \in SUBSET ({OrderOf[i]} \union ItemsIn(OrderOf[i]))
      /\ i \in wrote /\ OrderOf[i] \in wrote
  BY RefundOnView DEF Debit
<1>2. /\ "returned" \in ItemStatus /\ v.items[i] # "none"
      /\ v \in Views(OrderOf[i])
      /\ CommitResult(v, r, wrote, Settled(b, "refunded"))
      /\ r = UpdateOrderItemStatus(Debit(v, b), v.items, i, "returned", Price[i])
  BY <1>1 DEF ItemStatus
<1> HIDE DEF wrote, i
<1>3. UpdatesItem(i, v, "returned", Debit(v, b), wrote, r, Settled(b, "refunded"))
  BY <1>1, <1>2 DEF UpdatesItem
<1> QED
  BY <1>1, <1>3 DEF wrote, i

(* The refund of an item returns it and voids its ticket, and no other.     *)
LEMMA RefundVoidsTicket ==
  ASSUME IInv, TicketVoidedWithReturn,
         NEW b \in Bills, bill[b].status = "pending", NEW v \in Views(bill[b].order),
         RefundSucceeded(v, b)
  PROVE  TicketVoidedWithReturn'
<1> DEFINE i == bill[b].item
           r == UpdateOrderItemStatus(Debit(v, b), v.items, i, "returned", Price[i])
<1>1. i # NoItem /\ CanUpdateOrderItemStatus(v.items[i], "returned")
  BY DEF RefundSucceeded
<1>2. CASE CommitResult(v, r, {v.of, i}, Settled(b, "refunded")) /\ VoidTicketByOrderItem(i)
  <2>1. r = UpdateOrderItemStatus(Debit(v, b), v.items, i, "returned", Price[i])
    OBVIOUS
  <2> DEFINE wrote == {v.of, i}
             bills == Settled(b, "refunded")
             debit == Debit(v, b)
  <2> HIDE DEF r
  <2>2. i \in Items /\ UpdatesItem(i, v, "returned", debit, wrote, r, bills)
    BY <1>1, <1>2, <2>1, RefundUpdatesItem
  <2> HIDE DEF i, wrote, bills, debit
  <2>3. /\ item'[i] = "returned"
        /\ \A j \in Items \ {i} :
             item'[j] = item[j] \/ (item[j] = "pending_payment" /\ item'[j] = "paid")
    <3>1. "returned" \in {"canceled", "return_requested", "return_approved", "delivered", "returned"}
      OBVIOUS
    <3> QED
      BY ONLY IInv, <1>1, <2>2, <3>1, UpdatedItemKeeps
  <2>4. \A j \in Items \ {i} : ticket'[j] = ticket[j]
    BY <1>2 DEF VoidTicketByOrderItem, IInv, TypeOK
  <2>5. \A n \in DOMAIN ticket'[i] : ticket'[i][n] = "invalidated"
    <3>1. CASE ticket[i] = <<>>
      <4>1. ticket'[i] = <<>>
        BY <1>2, <3>1 DEF VoidTicketByOrderItem
      <4> QED
        BY <4>1
    <3>2. CASE ticket[i] # <<>>
      <4>1. ticket[i] \in Seq(TicketStatus) /\ Len(ticket[i]) = 1
        BY <2>2, <3>2 DEF IInv, TypeOK, TicketsFollowOrder
      <4>2. DOMAIN ticket[i] = 1 .. 1
        BY <4>1, LenProperties
      <4>3. ticket'[i] = [ticket[i] EXCEPT ![1] = "invalidated"]
        BY <1>2, <2>2, <3>2 DEF VoidTicketByOrderItem, IInv, TypeOK
      <4> QED
        BY <4>2, <4>3
    <3> QED
      BY <3>1, <3>2
  <2> QED
    BY <2>2, <2>3, <2>4, <2>5 DEF TicketVoidedWithReturn
<1>3. CASE UNCHANGED <<item, ticket>>
  BY <1>3 DEF TicketVoidedWithReturn
<1> QED
  BY <1>2, <1>3 DEF RefundSucceeded, Debit

LEMMA TicketTaskVoidsNone ==
  ASSUME IInv, NEW o \in Orders, HandleTicketTask(o), TicketVoidedWithReturn
  PROVE  TicketVoidedWithReturn'
<1>a. task[o] = "queued"
  BY DEF HandleTicketTask
<1>1. ASSUME NEW v \in Views(o),
             CommitResult(v, MarkOrderItemsAsFulfilled(v.order, v.items), {}, bill),
             ticket' = GenerateTicketsForOrder(v.order, o)
      PROVE  TicketVoidedWithReturn'
  <2> DEFINE r == MarkOrderItemsAsFulfilled(v.order, v.items)
  <2>1. r = MarkOrderItemsAsFulfilled(v.order, v.items) /\ CommitResult(v, r, {}, bill)
    BY <1>1
  <2> HIDE DEF r
  <2>2. /\ v.order.status = "paid" => order[o].status = "paid"
        /\ \E its \in [ItemsIn(o) -> ItemStatusOrNone] : \E R :
             /\ \A j \in ItemsIn(o) :
                  its[j] = item[j] \/ (item[j] = "paid" /\ its[j] = "delivered")
             /\ RecalculationEffect(order[o], its, R)
             /\ Written(o, R, bill)
             /\ R.refund = r.refund
    BY <1>a, <2>1, TicketTaskOnView
  <2>3. PICK its \in [ItemsIn(o) -> ItemStatusOrNone] : \E R :
          /\ \A j \in ItemsIn(o) :
               its[j] = item[j] \/ (item[j] = "paid" /\ its[j] = "delivered")
          /\ RecalculationEffect(order[o], its, R)
          /\ Written(o, R, bill)
          /\ R.refund = r.refund
    BY <2>2
  <2>4. PICK R :
          /\ \A j \in ItemsIn(o) :
               its[j] = item[j] \/ (item[j] = "paid" /\ its[j] = "delivered")
          /\ RecalculationEffect(order[o], its, R)
          /\ Written(o, R, bill)
          /\ R.refund = r.refund
    BY <2>3
  <2>5. \A i \in Items : item'[i] = "returned"
          <=> IF OrderOf[i] = o THEN its[i] = "returned" ELSE item[i] = "returned"
    BY <2>4, RecalculationReturnsNone
  <2>6. SameReturned
    BY <2>4, <2>5 DEF SameReturned, ItemsIn
  <2>7. CASE v.order.status # "paid"
    BY <1>1, <2>6, <2>7, UntouchedTickets, SameStays DEF GenerateTicketsForOrder
  <2>8. CASE v.order.status = "paid"
    <3>1. ticket' = [i \in Items |-> IF OrderOf[i] = o THEN Append(ticket[i], "valid")
                                     ELSE ticket[i]]
      BY <1>1, <2>8 DEF GenerateTicketsForOrder, CountTicketsByOrder
    <3>2. \A i \in Items : OrderOf[i] = o => ticket[i] = <<>> /\ item[i] # "returned"
      BY <2>2, <2>8 DEF IInv, TicketsFollowOrder, ReturnsFollowOrder, Fulfilled, Completed, PaidUp
    <3>3. Append(<<>>, "valid") = <<"valid">> /\ \A n \in DOMAIN <<"valid">> : <<"valid">>[n] = "valid"
      OBVIOUS
    <3> QED
      BY <2>6, <3>1, <3>2, <3>3 DEF TicketVoidedWithReturn, SameReturned
  <2> QED
    BY <2>7, <2>8
<1>2. CASE UNCHANGED <<item, ticket>>
  BY <1>2 DEF TicketVoidedWithReturn
<1> QED
  BY <1>1, <1>2 DEF HandleTicketTask

-----------------------------------------------------------------------------
LEMMA StepVoidsWithReturn ==
  ASSUME IInv, TicketVoidedWithReturn, [Next]_vars
  PROVE  TicketVoidedWithReturn'
<1>1. ASSUME NEW o \in Orders,
             (\E total \in Amounts : AddOrder(o, total)) \/ CancelOrder(o)
      PROVE  TicketVoidedWithReturn'
  BY <1>1, ServiceReturnsNone, SameStays
<1>2. ASSUME NEW o \in Orders, HandleTicketTask(o)
      PROVE  TicketVoidedWithReturn'
  BY <1>2, TicketTaskVoidsNone
<1>3. ASSUME NEW o \in Orders, ExpireTickets(o)
      PROVE  TicketVoidedWithReturn'
  <2>1. SameVoid /\ SameReturned
    BY <1>3 DEF ExpireTickets, SameVoid, SameReturned
  <2> QED
    BY <2>1, SameStays
<1>4. ASSUME NEW i \in Items,
             ChangeOrderItemStatus(i) \/ RequestOrderItemRefund(i) \/ RejectOrderItemRefund(i)
      PROVE  TicketVoidedWithReturn'
  BY <1>4, UpdateReturnsNone, SameStays
  DEF ChangeOrderItemStatus, RequestOrderItemRefund, RejectOrderItemRefund
<1>5. ASSUME NEW i \in Items, NEW amount \in Amounts, CreateRefundBill(i, amount)
      PROVE  TicketVoidedWithReturn'
  BY <1>5, ServiceReturnsNone, SameStays
<1>6. ASSUME NEW i \in Items, NEW n \in DOMAIN ticket[i], CheckInTicket(i, n)
      PROVE  TicketVoidedWithReturn'
  <2>1. SameVoid /\ SameReturned
    BY <1>6 DEF CheckInTicket, SameVoid, SameReturned, IInv, TypeOK
  <2> QED
    BY <2>1, SameStays
<1>7. ASSUME NEW b \in Bills, HandleBillStatusUpdate(b)
      PROVE  TicketVoidedWithReturn'
  <2>1. bill[b].status = "pending"
    BY <1>7 DEF HandleBillStatusUpdate
  <2>2. ASSUME NEW v \in Views(bill[b].order), PaymentSucceeded(v, b)
        PROVE  TicketVoidedWithReturn'
    BY <2>1, <2>2, PaymentReturnsNone, SameStays
  <2>3. ASSUME NEW v \in Views(bill[b].order), RefundSucceeded(v, b)
        PROVE  TicketVoidedWithReturn'
    BY <2>1, <2>3, RefundVoidsTicket
  <2>4. CASE SettlementFailed(b)
    BY <2>4 DEF SettlementFailed, TicketVoidedWithReturn
  <2> QED
    BY <1>7, <2>2, <2>3, <2>4 DEF HandleBillStatusUpdate
<1>8. CASE UNCHANGED <<item, ticket>>
  BY <1>8 DEF TicketVoidedWithReturn
<1> QED
  BY <1>1, <1>2, <1>3, <1>4, <1>5, <1>6, <1>7, <1>8
  DEF Next, vars, ValidateBill, AbandonTicketTask, CreateBill, CancelBill,
      PaymentServiceReports, TakeSnapshot

(* A ticket is invalidated when its item is returned and never before,      *)
(* whatever order check-ins, expiries and refund results come in.           *)
THEOREM TicketsAreVoidedWithReturns == Spec => []TicketVoidedWithReturn
<1>1. Init => TicketVoidedWithReturn
  BY DEF Init, TicketVoidedWithReturn
<1>2. IInv /\ TicketVoidedWithReturn /\ [Next]_vars => TicketVoidedWithReturn'
  BY StepVoidsWithReturn
<1> QED
  BY <1>1, <1>2, InvariantHolds, PTL DEF Spec

-----------------------------------------------------------------------------
(* Ticket tasks.                                                            *)

(* A recalculation publishes a task where it marks the order paid, and no   *)
(* order that was paid in full goes back.                                   *)
LEMMA CommitKeepsTasks ==
  ASSUME IInv, TaskFollowsPayment, NEW o \in Orders, order[o] \in OrderDoc,
         NEW ord, ord.status = order[o].status, NEW its, NEW r,
         RecalculationEffect(ord, its, r), NEW bills, Written(o, r, bills)
  PROVE  TaskFollowsPayment'
<1>1. /\ order'[o] = r.order
      /\ task'[o] = IF r.task THEN "queued" ELSE task[o]
      /\ \A p \in Orders \ {o} : order'[p] = order[p] /\ task'[p] = task[p]
  BY DEF Written, IInv, TypeOK
<1>2. CASE r.task
  <2>1. order'[o].status = "paid" /\ task'[o] = "queued"
    BY <1>1, <1>2 DEF RecalculationEffect, MarkedPaid
  <2> QED
    BY <1>1, <2>1 DEF TaskFollowsPayment, PaidUp
<1>3. CASE ~r.task
  <2>1. r.order.status = ord.status \/ <<ord.status, r.order.status>> \in OtherMoves
    BY <1>3 DEF RecalculationEffect
  <2>2. /\ order'[o].status \in PaidUp <=> order[o].status \in PaidUp
        /\ order'[o].status = "paid" => order[o].status = "paid"
    BY <1>1, <2>1 DEF OtherMoves, PaidUp
  <2> QED
    BY <1>1, <1>3, <2>2 DEF TaskFollowsPayment
<1> QED
  BY <1>2, <1>3

LEMMA ServiceKeepsTasks ==
  ASSUME IInv, TaskFollowsPayment,
         \/ \E o \in Orders : \E total \in Amounts : AddOrder(o, total)
         \/ \E o \in Orders : CancelOrder(o) \/ AbandonTicketTask(o)
         \/ \E i \in Items : \E amount \in Amounts : CreateRefundBill(i, amount)
  PROVE  TaskFollowsPayment'
<1>1. ASSUME NEW o \in Orders, NEW total \in Amounts, AddOrder(o, total)
      PROVE  TaskFollowsPayment'
  <2>1. order[o].status \notin PaidUp
    BY <1>1 DEF AddOrder, None, PaidUp
  <2>2. /\ order'[o].status = "unpaid" /\ UNCHANGED task
        /\ \A p \in Orders \ {o} : order'[p] = order[p]
    BY <1>1 DEF AddOrder, NewOrder, IInv, TypeOK
  <2> QED
    BY <2>1, <2>2 DEF TaskFollowsPayment, PaidUp
<1>2. ASSUME NEW o \in Orders, CancelOrder(o)
      PROVE  TaskFollowsPayment'
  <2>1. order[o].status = "unpaid" /\ order[o] \in OrderDoc
    BY <1>2, OrderIsDocument DEF CancelOrder, IInv, OrderStatus
  <2>2. /\ order'[o].status = "canceled" /\ UNCHANGED task
        /\ \A p \in Orders \ {o} : order'[p] = order[p]
    BY <1>2, <2>1 DEF CancelOrder, VoidUnpaidOrder, IInv, TypeOK, OrderDoc
  <2> QED
    BY <2>1, <2>2 DEF TaskFollowsPayment, PaidUp
<1>3. ASSUME NEW o \in Orders, AbandonTicketTask(o)
      PROVE  TaskFollowsPayment'
  BY <1>3 DEF AbandonTicketTask, TaskFollowsPayment, IInv, TypeOK
<1>4. ASSUME NEW i \in Items, NEW amount \in Amounts, CreateRefundBill(i, amount)
      PROVE  TaskFollowsPayment'
  <2> DEFINE o == OrderOf[i]
  <2>1. o \in Orders /\ item[i] = "return_requested" /\ UNCHANGED task
        /\ order' = [order EXCEPT ![o].status = "return_in_progress"]
    BY <1>4, ItemsAssumption DEF CreateRefundBill
  <2>2. order[o].status \in PaidUp /\ order[o].status \in OrderStatus
    BY <2>1 DEF IInv, ReturnsFollowOrder, Fulfilled, Completed, PaidUp, OrderStatus
  <2>3. order[o] \in OrderDoc
    BY <2>1, <2>2, OrderIsDocument DEF IInv
  <2> HIDE DEF o
  <2>4. /\ order'[o].status = "return_in_progress"
        /\ \A p \in Orders \ {o} : order'[p] = order[p]
    BY <2>1, <2>3 DEF IInv, TypeOK, OrderDoc
  <2> QED
    BY <2>1, <2>2, <2>4 DEF TaskFollowsPayment, PaidUp
<1> QED
  BY <1>1, <1>2, <1>3, <1>4

LEMMA ItemUpdateKeepsTasks ==
  ASSUME IInv, TaskFollowsPayment,
         NEW i \in Items, NEW v, NEW status, NEW new, NEW wrote, NEW r, NEW bills,
         UpdatesItem(i, v, status, new, wrote, r, bills)
  PROVE  TaskFollowsPayment'
<1>0. PICK ord \in OrderDoc : \E R : UpdateRebased(i, v, status, new, wrote, r, bills, ord, R)
  BY ItemUpdateOnView
<1>1. PICK R : UpdateRebased(i, v, status, new, wrote, r, bills, ord, R)
  BY <1>0
<1>2. OrderOf[i] \in Orders /\ order[OrderOf[i]] \in OrderDoc
  BY ItemsAssumption, ItemUpdateOnView
<1> DEFINE now == [StatusesIn(OrderOf[i]) EXCEPT ![i] = status]
<1>3. /\ ord.status = order[OrderOf[i]].status
      /\ RecalculationEffect(ord, now, R)
      /\ Written(OrderOf[i], R, bills)
  BY <1>1 DEF UpdateRebased
<1> HIDE DEF now
<1> QED
  BY <1>2, <1>3, CommitKeepsTasks

LEMMA PaymentKeepsTasks ==
  ASSUME IInv, TaskFollowsPayment,
         NEW b \in Bills, bill[b].status = "pending", NEW v \in Views(bill[b].order),
         PaymentSucceeded(v, b)
  PROVE  TaskFollowsPayment'
<1> DEFINE r == RecalculateOrderStatus([v.order EXCEPT !.paid = @ + bill[b].amount], v.items, TRUE)
<1>1. CASE CommitResult(v, r, {v.of}, Settled(b, "paid"))
  <2>1. r = RecalculateOrderStatus([v.order EXCEPT !.paid = @ + bill[b].amount], v.items, TRUE)
    OBVIOUS
  <2> HIDE DEF r
  <2>2. /\ Credit(b).status = order[bill[b].order].status
        /\ \E R : PaymentRebased(v, b, r, R)
    BY <1>1, <2>1, PaymentOnView
  <2>3. PICK R : /\ RecalculationEffect(Credit(b), StatusesIn(bill[b].order), R)
                 /\ Written(bill[b].order, R, Settled(b, "paid"))
    BY <2>2 DEF PaymentRebased
  <2>4. bill[b].order \in Orders /\ order[bill[b].order] \in OrderDoc
    BY BillOnView
  <2> QED
    BY <2>2, <2>3, <2>4, CommitKeepsTasks
<1>2. CASE UNCHANGED <<order, task>>
  BY <1>2 DEF TaskFollowsPayment
<1> QED
  BY <1>1, <1>2 DEF PaymentSucceeded

LEMMA RefundKeepsTasks ==
  ASSUME IInv, TaskFollowsPayment,
         NEW b \in Bills, bill[b].status = "pending", NEW v \in Views(bill[b].order),
         RefundSucceeded(v, b)
  PROVE  TaskFollowsPayment'
<1> DEFINE i     == bill[b].item
           r     == UpdateOrderItemStatus(Debit(v, b), v.items, i, "returned", Price[i])
           wrote == {v.of, i}
           bills == Settled(b, "refunded")
           debit == Debit(v, b)
<1>1. i # NoItem /\ CanUpdateOrderItemStatus(v.items[i], "returned")
  BY DEF RefundSucceeded
<1>2. CASE CommitResult(v, r, wrote, bills)
  <2>1. r = UpdateOrderItemStatus(Debit(v, b), v.items, i, "returned", Price[i])
    OBVIOUS
  <2> HIDE DEF r
  <2>2. i \in Items /\ UpdatesItem(i, v, "returned", debit, wrote, r, bills)
    BY <1>1, <1>2, <2>1, RefundUpdatesItem
  <2> HIDE DEF i, wrote, bills, debit
  <2> QED
    BY <2>2, ItemUpdateKeepsTasks
<1>3. CASE UNCHANGED <<order, task>>
  BY <1>3 DEF TaskFollowsPayment
<1> QED
  BY <1>2, <1>3 DEF RefundSucceeded, Debit

(* The handler of a task panics on a returned order only: one that is still *)
(* paid it completes.                                                       *)
LEMMA TicketTaskKeepsTasks ==
  ASSUME IInv, TaskFollowsPayment, NEW o \in Orders, HandleTicketTask(o)
  PROVE  TaskFollowsPayment'
<1>1. task[o] = "queued"
  BY DEF HandleTicketTask
<1>2. order[o] \in OrderDoc /\ order[o].status \in PaidUp
  BY <1>1, OrderIsDocument DEF TaskFollowsPayment, IInv, Linked
<1>3. ASSUME NEW v \in Views(o),
             CommitResult(v, MarkOrderItemsAsFulfilled(v.order, v.items), {}, bill)
      PROVE  TaskFollowsPayment'
  <2> DEFINE r == MarkOrderItemsAsFulfilled(v.order, v.items)
  <2>1. r = MarkOrderItemsAsFulfilled(v.order, v.items) /\ CommitResult(v, r, {}, bill)
    BY <1>3
  <2> HIDE DEF r
  <2>2. \E its \in [ItemsIn(o) -> ItemStatusOrNone] : \E R :
          RecalculationEffect(order[o], its, R) /\ Written(o, R, bill)
    BY <1>1, <2>1, TicketTaskOnView
  <2> QED
    BY <1>2, <2>2, CommitKeepsTasks
<1>4. ASSUME NEW v \in Views(o),
             MarkOrderItemsAsFulfilled(v.order, v.items).verdict = "panic",
             task' = [task EXCEPT ![o] = "dropped"], UNCHANGED order
      PROVE  TaskFollowsPayment'
  <2>1. order[o].status # "paid"
    <3> SUFFICES ASSUME order[o].status = "paid" PROVE FALSE
      OBVIOUS
    <3>1. v.order.status = "paid"
      BY ViewIsTyped DEF Completed, PaidUp
    <3>2. MarkOrderItemsAsFulfilled(v.order, v.items).verdict = "commit"
      BY <3>1 DEF MarkOrderItemsAsFulfilled, RecalculateOrderStatus, RecalculatePaid, Commit, Result
    <3> QED
      BY <1>4, <3>2
  <2> QED
    BY <1>1, <1>4, <2>1 DEF TaskFollowsPayment, IInv, TypeOK
<1> QED
  BY <1>3, <1>4 DEF HandleTicketTask

LEMMA StepKeepsTasks ==
  ASSUME IInv, TaskFollowsPayment, [Next]_vars
  PROVE  TaskFollowsPayment'
<1>1. ASSUME NEW o \in Orders,
             \/ \E total \in Amounts : AddOrder(o, total)
             \/ CancelOrder(o) \/ AbandonTicketTask(o)
      PROVE  TaskFollowsPayment'
  BY <1>1, ServiceKeepsTasks
<1>2. ASSUME NEW o \in Orders, HandleTicketTask(o)
      PROVE  TaskFollowsPayment'
  BY <1>2, TicketTaskKeepsTasks
<1>3. ASSUME NEW i \in Items, NEW amount \in Amounts, CreateRefundBill(i, amount)
      PROVE  TaskFollowsPayment'
  BY <1>3, ServiceKeepsTasks
<1>4. ASSUME NEW i \in Items,
             NEW new \in {"canceled", "return_requested", "return_approved", "delivered"},
             UpdateItem(i, new)
      PROVE  TaskFollowsPayment'
  <2>1. PICK v, wrote, r : UpdatesItem(i, v, new, v.order, wrote, r, bill)
    BY <1>4, UpdateItemCommits
  <2> QED
    BY <2>1, ItemUpdateKeepsTasks
<1>5. ASSUME NEW i \in Items,
             ChangeOrderItemStatus(i) \/ RequestOrderItemRefund(i) \/ RejectOrderItemRefund(i)
      PROVE  TaskFollowsPayment'
  BY <1>4, <1>5 DEF ChangeOrderItemStatus, RequestOrderItemRefund, RejectOrderItemRefund
<1>6. ASSUME NEW b \in Bills, HandleBillStatusUpdate(b)
      PROVE  TaskFollowsPayment'
  <2>1. bill[b].status = "pending"
    BY <1>6 DEF HandleBillStatusUpdate
  <2>2. ASSUME NEW v \in Views(bill[b].order), PaymentSucceeded(v, b)
        PROVE  TaskFollowsPayment'
    BY <2>1, <2>2, PaymentKeepsTasks
  <2>3. ASSUME NEW v \in Views(bill[b].order), RefundSucceeded(v, b)
        PROVE  TaskFollowsPayment'
    BY <2>1, <2>3, RefundKeepsTasks
  <2>4. CASE SettlementFailed(b)
    BY <2>4 DEF SettlementFailed, TaskFollowsPayment
  <2> QED
    BY <1>6, <2>2, <2>3, <2>4 DEF HandleBillStatusUpdate
<1>7. CASE UNCHANGED <<order, task>>
  BY <1>7 DEF TaskFollowsPayment
<1> QED
  BY <1>1, <1>2, <1>3, <1>5, <1>6, <1>7
  DEF Next, vars, ValidateBill, CreateBill, CancelBill, PaymentServiceReports, TakeSnapshot,
      CheckInTicket, ExpireTickets

(* An order has its ticket task from the moment it was paid in full, not    *)
(* before, and a paid order keeps it until it is handled.                   *)
THEOREM TasksAlwaysFollowPayment == Spec => []TaskFollowsPayment
<1>1. Init => TaskFollowsPayment
  BY DEF Init, TaskFollowsPayment, None, PaidUp
<1>2. IInv /\ TaskFollowsPayment /\ [Next]_vars => TaskFollowsPayment'
  BY StepKeepsTasks
<1> QED
  BY <1>1, <1>2, InvariantHolds, PTL DEF Spec

-----------------------------------------------------------------------------
(* The books.                                                               *)
(*                                                                         *)
(* That a column is the sum of the settled bills is kept by itself: the     *)
(* step that settles a bill adds its amount.  That the sums fit the status  *)
(* is not: it needs that a refund is no larger than the price of its item   *)
(* and that the statuses of the items determine the total, so that what is  *)
(* returned is at most the price of the returned items, that is at most the *)
(* total, and the total at most what was paid.                              *)

OpenItems(its) == {i \in DOMAIN its : its[i] # "canceled"}

ReturnedItems(its) == {i \in DOMAIN its : its[i] = "returned"}

(* The amounts of an order document fit its status and the statuses its     *)
(* items have, at the moment the document is recalculated ...               *)
Booked(ord, its) ==
  /\ 0 <= ord.paid
  /\ 0 <= ord.returned
  /\ ord.returned <= SumOver(Price, ReturnedItems(its))
  /\ ord.returnedItemsCount = CountItems(its, "returned")
  /\ ord.status \in PaidUp \/ ord.returned = 0
  /\ ord.status # "canceled" => ord.total = SumOver(Price, OpenItems(its))
  /\ ord.status \in PaidUp => ord.total <= ord.paid

(* ... and once it has been recalculated: an order that is still unpaid has *)
(* an item to pay for, and neither it nor a canceled one has taken a whole  *)
(* unit of currency.                                                        *)
Balanced(ord, its) ==
  /\ Booked(ord, its)
  /\ ord.status \in {"unpaid", "canceled"} => ord.paid < Unit
  /\ ord.status = "unpaid" => OpenItems(its) # {}

(* When a recalculation ends in a status that says something of the amounts.*)
LEMMA RecalculationReads ==
  ASSUME NEW I, NEW its \in [I -> ItemStatusOrNone],
         NEW ord \in OrderDoc, NEW publisher \in BOOLEAN,
         NEW r, r = RecalculateOrderStatus(ord, its, publisher), r.verdict = "commit"
  PROVE  /\ <<ord.status, r.order.status>> \in MarkedPaid
              => ord.total \in {ord.paid, ord.paid - ord.returned}
         /\ r.order.status = "canceled"
              => \/ ord.status = "unpaid" /\ OpenItems(its) = {}
                 \/ ord.status = "partially_paid" /\ ord.returned = ord.paid
         /\ r.order.status = "unpaid"
              => ord.status = "unpaid" /\ OpenItems(its) # {} /\ ~(ord.paid \div Unit > 0)
         /\ r.refund \subseteq Nat
<1> DEFINE moved(status) == [ord EXCEPT !.status = status]
           Goal == /\ <<ord.status, r.order.status>> \in MarkedPaid
                        => ord.total \in {ord.paid, ord.paid - ord.returned}
                   /\ r.order.status = "canceled"
                        => \/ ord.status = "unpaid" /\ OpenItems(its) = {}
                           \/ ord.status = "partially_paid" /\ ord.returned = ord.paid
                   /\ r.order.status = "unpaid"
                        => ord.status = "unpaid" /\ OpenItems(its) # {} /\ ~(ord.paid \div Unit > 0)
                   /\ r.refund \subseteq Nat
<1>a. /\ ord.status \in OrderStatus /\ ord.total \in Int /\ ord.paid \in Int
      /\ ord.returned \in Int /\ ord.itemsCount \in Nat /\ ord.returnedItemsCount \in Nat
  BY DEF OrderDoc
<1>b. \A status : moved(status).status = status
  BY DEF OrderDoc
<1>c. \A verdict \in {"error", "panic"} : Abort(ord, its, verdict).verdict # "commit"
  BY DEF Abort, Result
<1>d. /\ Commit(ord, its).order = ord /\ Commit(ord, its).refund = {}
      /\ \A status : /\ Move(ord, its, status).order.status = status
                     /\ Move(ord, its, status).refund = {}
  BY <1>b DEF Move, Commit, Result
<1>e. r = UpdateOrderToPaid(ord, its, publisher) => r.order.status = "paid" /\ r.refund = {}
  BY <1>b DEF UpdateOrderToPaid, Abort, Result
<1>f. OpenItems(its) = {} <=> \A i \in DOMAIN its : its[i] = "canceled"
  BY DEF OpenItems
<1> HIDE DEF moved
<1>1. CASE ord.status = "unpaid"
  <2>1. r = RecalculateUnpaid(ord, its, publisher)
    BY <1>1 DEF RecalculateOrderStatus
  <2>2. \/ OpenItems(its) = {} /\ r = Move(ord, its, "canceled")
        \/ ord.total = ord.paid /\ r = UpdateOrderToPaid(ord, its, publisher)
        \/ r = Move(ord, its, "partially_paid")
        \/ OpenItems(its) # {} /\ ~(ord.paid \div Unit > 0) /\ ord.total # ord.paid /\ r = Commit(ord, its)
    <3>1. CASE OpenItems(its) = {}
      BY <1>f, <2>1, <3>1 DEF RecalculateUnpaid
    <3>2. CASE OpenItems(its) # {}
      <4>1. /\ ~(\A i \in DOMAIN its : its[i] = "canceled")
            /\ \E i \in DOMAIN its : its[i] # "canceled"
        BY <1>f, <3>2
      <4> QED
        BY <2>1, <3>2, <4>1 DEF RecalculateUnpaid, Decimal128ToInt64
    <3> QED
      BY <3>1, <3>2
  <2> QED
    BY <1>1, <1>d, <1>e, <2>2 DEF MarkedPaid
<1>2. CASE ord.status = "partially_paid"
  <2>1. r = RecalculatePartiallyPaid(ord, its, publisher)
    BY <1>2 DEF RecalculateOrderStatus
  <2> DEFINE refunding == Result("commit", moved("pending_refund"), its, FALSE,
                                {ord.paid - ord.total})
  <2>2. \/ ord.total = ord.paid /\ r = UpdateOrderToPaid(ord, its, publisher)
        \/ ord.total < ord.paid /\ r = refunding
        \/ ord.returned = ord.paid /\ r = Move(ord, its, "canceled")
        \/ r = Commit(ord, its)
    <3>1. \/ ord.total = ord.paid /\ ~(ord.total < ord.paid) /\ ~(ord.total > ord.paid)
          \/ ord.total # ord.paid /\ ord.total < ord.paid /\ ~(ord.total > ord.paid)
          \/ ord.total # ord.paid /\ ~(ord.total < ord.paid) /\ ord.total > ord.paid
      BY <1>a
    <3> QED
      BY ONLY <2>1, <3>1 DEF RecalculatePartiallyPaid, moved
  <2>3. /\ refunding.order.status = "pending_refund"
        /\ refunding.refund = {ord.paid - ord.total}
    BY <1>b DEF Result
  <2>4. ord.total < ord.paid => ord.paid - ord.total \in Nat
    BY <1>a
  <2> HIDE DEF refunding
  <2> QED
    BY <1>2, <1>d, <1>e, <2>2, <2>3, <2>4 DEF MarkedPaid
<1>3. CASE ord.status = "pending_refund"
  <2>1. \/ ord.paid - ord.returned = ord.total /\ r = UpdateOrderToPaid(ord, its, publisher)
        \/ r = Commit(ord, its)
    BY <1>3 DEF RecalculateOrderStatus, RecalculatePendingRefund
  <2> QED
    BY <1>3, <1>d, <1>e, <2>1 DEF MarkedPaid
<1>4. CASE ord.status = "paid"
  <2>1. r = RecalculatePaid(ord, its)
    BY <1>4 DEF RecalculateOrderStatus
  <2>2. r.order.status \in {"paid", "completed"} /\ r.refund = {}
    BY <1>4, <1>d, <2>1 DEF RecalculatePaid, Commit, Result, OrderDoc
  <2> QED
    BY <1>4, <2>2 DEF MarkedPaid
<1>5. CASE ord.status \in {"completed", "return_in_progress", "partially_returned"}
  <2>1. r \in {RecalculateCompleted(ord, its), RecalculateReturnInProgress(ord, its),
               RecalculatePartiallyReturned(ord, its)}
    BY <1>5 DEF RecalculateOrderStatus
  <2>2. r \in {Commit(ord, its), Move(ord, its, "completed"), Move(ord, its, "returned"),
               Move(ord, its, "partially_returned"), Move(ord, its, "return_in_progress")}
    <3>1. RecalculateCompleted(ord, its) \in {Commit(ord, its), Move(ord, its, "return_in_progress")}
      BY DEF RecalculateCompleted
    <3>2. RecalculateReturnInProgress(ord, its)
            \in {Commit(ord, its), Move(ord, its, "completed"), Move(ord, its, "returned"),
                 Move(ord, its, "partially_returned"), Abort(ord, its, "error")}
      BY <1>a DEF RecalculateReturnInProgress
    <3>3. RecalculatePartiallyReturned(ord, its)
            \in {Commit(ord, its), Move(ord, its, "returned"), Move(ord, its, "return_in_progress")}
      BY DEF RecalculatePartiallyReturned
    <3> QED
      BY <1>c, <2>1, <3>1, <3>2, <3>3
  <2> QED
    BY <1>5, <1>d, <2>2 DEF MarkedPaid
<1>6. ord.status \notin {"canceled", "returned"}
  BY <1>c DEF RecalculateOrderStatus
<1> QED
  BY <1>a, <1>1, <1>2, <1>3, <1>4, <1>5, <1>6 DEF OrderStatus

(* A recalculation keeps the amounts in balance with the status it sets.    *)
LEMMA RecalculationBalances ==
  ASSUME NEW I \in SUBSET Items, NEW its \in [I -> ItemStatusOrNone],
         NEW ord \in OrderDoc, NEW publisher \in BOOLEAN,
         NEW r, r = RecalculateOrderStatus(ord, its, publisher), r.verdict = "commit",
         Booked(ord, its),
         ord.status = "unpaid" /\ OpenItems(its) = {} => ord.paid < Unit
  PROVE  /\ Balanced(r.order, r.items)
         /\ RecalculationEffect(ord, its, r)
         /\ r.refund \subseteq Nat
<1>a. /\ ord.status \in OrderStatus /\ ord.total \in Int /\ ord.paid \in Int
      /\ ord.returned \in Int
  BY DEF OrderDoc
<1>b. IsFiniteSet(I)
  BY ItemsAssumption, FS_Subset
<1>1. ord.status # "canceled" /\ RecalculationEffect(ord, its, r)
  BY <1>b, RecalculationIsSound
<1>2. /\ <<ord.status, r.order.status>> \in MarkedPaid
           => ord.total \in {ord.paid, ord.paid - ord.returned}
      /\ r.order.status = "canceled"
           => \/ ord.status = "unpaid" /\ OpenItems(its) = {}
              \/ ord.status = "partially_paid" /\ ord.returned = ord.paid
      /\ r.order.status = "unpaid"
           => ord.status = "unpaid" /\ OpenItems(its) # {} /\ ~(ord.paid \div Unit > 0)
      /\ r.refund \subseteq Nat
  BY RecalculationReads
<1>3. /\ r.order.total = ord.total /\ r.order.paid = ord.paid /\ r.order.returned = ord.returned
      /\ r.order.returnedItemsCount = ord.returnedItemsCount
  BY <1>1 DEF RecalculationEffect, SameMoney
<1>4. /\ OpenItems(r.items) = OpenItems(its)
      /\ ReturnedItems(r.items) = ReturnedItems(its)
      /\ CountItems(r.items, "returned") = CountItems(its, "returned")
  <2>1. r.items = its \/ r.items = UpdateItemsStatusByOrder(its, "pending_payment", "paid")
    BY <1>1 DEF RecalculationEffect
  <2>2. /\ DOMAIN r.items = DOMAIN its
        /\ \A i \in DOMAIN its : /\ r.items[i] = "canceled" <=> its[i] = "canceled"
                                 /\ r.items[i] = "returned" <=> its[i] = "returned"
    BY <2>1 DEF UpdateItemsStatusByOrder
  <2>3. OpenItems(r.items) = OpenItems(its) /\ ReturnedItems(r.items) = ReturnedItems(its)
    BY <2>2 DEF OpenItems, ReturnedItems
  <2> QED
    BY <2>3 DEF CountItems, ReturnedItems
<1>5. /\ r.order.status \in PaidUp
           <=> ord.status \in PaidUp \/ <<ord.status, r.order.status>> \in MarkedPaid
      /\ r.order.status = ord.status \/ <<ord.status, r.order.status>> \in MarkedPaid \union OtherMoves
  BY <1>1 DEF RecalculationEffect, MarkedPaid, OtherMoves, PaidUp
<1>6. Booked(r.order, r.items)
  <2>1. r.order.status \in PaidUp \/ r.order.returned = 0
    BY <1>3, <1>5 DEF Booked
  <2>2. r.order.status \in PaidUp => r.order.total <= r.order.paid
    <3>1. CASE ord.status \in PaidUp
      BY <1>3, <3>1 DEF Booked
    <3>2. CASE <<ord.status, r.order.status>> \in MarkedPaid
      BY <1>a, <1>2, <1>3, <3>2 DEF Booked
    <3> QED
      BY <1>5, <3>1, <3>2
  <2> QED
    BY <1>1, <1>3, <1>4, <2>1, <2>2 DEF Booked
<1>7. r.order.status = "canceled" => r.order.paid < Unit
  <2>1. CASE ord.status = "unpaid" /\ OpenItems(its) = {}
    BY <1>3, <2>1
  <2>2. CASE ord.status = "partially_paid" /\ ord.returned = ord.paid
    BY <1>3, <2>2, UnitAssumption DEF Booked, PaidUp
  <2> QED
    BY <1>2, <2>1, <2>2
<1>8. r.order.status = "unpaid" => r.order.paid < Unit /\ OpenItems(r.items) # {}
  <2>1. ASSUME NEW u \in Nat \ {0}, NEW a \in Nat, ~(a \div u > 0) PROVE a < u
    BY <2>1
  <2>2. ord.paid \in Nat
    BY <1>a DEF Booked
  <2> QED
    BY <1>2, <1>3, <1>4, <2>1, <2>2, UnitAssumption
<1> QED
  BY <1>1, <1>2, <1>6, <1>7, <1>8 DEF Balanced

(* In a completed order nothing but its status moves.                       *)
LEMMA EffectBalances ==
  ASSUME NEW its, NEW ord \in OrderDoc, NEW R, RecalculationEffect(ord, its, R),
         R.items = its, ord.status \in Completed, Booked(ord, its)
  PROVE  Balanced(R.order, R.items)
<1>1. R.order.status \in Completed
  BY DEF RecalculationEffect, MarkedPaid, OtherMoves, Completed, PaidUp
<1>2. R.order.status \in PaidUp /\ ord.status \in PaidUp
      /\ R.order.status \notin {"unpaid", "canceled"} /\ ord.status # "canceled"
  BY <1>1 DEF Completed, PaidUp
<1>3. /\ R.order.total = ord.total /\ R.order.paid = ord.paid
      /\ R.order.returned = ord.returned
      /\ R.order.returnedItemsCount = ord.returnedItemsCount
  BY DEF RecalculationEffect, SameMoney
<1> QED
  BY <1>2, <1>3 DEF Balanced, Booked

-----------------------------------------------------------------------------
(* Only canceled and returned items count.                                  *)
LEMMA SameWorth ==
  ASSUME NEW its, NEW new, DOMAIN new = DOMAIN its,
         \A i \in DOMAIN its : /\ new[i] = "canceled" <=> its[i] = "canceled"
                               /\ new[i] = "returned" <=> its[i] = "returned"
  PROVE  /\ OpenItems(new) = OpenItems(its)
         /\ ReturnedItems(new) = ReturnedItems(its)
         /\ CountItems(new, "returned") = CountItems(its, "returned")
         /\ \A ord : /\ Booked(ord, new) <=> Booked(ord, its)
                     /\ Balanced(ord, new) <=> Balanced(ord, its)
<1>1. OpenItems(new) = OpenItems(its)
  BY DEF OpenItems
<1>2. ReturnedItems(new) = ReturnedItems(its)
  BY DEF ReturnedItems
<1>3. CountItems(new, "returned") = CountItems(its, "returned")
  BY <1>2 DEF CountItems, ReturnedItems
<1> QED
  BY <1>1, <1>2, <1>3 DEF Booked, Balanced

LEMMA PricesAddUp ==
  ASSUME NEW I \in SUBSET Items
  PROVE  /\ IsFiniteSet(I)
         /\ SumOver(Price, I) \in Nat
         /\ \A J \in SUBSET I : SumOver(Price, J) <= SumOver(Price, I)
         /\ \A i \in I : SumOver(Price, I) = Price[i] + SumOver(Price, I \ {i})
         /\ \A i \in Items \ I : SumOver(Price, I \union {i}) = SumOver(Price, I) + Price[i]
<1>1. IsFiniteSet(I)
  BY ItemsAssumption, FS_Subset
<1>2. \A i \in Items : Price[i] \in Nat /\ Price[i] \in Int
  BY ItemsAssumption
<1>3. SumOver(Price, I) \in Nat
  <2>1. \A i \in I : Price[i] \in Nat /\ Price[i] \in Int
    BY <1>2
  <2>2. SumOver(Price, I) \in Int
    BY <1>1, <2>1, SumIsInteger
  <2>3. I \in SUBSET I
    OBVIOUS
  <2>4. 0 <= SumOver(Price, I)
    BY <1>1, <2>1, <2>3, SumOfPart
  <2> QED
    BY <2>2, <2>4
<1>4. \A J \in SUBSET I : SumOver(Price, J) <= SumOver(Price, I)
  <2>1. \A i \in I : Price[i] \in Nat
    BY <1>2
  <2> QED
    BY <1>1, <2>1, SumOfPart
<1>5. \A i \in I : SumOver(Price, I) = Price[i] + SumOver(Price, I \ {i})
  <2>1. \A i \in I : Price[i] \in Int
    BY <1>2
  <2> QED
    BY <1>1, <2>1, SumWithout
<1>6. ASSUME NEW i \in Items \ I
      PROVE  SumOver(Price, I \union {i}) = SumOver(Price, I) + Price[i]
  <2>1. \A j \in I \union {i} : Price[j] \in Int
    BY <1>2
  <2> QED
    BY <1>1, <2>1, SumWith
<1> QED
  BY <1>1, <1>3, <1>4, <1>5, <1>6

(* An item update that cancels an item or moves its return on: the document *)
(* that is recalculated has the price of a canceled item off its total.     *)
LEMMA MovedItemIsBooked ==
  ASSUME NEW I \in SUBSET Items, NEW its \in [I -> ItemStatusOrNone], NEW i \in I,
         NEW ord \in OrderDoc, Balanced(ord, its),
         NEW new, its[i] \notin {"canceled", "returned"}, new # "returned",
         NEW reduced,
         reduced = IF new = "canceled" THEN [ord EXCEPT !.total = @ - Price[i]] ELSE ord
  PROVE  /\ Booked(reduced, [its EXCEPT ![i] = new])
         /\ reduced.status = "unpaid" => reduced.paid < Unit
<1> DEFINE moved == [its EXCEPT ![i] = new]
<1>1. CASE new # "canceled"
  <2>1. /\ DOMAIN moved = DOMAIN its
        /\ \A j \in DOMAIN its : /\ moved[j] = "canceled" <=> its[j] = "canceled"
                                 /\ moved[j] = "returned" <=> its[j] = "returned"
    BY <1>1
  <2>2. reduced = ord
    BY <1>1
  <2> HIDE DEF moved
  <2>3. Booked(ord, moved) <=> Booked(ord, its)
    BY <2>1, SameWorth
  <2> QED
    BY <2>2, <2>3 DEF Balanced, moved
<1>2. CASE new = "canceled"
  <2>1. /\ OpenItems(moved) = OpenItems(its) \ {i} /\ i \in OpenItems(its)
        /\ OpenItems(its) \in SUBSET Items
    BY <1>2 DEF OpenItems
  <2>2. ReturnedItems(moved) = ReturnedItems(its)
    BY <1>2 DEF ReturnedItems
  <2>3. CountItems(moved, "returned") = CountItems(its, "returned")
    BY <2>2 DEF CountItems, ReturnedItems
  <2>4. /\ reduced.status = ord.status /\ reduced.total = ord.total - Price[i]
        /\ reduced.paid = ord.paid /\ reduced.returned = ord.returned
        /\ reduced.returnedItemsCount = ord.returnedItemsCount
    BY <1>2 DEF OrderDoc
  <2>5. Price[i] \in Nat /\ ord.total \in Int /\ ord.paid \in Int
    BY ItemsAssumption DEF OrderDoc
  <2>6. SumOver(Price, OpenItems(its)) = Price[i] + SumOver(Price, OpenItems(its) \ {i})
    BY <2>1, PricesAddUp
  <2>7. SumOver(Price, OpenItems(its) \ {i}) \in Int
    <3>1. OpenItems(its) \ {i} \in SUBSET Items
      BY <2>1
    <3> QED
      BY <3>1, PricesAddUp
  <2> HIDE DEF moved
  <2>8. reduced.status # "canceled" => reduced.total = SumOver(Price, OpenItems(moved))
    BY <2>1, <2>4, <2>5, <2>6, <2>7 DEF Balanced, Booked
  <2>9. reduced.status \in PaidUp => reduced.total <= reduced.paid
    BY <2>4, <2>5 DEF Balanced, Booked
  <2> QED
    BY <2>2, <2>3, <2>4, <2>8, <2>9 DEF Balanced, Booked, moved
<1> QED
  BY <1>1, <1>2

(* A refund that went through books no more than the price of its item.     *)
LEMMA RefundIsBooked ==
  ASSUME NEW I \in SUBSET Items, NEW its \in [I -> ItemStatusOrNone], NEW i \in I,
         NEW ord \in OrderDoc, Balanced(ord, its), ord.status \in PaidUp,
         its[i] = "return_approved", NEW amount \in Nat, amount <= Price[i],
         NEW debit,
         debit = [ord EXCEPT !.returned = @ + amount, !.returnedItemsCount = @ + 1]
  PROVE  Booked(debit, [its EXCEPT ![i] = "returned"])
<1> DEFINE moved == [its EXCEPT ![i] = "returned"]
<1>1. /\ debit.status = ord.status /\ debit.total = ord.total /\ debit.paid = ord.paid
      /\ debit.returned = ord.returned + amount
      /\ debit.returnedItemsCount = ord.returnedItemsCount + 1
  BY DEF OrderDoc
<1>2. OpenItems(moved) = OpenItems(its)
  BY DEF OpenItems
<1>3. /\ ReturnedItems(moved) = ReturnedItems(its) \union {i} /\ i \notin ReturnedItems(its)
      /\ ReturnedItems(its) \in SUBSET Items
  BY DEF ReturnedItems
<1>4. CountItems(moved, "returned") = CountItems(its, "returned") + 1
  <2>1. IsFiniteSet(ReturnedItems(its))
    BY <1>3, PricesAddUp
  <2>2. Cardinality(ReturnedItems(its) \union {i}) = Cardinality(ReturnedItems(its)) + 1
    BY <1>3, <2>1, FS_AddElement
  <2> HIDE DEF moved
  <2> QED
    BY <1>3, <2>2 DEF CountItems, ReturnedItems
<1>5. SumOver(Price, ReturnedItems(moved)) = SumOver(Price, ReturnedItems(its)) + Price[i]
  <2> HIDE DEF moved
  <2> QED
    BY <1>3, PricesAddUp
<1>6. SumOver(Price, ReturnedItems(its)) \in Int
  BY <1>3, PricesAddUp
<1>7. Price[i] \in Int /\ ord.returned \in Int
  BY ItemsAssumption DEF OrderDoc
<1> HIDE DEF moved
<1>8. 0 <= debit.returned /\ debit.returned <= SumOver(Price, ReturnedItems(moved))
  BY <1>1, <1>5, <1>6, <1>7 DEF Balanced, Booked
<1> QED
  BY <1>1, <1>2, <1>4, <1>8 DEF Balanced, Booked, moved

(* The update of one item, the recalculation included.                      *)
LEMMA ItemUpdateBalances ==
  ASSUME NEW I \in SUBSET Items, NEW its \in [I -> ItemStatusOrNone], NEW i \in I,
         NEW ord \in OrderDoc, NEW new \in ItemStatus,
         NEW reduced \in OrderDoc,
         reduced = IF new = "canceled" THEN [ord EXCEPT !.total = @ - Price[i]] ELSE ord,
         Booked(reduced, [its EXCEPT ![i] = new]),
         reduced.status = "unpaid" => reduced.paid < Unit,
         NEW r, r = UpdateOrderItemStatus(ord, its, i, new, Price[i]), r.verdict = "commit"
  PROVE  /\ Balanced(r.order, r.items)
         /\ RecalculationEffect(reduced, [its EXCEPT ![i] = new], r)
         /\ r.refund \subseteq Nat
<1> DEFINE moved == [its EXCEPT ![i] = new]
           base  == RecalculateOrderStatus(reduced, moved, FALSE)
<1>1. moved \in [I -> ItemStatusOrNone]
  BY DEF ItemStatusOrNone
<1>2. /\ r.verdict = base.verdict /\ r.order = base.order /\ r.items = base.items
      /\ r.task = base.task
      /\ r.refund \in {base.refund, base.refund \union {Price[i]}}
  BY DEF UpdateOrderItemStatus, Result
<1>3. FALSE \in BOOLEAN /\ base.verdict = "commit" /\ Booked(reduced, moved)
  BY <1>2
<1> HIDE DEF moved
<1>4. /\ Balanced(base.order, base.items)
      /\ RecalculationEffect(reduced, moved, base)
      /\ base.refund \subseteq Nat
  BY <1>1, <1>3, RecalculationBalances
<1> HIDE DEF base
<1>5. Price[i] \in Nat
  BY ItemsAssumption
<1>6. r.refund \subseteq Nat /\ r.refund \subseteq Int
  BY <1>2, <1>4, <1>5
<1> QED
  BY <1>2, <1>4, <1>6 DEF RecalculationEffect, moved

-----------------------------------------------------------------------------
(* The books as a whole.                                                    *)

OrdersBalanced == \A o \in Placed : Balanced(order[o], StatusesIn(o))

(* No bill refunds more than the price of its item.                         *)
BillsPriced ==
  \A b \in Bills : bill[b] # None =>
    /\ bill[b].amount \in Nat
    /\ bill[b].item # NoItem => bill[b].amount <= Price[bill[b].item]

Books == BillsPriced /\ OrdersBalanced /\ AmountsAreSettled

Settlements == {"paid", "refunded"}

(* A step that settles no bill and touches no settled one.                  *)
Quiet(b) ==
  bill[b].status \in Settlements \/ bill'[b].status \in Settlements => bill'[b] = bill[b]

LEMMA SettledBillsType ==
  ASSUME NEW o, NEW type, NEW status
  PROVE  /\ SettledBills(o, type, status) \subseteq Bills
         /\ IsFiniteSet(SettledBills(o, type, status))
         /\ Sum(SettledBills(o, type, status)) = SumOfAmounts(bill, SettledBills(o, type, status))
<1>1. SettledBills(o, type, status) \subseteq Bills
  BY DEF SettledBills, BillsOf
<1>2. IsFiniteSet(SettledBills(o, type, status))
  BY <1>1, BillsAssumption, FS_Subset
<1>3. Sum(SettledBills(o, type, status)) = SumOfAmounts(bill, SettledBills(o, type, status))
  BY DEF Sum, SumOfAmounts, MapThenSumSet, MapThenFoldSet
<1> QED
  BY <1>1, <1>2, <1>3

LEMMA SumPrimed ==
  ASSUME NEW o, NEW type, NEW status
  PROVE  Sum(SettledBills(o, type, status))' = SumOfAmounts(bill', SettledBills(o, type, status)')
BY DEF Sum, SumOfAmounts, MapThenSumSet, MapThenFoldSet

LEMMA QuietBills ==
  ASSUME \A b \in Bills : Quiet(b), NEW o, NEW type, NEW status \in Settlements
  PROVE  /\ SettledBills(o, type, status)' = SettledBills(o, type, status)
         /\ Sum(SettledBills(o, type, status))' = Sum(SettledBills(o, type, status))
<1>1. SettledBills(o, type, status)' = SettledBills(o, type, status)
  BY DEF SettledBills, BillsOf, Quiet, None, Settlements
<1>2. \A b \in SettledBills(o, type, status) : bill'[b].amount = bill[b].amount
  BY DEF SettledBills, BillsOf, Quiet
<1>3. SumOfAmounts(bill', SettledBills(o, type, status))
        = SumOfAmounts(bill, SettledBills(o, type, status))
  <2> DEFINE S == SettledBills(o, type, status)
  <2>1. IsFiniteSet(S) /\ \A b \in S : bill'[b].amount = bill[b].amount
    BY <1>2, SettledBillsType
  <2> HIDE DEF S
  <2>2. SumOfAmounts(bill', S) = SumOfAmounts(bill, S)
    BY <2>1, SameAmounts
  <2> QED
    BY <2>2 DEF S
<1> QED
  BY <1>1, <1>3, SettledBillsType, SumPrimed

(* One pending bill is settled.                                             *)
LEMMA SettlingBill ==
  ASSUME BillsPriced, NEW b \in Bills, bill[b] \in BillDoc, bill[b].status = "pending",
         NEW status \in Settlements, bill'[b] = [bill[b] EXCEPT !.status = status],
         \A c \in Bills \ {b} : Quiet(c),
         NEW o, NEW type, NEW s \in Settlements
  PROVE  LET old == SettledBills(o, type, s)
         IN  IF o = bill[b].order /\ type = bill[b].type /\ s = status
             THEN /\ SettledBills(o, type, s)' = old \union {b}
                  /\ b \notin old
                  /\ Cardinality(SettledBills(o, type, s))' = Cardinality(old) + 1
                  /\ Sum(SettledBills(o, type, s))' = Sum(old) + bill[b].amount
             ELSE /\ SettledBills(o, type, s)' = old
                  /\ Sum(SettledBills(o, type, s))' = Sum(old)
<1> DEFINE old == SettledBills(o, type, s)
<1>1. /\ bill'[b] # None /\ bill'[b].status = status /\ bill'[b].order = bill[b].order
      /\ bill'[b].type = bill[b].type /\ bill'[b].amount = bill[b].amount
      /\ bill[b] # None /\ bill[b].amount \in Nat
  <2>1. bill'[b].status = status /\ bill'[b].order = bill[b].order
        /\ bill'[b].type = bill[b].type /\ bill'[b].amount = bill[b].amount
    BY DEF BillDoc
  <2>2. bill'[b] # None
    BY <2>1 DEF None, Settlements
  <2>3. bill[b] # None
    BY NoneIsNoDocument
  <2> QED
    BY <2>1, <2>2, <2>3 DEF BillsPriced
<1>2. \A c \in Bills \ {b} : c \in old <=> c \in SettledBills(o, type, s)'
  BY DEF SettledBills, BillsOf, Quiet, None, Settlements
<1>3. b \notin old
  BY DEF SettledBills, Settlements
<1>4. old \subseteq Bills /\ IsFiniteSet(old) /\ SettledBills(o, type, s)' \subseteq Bills
  <2>1. SettledBills(o, type, s)' \subseteq Bills
    BY DEF SettledBills, BillsOf
  <2>2. old \subseteq Bills /\ IsFiniteSet(old)
    BY SettledBillsType
  <2> QED
    BY <2>1, <2>2
<1>5. b \in SettledBills(o, type, s)' <=> o = bill[b].order /\ type = bill[b].type /\ s = status
  BY <1>1 DEF SettledBills, BillsOf
<1>6. \A c \in old : bill'[c].amount = bill[c].amount /\ bill[c].amount \in Int
  <2>1. \A c \in old : c \in Bills \ {b} /\ bill[c] # None /\ bill[c].status = s
    BY <1>3 DEF SettledBills, BillsOf
  <2> HIDE DEF old
  <2> QED
    BY <2>1 DEF Quiet, BillsPriced
<1>7. CASE o = bill[b].order /\ type = bill[b].type /\ s = status
  <2>1. SettledBills(o, type, s)' = old \union {b}
    <3> HIDE DEF old
    <3> QED
      BY <1>2, <1>4, <1>5, <1>7
  <2> HIDE DEF old
  <2>2. Cardinality(SettledBills(o, type, s))' = Cardinality(old) + 1
    BY <1>3, <1>4, <2>1, FS_AddElement
  <2>3. SumOfAmounts(bill', old \union {b}) = SumOfAmounts(bill, old) + bill'[b].amount
    <3> DEFINE new == bill'
    <3>1. new[b].amount \in Int
      BY <1>1
    <3>2. \A c \in old : new[c].amount = bill[c].amount /\ bill[c].amount \in Int
      BY <1>6
    <3> HIDE DEF new
    <3>3. SumOfAmounts(new, old \union {b}) = SumOfAmounts(bill, old) + new[b].amount
      BY ONLY <1>3, <1>4, <3>1, <3>2, OneMoreAmount
    <3> QED
      BY <3>3 DEF new
  <2>4. Sum(old) = SumOfAmounts(bill, old)
    BY SettledBillsType DEF old
  <2>5. Sum(SettledBills(o, type, s))' = Sum(old) + bill[b].amount
    <3>1. Sum(SettledBills(o, type, s))' = SumOfAmounts(bill', SettledBills(o, type, s)')
      BY SumPrimed
    <3> QED
      BY ONLY <1>1, <2>1, <2>3, <2>4, <3>1
  <2> QED
    BY <1>3, <1>7, <2>1, <2>2, <2>5 DEF old
<1>8. CASE ~(o = bill[b].order /\ type = bill[b].type /\ s = status)
  <2>1. SettledBills(o, type, s)' = old
    <3> HIDE DEF old
    <3> QED
      BY <1>2, <1>3, <1>4, <1>5, <1>8
  <2>2. Sum(old) = SumOfAmounts(bill, old)
    BY SettledBillsType
  <2> HIDE DEF old
  <2>3. SumOfAmounts(bill', old) = SumOfAmounts(bill, old)
    BY <1>4, <1>6, SameAmounts
  <2>4. Sum(SettledBills(o, type, s))' = Sum(old)
    BY <2>1, <2>2, <2>3, SumPrimed
  <2> QED
    BY <1>8, <2>1, <2>4 DEF old
<1> QED
  BY <1>7, <1>8

-----------------------------------------------------------------------------
(* What a step has to show for the books.                                   *)

(* No bill is settled and no order takes or gives back money.               *)
LEMMA AmountsKept ==
  ASSUME IInv, AmountsAreSettled, OrdersBalanced', \A b \in Bills : Quiet(b),
         \A o \in Orders : order'[o] # None =>
           \/ /\ order[o] # None
              /\ order'[o].paid = order[o].paid /\ order'[o].returned = order[o].returned
              /\ order'[o].returnedItemsCount = order[o].returnedItemsCount
           \/ /\ order[o] = None
              /\ order'[o].paid = 0 /\ order'[o].returned = 0
              /\ order'[o].returnedItemsCount = 0
  PROVE  AmountsAreSettled'
<1>1. ASSUME NEW o \in Orders, order'[o] # None
      PROVE  /\ order'[o].paid = Sum(SettledBills(o, "payment", "paid"))'
             /\ order'[o].returned = Sum(SettledBills(o, "refund", "refunded"))'
             /\ order'[o].returnedItemsCount = Cardinality(SettledBills(o, "refund", "refunded"))'
             /\ order'[o].returnedItemsCount = CountItems(StatusesIn(o), "returned")'
  <2>1. /\ SettledBills(o, "payment", "paid")' = SettledBills(o, "payment", "paid")
        /\ Sum(SettledBills(o, "payment", "paid"))' = Sum(SettledBills(o, "payment", "paid"))
        /\ SettledBills(o, "refund", "refunded")' = SettledBills(o, "refund", "refunded")
        /\ Sum(SettledBills(o, "refund", "refunded"))' = Sum(SettledBills(o, "refund", "refunded"))
    BY QuietBills DEF Settlements
  <2>2. order'[o].returnedItemsCount = CountItems(StatusesIn(o), "returned")'
    BY <1>1 DEF OrdersBalanced, Placed, Balanced, Booked
  <2>3. CASE order[o] # None
    <3>1. o \in Placed
      BY <2>3 DEF Placed
    <3> QED
      BY <1>1, <2>1, <2>2, <2>3, <3>1 DEF AmountsAreSettled, PaidIsSettled, ReturnedIsSettled
  <2>4. CASE order[o] = None
    <3>1. \A type, status : SettledBills(o, type, status) = {}
      BY <2>4 DEF SettledBills, BillsOf, IInv, Linked
    <3>2. \A type, status : Sum(SettledBills(o, type, status)) = 0
      BY <3>1, SettledBillsType, NoAmounts
    <3>3. Cardinality({}) = 0
      BY FS_EmptySet
    <3> QED
      BY <1>1, <2>1, <2>2, <2>4, <3>1, <3>2, <3>3
  <2> QED
    BY <2>3, <2>4
<1> QED
  BY <1>1 DEF AmountsAreSettled, PaidIsSettled, ReturnedIsSettled, Placed

(* A bill is settled and its order books it.                                *)
LEMMA AmountBooked ==
  ASSUME IInv, BillsPriced, AmountsAreSettled, OrdersBalanced',
         NEW b \in Bills, bill[b] \in BillDoc, bill[b].status = "pending",
         NEW status \in Settlements, bill'[b] = [bill[b] EXCEPT !.status = status],
         <<bill[b].type, status>> \in {<<"payment", "paid">>, <<"refund", "refunded">>},
         \A c \in Bills \ {b} : Quiet(c),
         \A o \in Orders : order'[o] # None => order[o] # None,
         \A o \in Orders : order'[o] # None =>
           LET settled == IF o = bill[b].order THEN status ELSE "none"
           IN  /\ order'[o].paid =
                    IF settled = "paid" THEN order[o].paid + bill[b].amount ELSE order[o].paid
               /\ order'[o].returned =
                    IF settled = "refunded" THEN order[o].returned + bill[b].amount
                    ELSE order[o].returned
               /\ order'[o].returnedItemsCount =
                    IF settled = "refunded" THEN order[o].returnedItemsCount + 1
                    ELSE order[o].returnedItemsCount
  PROVE  AmountsAreSettled'
<1>1. ASSUME NEW o \in Orders, order'[o] # None
      PROVE  /\ order'[o].paid = Sum(SettledBills(o, "payment", "paid"))'
             /\ order'[o].returned = Sum(SettledBills(o, "refund", "refunded"))'
             /\ order'[o].returnedItemsCount = Cardinality(SettledBills(o, "refund", "refunded"))'
             /\ order'[o].returnedItemsCount = CountItems(StatusesIn(o), "returned")'
  <2>1. o \in Placed
    BY <1>1 DEF Placed
  <2>2. /\ order[o].paid = Sum(SettledBills(o, "payment", "paid"))
        /\ order[o].returned = Sum(SettledBills(o, "refund", "refunded"))
        /\ order[o].returnedItemsCount = Cardinality(SettledBills(o, "refund", "refunded"))
    BY <2>1 DEF AmountsAreSettled, PaidIsSettled, ReturnedIsSettled
  <2>3. order'[o].returnedItemsCount = CountItems(StatusesIn(o), "returned")'
    BY <1>1 DEF OrdersBalanced, Placed, Balanced, Booked
  <2>4. Sum(SettledBills(o, "payment", "paid"))'
          = IF o = bill[b].order /\ bill[b].type = "payment" /\ status = "paid"
            THEN Sum(SettledBills(o, "payment", "paid")) + bill[b].amount
            ELSE Sum(SettledBills(o, "payment", "paid"))
    <3>1. "paid" \in Settlements
      BY DEF Settlements
    <3> QED
      BY <3>1, SettlingBill
  <2>5. /\ Sum(SettledBills(o, "refund", "refunded"))'
             = IF o = bill[b].order /\ bill[b].type = "refund" /\ status = "refunded"
               THEN Sum(SettledBills(o, "refund", "refunded")) + bill[b].amount
               ELSE Sum(SettledBills(o, "refund", "refunded"))
        /\ Cardinality(SettledBills(o, "refund", "refunded"))'
             = IF o = bill[b].order /\ bill[b].type = "refund" /\ status = "refunded"
               THEN Cardinality(SettledBills(o, "refund", "refunded")) + 1
               ELSE Cardinality(SettledBills(o, "refund", "refunded"))
    <3>1. "refunded" \in Settlements
      BY DEF Settlements
    <3> QED
      BY <3>1, SettlingBill
  <2>6. /\ bill[b].type = "payment" <=> status = "paid"
        /\ bill[b].type = "refund" <=> status = "refunded"
    BY DEF Settlements
  <2> QED
    BY <1>1, <2>2, <2>3, <2>4, <2>5, <2>6
<1> QED
  BY <1>1 DEF AmountsAreSettled, PaidIsSettled, ReturnedIsSettled, Placed

-----------------------------------------------------------------------------
(* Pieces of the steps.                                                     *)

LEMMA OrdersStayBalanced ==
  ASSUME OrdersBalanced, UNCHANGED <<order, item>>
  PROVE  OrdersBalanced'
BY DEF OrdersBalanced, Placed, StatusesIn

(* A committed recalculation: its order is what it says, no other moves.    *)
LEMMA CommitBalances ==
  ASSUME IInv, OrdersBalanced, NEW o \in Orders, NEW r, NEW bills, Written(o, r, bills),
         r.items \in [ItemsIn(o) -> ItemStatusOrNone], Balanced(r.order, r.items)
  PROVE  /\ OrdersBalanced'
         /\ order'[o] = r.order
         /\ \A p \in Orders \ {o} : order'[p] = order[p]
<1>1. order'[o] = r.order /\ \A p \in Orders \ {o} : order'[p] = order[p]
  BY DEF Written, IInv, TypeOK
<1>2. StatusesIn(o)' = r.items
  <2>1. StatusesIn(o)' = [i \in ItemsIn(o) |-> item'[i]]
    BY DEF StatusesIn
  <2>2. \A i \in ItemsIn(o) : item'[i] = r.items[i]
    BY DEF Written, ItemsIn
  <2>3. r.items = [i \in ItemsIn(o) |-> r.items[i]]
    OBVIOUS
  <2> QED
    BY <2>1, <2>2, <2>3
<1>3. ASSUME NEW p \in Orders \ {o} PROVE StatusesIn(p)' = StatusesIn(p)
  <2>1. StatusesIn(p)' = [i \in ItemsIn(p) |-> item'[i]]
    BY DEF StatusesIn
  <2>2. \A i \in ItemsIn(p) : item'[i] = item[i]
    BY DEF Written, ItemsIn
  <2> QED
    BY <2>1, <2>2 DEF StatusesIn
<1>4. ASSUME NEW p \in Orders, order'[p] # None
      PROVE  Balanced(order'[p], StatusesIn(p)')
  <2>1. CASE p = o
    BY <1>1, <1>2, <2>1
  <2>2. CASE p # o
    BY <1>1, <1>3, <1>4, <2>2 DEF OrdersBalanced, Placed
  <2> QED
    BY <2>1, <2>2
<1>5. OrdersBalanced'
  BY <1>4 DEF OrdersBalanced, Placed
<1> QED
  BY <1>1, <1>5

(* The refund bill a transaction opens is pending and of no item.           *)
LEMMA OpenedBill ==
  ASSUME TypeOK, NEW o \in Orders, NEW amounts \in SUBSET Nat,
         NEW bills \in [Bills -> BillDoc \union {None}],
         \A b \in Bills : bill[b] = None <=> bills[b] = None,
         OpenRefundBill(o, amounts, bills)
  PROVE  \A b \in Bills :
           /\ bill[b] # None => bill'[b] = bills[b]
           /\ bill[b] = None /\ bill'[b] # None =>
                /\ bill'[b].status = "pending" /\ bill'[b].item = NoItem
                /\ bill'[b].amount \in Nat
<1>1. CASE bill' = bills
  BY <1>1
<1>2. CASE \E b \in FreshBills, amount \in amounts :
             bill' = [bills EXCEPT ![b] = NewBill(o, "refund", amount, NoItem, FALSE)]
  <2>1. PICK b \in FreshBills, amount \in amounts :
          bill' = [bills EXCEPT ![b] = NewBill(o, "refund", amount, NoItem, FALSE)]
    BY <1>2
  <2> DEFINE new == NewBill(o, "refund", amount, NoItem, FALSE)
  <2>2. new.status = "pending" /\ new.item = NoItem /\ new.amount \in Nat
    BY DEF NewBill
  <2>3. b \in Bills /\ bill[b] = None
    BY DEF FreshBills
  <2>4. bill' = [bills EXCEPT ![b] = new]
    BY <2>1
  <2> HIDE DEF new
  <2> QED
    BY <2>2, <2>3, <2>4
<1> QED
  BY <1>1, <1>2 DEF OpenRefundBill

(* The bills of a step: those there were keep their amount and their item,  *)
(* a new one is pending.                                                    *)
LEMMA BillsStayPriced ==
  ASSUME BillsPriced,
         \A b \in Bills : bill'[b] # None =>
           \/ /\ bill[b] # None
              /\ bill'[b].amount = bill[b].amount /\ bill'[b].item = bill[b].item
           \/ bill'[b].amount \in Nat /\ bill'[b].item = NoItem
  PROVE  BillsPriced'
BY DEF BillsPriced

(* A transaction that recalculates an order and settles no bill: an item    *)
(* update or a ticket task.                                                 *)
LEMMA RecalculationKeepsBooks ==
  ASSUME IInv, Books, NEW o \in Orders, order[o] # None, NEW r,
         Written(o, r, bill),
         r.items \in [ItemsIn(o) -> ItemStatusOrNone], Balanced(r.order, r.items),
         r.refund \subseteq Nat,
         r.order.paid = order[o].paid, r.order.returned = order[o].returned,
         r.order.returnedItemsCount = order[o].returnedItemsCount
  PROVE  Books'
<1>1. /\ OrdersBalanced'
      /\ order'[o] = r.order
      /\ \A p \in Orders \ {o} : order'[p] = order[p]
  BY CommitBalances DEF Books
<1>2. \A b \in Bills :
        /\ bill[b] # None => bill'[b] = bill[b]
        /\ bill[b] = None /\ bill'[b] # None =>
             /\ bill'[b].status = "pending" /\ bill'[b].item = NoItem
             /\ bill'[b].amount \in Nat
  <2>1. OpenRefundBill(o, r.refund, bill) /\ r.refund \in SUBSET Nat
    BY DEF Written
  <2>2. bill \in [Bills -> BillDoc \union {None}] /\ TypeOK
    BY DEF IInv, TypeOK
  <2>3. \A b \in Bills : bill[b] = None <=> bill[b] = None
    OBVIOUS
  <2> QED
    BY ONLY <2>1, <2>2, <2>3, OpenedBill, o \in Orders
<1>3. BillsPriced'
  BY <1>2, BillsStayPriced DEF Books
<1>4. \A b \in Bills : Quiet(b)
  BY <1>2 DEF Quiet, Settlements, None
<1>5. \A p \in Orders : order'[p] # None =>
        /\ order[p] # None
        /\ order'[p].paid = order[p].paid /\ order'[p].returned = order[p].returned
        /\ order'[p].returnedItemsCount = order[p].returnedItemsCount
  BY <1>1
<1> QED
  BY <1>1, <1>3, <1>4, <1>5, AmountsKept DEF Books

(* A transaction that settles a pending bill and recalculates its order.    *)
LEMMA SettlementKeepsBooks ==
  ASSUME IInv, Books, NEW b \in Bills, bill[b] \in BillDoc, bill[b].status = "pending",
         NEW status \in Settlements,
         <<bill[b].type, status>> \in {<<"payment", "paid">>, <<"refund", "refunded">>},
         order[bill[b].order] # None,
         NEW r, Written(bill[b].order, r, Settled(b, status)),
         r.items \in [ItemsIn(bill[b].order) -> ItemStatusOrNone], Balanced(r.order, r.items),
         r.refund \subseteq Nat,
         LET o == bill[b].order
         IN  /\ r.order.paid = IF status = "paid" THEN order[o].paid + bill[b].amount
                               ELSE order[o].paid
             /\ r.order.returned = IF status = "refunded" THEN order[o].returned + bill[b].amount
                                   ELSE order[o].returned
             /\ r.order.returnedItemsCount =
                  IF status = "refunded" THEN order[o].returnedItemsCount + 1
                  ELSE order[o].returnedItemsCount
  PROVE  Books'
<1> DEFINE o == bill[b].order
<1>a. o \in Orders /\ status \in BillStatus /\ TypeOK /\ bill[b] # None
  BY NoneIsNoDocument DEF BillDoc, Settlements, BillStatus, IInv
<1>1. /\ OrdersBalanced'
      /\ order'[o] = r.order
      /\ \A p \in Orders \ {o} : order'[p] = order[p]
  BY <1>a, CommitBalances DEF Books
<1>2. /\ Settled(b, status) \in [Bills -> BillDoc \union {None}]
      /\ Settled(b, status)[b] = [bill[b] EXCEPT !.status = status]
      /\ Settled(b, status)[b] \in BillDoc
      /\ \A c \in Bills \ {b} : Settled(b, status)[c] = bill[c]
  BY <1>a, SettledBill DEF Settled, TypeOK
<1>3. \A c \in Bills :
        /\ bill[c] # None => bill'[c] = Settled(b, status)[c]
        /\ bill[c] = None /\ bill'[c] # None =>
             /\ bill'[c].status = "pending" /\ bill'[c].item = NoItem
             /\ bill'[c].amount \in Nat
  <2>1. OpenRefundBill(o, r.refund, Settled(b, status)) /\ r.refund \in SUBSET Nat
    BY DEF Written
  <2>2. \A c \in Bills : bill[c] = None <=> Settled(b, status)[c] = None
    BY <1>a, <1>2, NoneIsNoDocument
  <2> HIDE DEF o
  <2> QED
    BY ONLY <1>a, <1>2, <2>1, <2>2, OpenedBill
<1>4. /\ bill'[b] = [bill[b] EXCEPT !.status = status]
      /\ \A c \in Bills \ {b} : Quiet(c)
  BY <1>a, <1>2, <1>3 DEF Quiet, Settlements, None
<1>5. BillsPriced'
  <2>1. bill'[b].amount = bill[b].amount /\ bill'[b].item = bill[b].item
    BY <1>4 DEF BillDoc
  <2> QED
    BY <1>a, <1>2, <1>3, <2>1, BillsStayPriced DEF Books
<1>6. \A p \in Orders : order'[p] # None => order[p] # None
  BY <1>1
<1>7. \A p \in Orders : order'[p] # None =>
        LET settled == IF p = o THEN status ELSE "none"
        IN  /\ order'[p].paid =
                 IF settled = "paid" THEN order[p].paid + bill[b].amount ELSE order[p].paid
            /\ order'[p].returned =
                 IF settled = "refunded" THEN order[p].returned + bill[b].amount
                 ELSE order[p].returned
            /\ order'[p].returnedItemsCount =
                 IF settled = "refunded" THEN order[p].returnedItemsCount + 1
                 ELSE order[p].returnedItemsCount
  BY <1>1
<1>8. AmountsAreSettled'
  <2>1. BillsPriced /\ AmountsAreSettled
    BY DEF Books
  <2> QED
    BY <1>1, <1>4, <1>6, <1>7, <2>1, AmountBooked
<1> QED
  BY <1>1, <1>5, <1>8 DEF Books

(* A step that leaves orders and items alone and settles no bill.           *)
LEMMA BillStepKeepsBooks ==
  ASSUME IInv, Books, UNCHANGED <<order, item>>,
         \A b \in Bills : Quiet(b),
         \A b \in Bills : bill'[b] # None =>
           \/ /\ bill[b] # None
              /\ bill'[b].amount = bill[b].amount /\ bill'[b].item = bill[b].item
           \/ bill'[b].amount \in Nat /\ bill'[b].item = NoItem
  PROVE  Books'
<1>1. BillsPriced' /\ OrdersBalanced'
  BY BillsStayPriced, OrdersStayBalanced DEF Books
<1>2. \A p \in Orders : order'[p] # None =>
        /\ order[p] # None
        /\ order'[p].paid = order[p].paid /\ order'[p].returned = order[p].returned
        /\ order'[p].returnedItemsCount = order[p].returnedItemsCount
  OBVIOUS
<1> QED
  BY <1>1, <1>2, AmountsKept DEF Books

-----------------------------------------------------------------------------
(* Every action keeps the books.                                            *)

LEMMA OrderInPlace ==
  ASSUME IInv, OrdersBalanced, NEW o \in Orders, order[o] # None
  PROVE  /\ order[o] \in OrderDoc
         /\ ItemsIn(o) \in SUBSET Items /\ IsFiniteSet(ItemsIn(o))
         /\ StatusesIn(o) \in [ItemsIn(o) -> ItemStatusOrNone]
         /\ \A i \in ItemsIn(o) : StatusesIn(o)[i] = item[i]
         /\ Balanced(order[o], StatusesIn(o))
<1>1. order[o] \in OrderDoc
  BY OrderIsDocument DEF IInv
<1>2. /\ ItemsIn(o) \in SUBSET Items /\ IsFiniteSet(ItemsIn(o))
      /\ StatusesIn(o) \in [ItemsIn(o) -> ItemStatusOrNone]
      /\ \A i \in ItemsIn(o) : StatusesIn(o)[i] = item[i]
  BY ItemsInFinite, StatusesInType DEF IInv
<1>3. Balanced(order[o], StatusesIn(o))
  BY DEF OrdersBalanced, Placed
<1> QED
  BY <1>1, <1>2, <1>3

LEMMA BilledOrderInPlace ==
  ASSUME IInv, NEW b \in Bills, bill[b].status = "pending"
  PROVE  bill[b] \in BillDoc /\ bill[b] # None
         /\ bill[b].order \in Orders /\ order[bill[b].order] # None
<1>1. bill[b] \in BillDoc
  BY BillIsDocument DEF IInv, BillStatus
<1>2. bill[b] # None /\ bill[b].order \in Orders
  BY <1>1, NoneIsNoDocument DEF BillDoc
<1> QED
  BY <1>1, <1>2 DEF IInv, Linked

(* An item update that comes to a result R on the present document and the  *)
(* present items leaves them in balance.                                    *)
LEMMA ItemUpdateOnViewBalances ==
  ASSUME IInv, NEW i \in Items, NEW v, NEW status, NEW new, NEW wrote, NEW r, NEW bills,
         UpdatesItem(i, v, status, new, wrote, r, bills),
         NEW ord \in OrderDoc, NEW R, UpdateRebased(i, v, status, new, wrote, r, bills, ord, R),
         Booked(ord, [StatusesIn(OrderOf[i]) EXCEPT ![i] = status]),
         ord.status = "unpaid" => ord.paid < Unit
  PROVE  /\ Balanced(R.order, R.items)
         /\ R.items \in [ItemsIn(OrderOf[i]) -> ItemStatusOrNone]
         /\ R.refund \subseteq Nat
         /\ SameMoney(ord, R.order)
<1> USE DEF UpdatesItem, UpdateRebased
<1> DEFINE o       == OrderOf[i]
           its     == StatusesIn(o)
           moved   == [its EXCEPT ![i] = status]
           shown   == v.items
           onView  == [shown EXCEPT ![i] = status]
           reduced == IF status = "canceled" THEN [new EXCEPT !.total = @ - Price[i]] ELSE new
           base    == RecalculateOrderStatus(reduced, onView, FALSE)
<1>1. /\ o \in Orders /\ i \in ItemsIn(o) /\ ItemsIn(o) \in SUBSET Items
      /\ Price[i] \in Nat
  BY ItemsAssumption DEF ItemsIn
<1>2. /\ its \in [ItemsIn(o) -> ItemStatusOrNone]
      /\ shown \in [ItemsIn(o) -> ItemStatusOrNone]
      /\ v = Now(o) => v.order = order[o] /\ shown = its
  BY <1>1, ViewIsTyped, StatusesInType DEF IInv
<1>3. /\ moved \in [ItemsIn(o) -> ItemStatusOrNone]
      /\ onView \in [ItemsIn(o) -> ItemStatusOrNone]
  BY <1>2 DEF ItemStatusOrNone
<1>4. reduced \in OrderDoc
  BY <1>1 DEF OrderDoc
<1>5. r.verdict = "commit" /\ r = UpdateOrderItemStatus(new, shown, i, status, Price[i])
  BY DEF CommitResult
<1>6. /\ r.verdict = base.verdict
      /\ r.refund \in {base.refund, base.refund \union {Price[i]}}
  BY ONLY <1>5 DEF UpdateOrderItemStatus, Result
<1>7. R.refund = r.refund /\ RecalculationEffect(ord, moved, R) /\ Booked(ord, moved)
      /\ ord.status = order[o].status
  OBVIOUS
<1>8. R.items \in [ItemsIn(o) -> ItemStatusOrNone] /\ SameMoney(ord, R.order)
  <2> HIDE DEF moved
  <2> QED
    BY <1>3, <1>7 DEF RecalculationEffect
<1>9. R.refund \subseteq Nat
  <2>1. base.verdict = "commit" /\ FALSE \in BOOLEAN
    BY <1>5, <1>6
  <2>2. base = RecalculateOrderStatus(reduced, onView, FALSE)
    OBVIOUS
  <2> HIDE DEF base, reduced, onView
  <2>3. base.refund \subseteq Nat
    BY ONLY <1>3, <1>4, <2>1, <2>2, RecalculationReads
  <2> QED
    BY <1>1, <1>6, <1>7, <2>3
<1>10. Balanced(R.order, R.items)
  <2>1. CASE v = Now(o)
    <3>1. shown = its /\ R = r /\ reduced = ord
      BY <1>2, <2>1
    <3>2. reduced = IF status = "canceled" THEN [new EXCEPT !.total = @ - Price[i]] ELSE new
      OBVIOUS
    <3>3. /\ Booked(reduced, [its EXCEPT ![i] = status])
          /\ reduced.status = "unpaid" => reduced.paid < Unit
          /\ r = UpdateOrderItemStatus(new, its, i, status, Price[i])
          /\ new \in OrderDoc /\ status \in ItemStatus
      BY <1>5, <1>7, <3>1
    <3> HIDE DEF reduced, its, o
    <3>4. Balanced(r.order, r.items)
      BY ONLY <1>1, <1>2, <1>4, <1>5, <3>2, <3>3, ItemUpdateBalances
    <3> QED
      BY <3>1, <3>4
  <2>2. CASE v # Now(o)
    <3>1. ord.status \in Completed /\ R.items = moved
      BY <1>7, <2>2
    <3> HIDE DEF moved
    <3> QED
      BY ONLY <1>7, <3>1, ord \in OrderDoc, EffectBalances
  <2> QED
    BY <2>1, <2>2
<1> QED
  BY <1>8, <1>9, <1>10

LEMMA UpdateItemKeepsBooks ==
  ASSUME IInv, Books, NEW i \in Items,
         NEW new \in {"canceled", "return_requested", "return_approved", "delivered"},
         UpdateItem(i, new)
  PROVE  Books'
<1> DEFINE o       == OrderOf[i]
           its     == StatusesIn(o)
           reduced == IF new = "canceled" THEN [order[o] EXCEPT !.total = @ - Price[i]]
                      ELSE order[o]
<1>1. PICK v, wrote, r :
        /\ UpdatesItem(i, v, new, v.order, wrote, r, bill)
        /\ CanUpdateOrderItemStatus(v.items[i], new)
        /\ wrote = IF new = "canceled" THEN {i, OrderOf[i]} ELSE {i}
  BY UpdateItemCommits
<1>2. /\ item[i] = v.items[i] /\ order[o] \in OrderDoc
      /\ o \in wrote => v.order = order[o]
      /\ \E ord \in OrderDoc : \E R : UpdateRebased(i, v, new, v.order, wrote, r, bill, ord, R)
  BY <1>1, ItemUpdateOnView
<1>3. PICK ord \in OrderDoc : \E R : UpdateRebased(i, v, new, v.order, wrote, r, bill, ord, R)
  BY <1>2
<1>4. PICK R : UpdateRebased(i, v, new, v.order, wrote, r, bill, ord, R)
  BY <1>3
<1>5. o \in Orders /\ i \in ItemsIn(o) /\ order[o] # None
  BY <1>2, ItemsAssumption, NoneIsNoDocument DEF ItemsIn
<1>6. /\ order[o] \in OrderDoc /\ ItemsIn(o) \in SUBSET Items
      /\ its \in [ItemsIn(o) -> ItemStatusOrNone] /\ its[i] = item[i]
      /\ Balanced(order[o], its)
  BY <1>5, OrderInPlace DEF Books
<1>7. its[i] \notin {"canceled", "returned"} /\ new # "returned"
  BY <1>1, <1>2, <1>6 DEF CanUpdateOrderItemStatus, SourcesOf
<1>8. /\ ord = reduced
      /\ Written(o, R, bill)
  BY <1>1, <1>2, <1>4 DEF UpdateRebased
<1>9. /\ ord.paid = order[o].paid /\ ord.returned = order[o].returned
      /\ ord.returnedItemsCount = order[o].returnedItemsCount
  BY <1>6, <1>8 DEF OrderDoc
<1>10. /\ Booked(ord, [its EXCEPT ![i] = new])
       /\ ord.status = "unpaid" => ord.paid < Unit
  <2>1. reduced = IF new = "canceled" THEN [order[o] EXCEPT !.total = @ - Price[i]] ELSE order[o]
    OBVIOUS
  <2> HIDE DEF its, reduced
  <2>2. /\ Booked(reduced, [its EXCEPT ![i] = new])
        /\ reduced.status = "unpaid" => reduced.paid < Unit
    BY ONLY <1>5, <1>6, <1>7, <2>1, MovedItemIsBooked, ZenonT(60)
  <2> QED
    BY <1>8, <2>2
<1>11. /\ Balanced(R.order, R.items)
       /\ R.items \in [ItemsIn(o) -> ItemStatusOrNone]
       /\ R.refund \subseteq Nat
       /\ SameMoney(ord, R.order)
  BY <1>1, <1>4, <1>10, ItemUpdateOnViewBalances
<1>12. /\ R.order.paid = order[o].paid /\ R.order.returned = order[o].returned
       /\ R.order.returnedItemsCount = order[o].returnedItemsCount
  BY <1>9, <1>11 DEF SameMoney
<1> HIDE DEF o
<1> QED
  BY <1>5, <1>8, <1>11, <1>12, RecalculationKeepsBooks

LEMMA TicketTaskKeepsBooks ==
  ASSUME IInv, Books, NEW o \in Orders, HandleTicketTask(o)
  PROVE  Books'
<1>1. task[o] = "queued"
  BY DEF HandleTicketTask
<1>2. CASE UNCHANGED <<order, item, bill>>
  BY <1>2, BillStepKeepsBooks DEF Quiet, Books, BillsPriced
<1>3. ASSUME NEW v \in Views(o), NEW r, r = MarkOrderItemsAsFulfilled(v.order, v.items),
             CommitResult(v, r, {}, bill)
      PROVE  Books'
  <2>1. /\ order[o] \in OrderDoc /\ order[o] # None
        /\ \E its \in [ItemsIn(o) -> ItemStatusOrNone] : \E R :
              /\ \A j \in ItemsIn(o) :
                   its[j] = item[j] \/ (item[j] = "paid" /\ its[j] = "delivered")
              /\ RecalculationEffect(order[o], its, R)
              /\ Written(o, R, bill)
              /\ R.refund = r.refund
              /\ IF v = Now(o) THEN R = r ELSE order[o].status \in Completed /\ R.items = its
    BY <1>1, <1>3, TicketTaskOnView
  <2>2. PICK its \in [ItemsIn(o) -> ItemStatusOrNone] : \E R :
          /\ \A j \in ItemsIn(o) :
               its[j] = item[j] \/ (item[j] = "paid" /\ its[j] = "delivered")
          /\ RecalculationEffect(order[o], its, R)
          /\ Written(o, R, bill)
          /\ R.refund = r.refund
          /\ IF v = Now(o) THEN R = r ELSE order[o].status \in Completed /\ R.items = its
    BY <2>1
  <2>3. PICK R :
          /\ \A j \in ItemsIn(o) :
               its[j] = item[j] \/ (item[j] = "paid" /\ its[j] = "delivered")
          /\ RecalculationEffect(order[o], its, R)
          /\ Written(o, R, bill)
          /\ R.refund = r.refund
          /\ IF v = Now(o) THEN R = r ELSE order[o].status \in Completed /\ R.items = its
    BY <2>2
  <2> DEFINE shown == v.items
             moved == UpdateItemsStatusByOrder(shown, "paid", "delivered")
  <2>4. /\ ItemsIn(o) \in SUBSET Items
        /\ StatusesIn(o) \in [ItemsIn(o) -> ItemStatusOrNone]
        /\ \A j \in ItemsIn(o) : StatusesIn(o)[j] = item[j]
        /\ Balanced(order[o], StatusesIn(o))
    BY <2>1, OrderInPlace DEF Books
  <2>5. /\ shown \in [ItemsIn(o) -> ItemStatusOrNone] /\ v.order \in OrderDoc
        /\ v = Now(o) => v.order = order[o] /\ shown = StatusesIn(o)
    BY <2>1, ViewIsTyped
  <2>6. /\ moved \in [ItemsIn(o) -> ItemStatusOrNone]
        /\ \A j \in ItemsIn(o) :
             moved[j] = shown[j] \/ (shown[j] = "paid" /\ moved[j] = "delivered")
    <3> HIDE DEF shown
    <3> QED
      BY <2>5 DEF UpdateItemsStatusByOrder, ItemStatusOrNone, ItemStatus
  <2>7. r = RecalculateOrderStatus(v.order, moved, FALSE) /\ r.verdict = "commit"
    BY <1>3 DEF MarkOrderItemsAsFulfilled, CommitResult
  <2> HIDE DEF shown, moved
  <2>8. r.refund \subseteq Nat
    <3>1. FALSE \in BOOLEAN
      OBVIOUS
    <3> QED
      BY ONLY <2>5, <2>6, <2>7, <3>1, RecalculationReads
  <2>9. CASE v = Now(o)
    <3>1. Balanced(order[o], moved)
      <4> DEFINE before == StatusesIn(o)
      <4>1. /\ DOMAIN moved = DOMAIN before
            /\ \A j \in DOMAIN before : /\ moved[j] = "canceled" <=> before[j] = "canceled"
                                        /\ moved[j] = "returned" <=> before[j] = "returned"
        BY <2>4, <2>5, <2>6, <2>9
      <4> HIDE DEF before
      <4>2. Balanced(order[o], moved) <=> Balanced(order[o], before)
        BY ONLY <4>1, SameWorth
      <4> QED
        BY <2>4, <4>2 DEF before
    <3>2. /\ Booked(order[o], moved)
          /\ order[o].status = "unpaid" /\ OpenItems(moved) = {} => order[o].paid < Unit
          /\ r = RecalculateOrderStatus(order[o], moved, FALSE) /\ FALSE \in BOOLEAN
      BY <2>5, <2>7, <2>9, <3>1 DEF Balanced
    <3>3. Balanced(r.order, r.items) /\ RecalculationEffect(order[o], moved, r)
      BY ONLY <2>1, <2>4, <2>6, <2>7, <3>2, RecalculationBalances
    <3>4. /\ r.items \in [ItemsIn(o) -> ItemStatusOrNone] /\ Written(o, r, bill)
          /\ r.order.paid = order[o].paid /\ r.order.returned = order[o].returned
          /\ r.order.returnedItemsCount = order[o].returnedItemsCount
      BY <2>3, <2>6, <2>9, <3>3 DEF RecalculationEffect, SameMoney
    <3> QED
      BY <2>1, <2>8, <3>3, <3>4, RecalculationKeepsBooks
  <2>10. CASE v # Now(o)
    <3>1. R.items = its /\ order[o].status \in Completed /\ RecalculationEffect(order[o], its, R)
      BY <2>3, <2>10
    <3>2. Booked(order[o], its)
      <4> DEFINE before == StatusesIn(o)
      <4>1. /\ DOMAIN its = DOMAIN before
            /\ \A j \in DOMAIN before : /\ its[j] = "canceled" <=> before[j] = "canceled"
                                        /\ its[j] = "returned" <=> before[j] = "returned"
        BY <2>3, <2>4
      <4> HIDE DEF before
      <4>2. Booked(order[o], its) <=> Booked(order[o], before)
        BY ONLY <4>1, SameWorth
      <4> QED
        BY <2>4, <4>2 DEF before, Balanced
    <3>3. Balanced(R.order, R.items)
      BY ONLY <2>1, <3>1, <3>2, EffectBalances
    <3>4. /\ R.items \in [ItemsIn(o) -> ItemStatusOrNone] /\ Written(o, R, bill)
          /\ R.refund \subseteq Nat
          /\ R.order.paid = order[o].paid /\ R.order.returned = order[o].returned
          /\ R.order.returnedItemsCount = order[o].returnedItemsCount
      BY <2>3, <2>8, <3>1 DEF RecalculationEffect, SameMoney
    <3> QED
      BY <2>1, <3>3, <3>4, RecalculationKeepsBooks
  <2> QED
    BY <2>9, <2>10
<1> QED
  BY <1>2, <1>3 DEF HandleTicketTask

-----------------------------------------------------------------------------
(* Results of bills keep the books.                                         *)
LEMMA PaymentKeepsBooks ==
  ASSUME IInv, Books, NEW b \in Bills, bill[b].status = "pending", bill[b].type = "payment",
         NEW v \in Views(bill[b].order), PaymentSucceeded(v, b)
  PROVE  Books'
<1> DEFINE o     == bill[b].order
           its   == StatusesIn(o)
           shown == v.items
           new   == [v.order EXCEPT !.paid = @ + bill[b].amount]
           r     == RecalculateOrderStatus(new, shown, TRUE)
<1>1. /\ bill[b] \in BillDoc /\ bill[b] # None
      /\ o \in Orders /\ order[o] # None
  BY BilledOrderInPlace
<1>2. /\ order[o] \in OrderDoc /\ ItemsIn(o) \in SUBSET Items
      /\ its \in [ItemsIn(o) -> ItemStatusOrNone]
      /\ Balanced(order[o], its)
  BY <1>1, OrderInPlace DEF Books
<1>3. bill[b].amount \in Nat
  BY <1>1 DEF Books, BillsPriced
<1>4. /\ Credit(b) \in OrderDoc /\ Credit(b).status = order[o].status
      /\ Credit(b).total = order[o].total /\ Credit(b).returned = order[o].returned
      /\ Credit(b).returnedItemsCount = order[o].returnedItemsCount
      /\ Credit(b).paid = order[o].paid + bill[b].amount
      /\ order[o].paid \in Int /\ order[o].total \in Int
  BY <1>2, <1>3 DEF OrderDoc, Credit
<1> HIDE DEF its
<1>5. /\ Booked(Credit(b), its)
      /\ Credit(b).status = "unpaid" /\ OpenItems(its) = {} => Credit(b).paid < Unit
  BY <1>2, <1>3, <1>4 DEF Balanced, Booked
<1>6. CASE CommitResult(v, r, {v.of}, Settled(b, "paid"))
  <2>1. /\ v.order = order[o]
        /\ \E R : PaymentRebased(v, b, r, R)
    BY <1>6, PaymentOnView
  <2>2. PICK R : PaymentRebased(v, b, r, R)
    BY <2>1
  <2>3. /\ new = Credit(b)
        /\ shown \in [ItemsIn(o) -> ItemStatusOrNone]
        /\ v = Now(o) => shown = its
    BY <1>1, <2>1, ViewIsTyped DEF Credit, its
  <2>4. r.verdict = "commit" /\ TRUE \in BOOLEAN /\ r = RecalculateOrderStatus(Credit(b), shown, TRUE)
    BY <1>6, <2>3 DEF CommitResult
  <2>5. /\ RecalculationEffect(Credit(b), its, R)
        /\ Written(o, R, Settled(b, "paid"))
        /\ R.refund = r.refund
        /\ IF v = Now(o) THEN R = r ELSE order[o].status \in Completed /\ R.items = its
    BY <2>2 DEF PaymentRebased, its
  <2> HIDE DEF r, shown, new
  <2>6. R.refund \subseteq Nat
    <3>1. r.refund \subseteq Nat
      BY ONLY <1>4, <2>3, <2>4, RecalculationReads
    <3> QED
      BY <2>5, <3>1
  <2>7. Balanced(R.order, R.items)
    <3>1. CASE v = Now(o)
      <4>1. r = RecalculateOrderStatus(Credit(b), its, TRUE) /\ R = r
        BY <2>3, <2>4, <2>5, <3>1
      <4>2. Balanced(r.order, r.items)
        BY ONLY <1>2, <1>4, <1>5, <2>4, <4>1, RecalculationBalances
      <4> QED
        BY <4>1, <4>2
    <3>2. CASE v # Now(o)
      <4>1. Credit(b).status \in Completed /\ R.items = its
        BY <1>4, <2>5, <3>2
      <4> QED
        BY ONLY <1>4, <1>5, <2>5, <4>1, EffectBalances
    <3> QED
      BY <3>1, <3>2
  <2>8. /\ R.items \in [ItemsIn(o) -> ItemStatusOrNone]
        /\ R.order.paid = order[o].paid + bill[b].amount
        /\ R.order.returned = order[o].returned
        /\ R.order.returnedItemsCount = order[o].returnedItemsCount
    BY <1>2, <1>4, <2>5 DEF RecalculationEffect, SameMoney
  <2>9. "paid" \in Settlements /\ "paid" # "refunded"
    BY DEF Settlements
  <2> QED
    BY <1>1, <2>5, <2>6, <2>7, <2>8, <2>9, SettlementKeepsBooks
<1>7. CASE UNCHANGED <<order, item, bill>>
  BY <1>7, BillStepKeepsBooks DEF Quiet, Books, BillsPriced
<1> QED
  BY <1>6, <1>7 DEF PaymentSucceeded

LEMMA RefundKeepsBooks ==
  ASSUME IInv, Books, NEW b \in Bills, bill[b].status = "pending", bill[b].type = "refund",
         NEW v \in Views(bill[b].order), RefundSucceeded(v, b)
  PROVE  Books'
<1> DEFINE o     == bill[b].order
           i     == bill[b].item
           its   == StatusesIn(o)
           wrote == {v.of, i}
           bills == Settled(b, "refunded")
           r     == UpdateOrderItemStatus(Debit(v, b), v.items, i, "returned", Price[i])
<1>1. /\ bill[b] \in BillDoc /\ bill[b] # None
      /\ o \in Orders /\ order[o] # None
  BY BilledOrderInPlace
<1>2. /\ order[o] \in OrderDoc /\ ItemsIn(o) \in SUBSET Items
      /\ its \in [ItemsIn(o) -> ItemStatusOrNone]
      /\ \A j \in ItemsIn(o) : its[j] = item[j]
      /\ Balanced(order[o], its)
  BY <1>1, OrderInPlace DEF Books
<1>3. i # NoItem /\ CanUpdateOrderItemStatus(v.items[i], "returned")
  BY DEF RefundSucceeded
<1>4. CASE UNCHANGED <<order, item, bill>>
  BY <1>4, BillStepKeepsBooks DEF Quiet, Books, BillsPriced
<1>5. CASE CommitResult(v, r, wrote, bills)
  <2>1. /\ i \in Items /\ OrderOf[i] = o /\ v.items[i] = "return_approved"
        /\ o \in wrote
        /\ UpdatesItem(i, v, "returned", Debit(v, b), wrote, r, bills)
    <3>1. r = UpdateOrderItemStatus(Debit(v, b), v.items, i, "returned", Price[i])
      OBVIOUS
    <3> HIDE DEF r
    <3> QED
      BY <1>3, <1>5, <3>1, RefundUpdatesItem
  <2> HIDE DEF r, wrote, bills
  <2>2. /\ item[i] = v.items[i]
        /\ OrderOf[i] \in wrote => v.order = order[OrderOf[i]]
        /\ \E ord \in OrderDoc : \E R :
             UpdateRebased(i, v, "returned", Debit(v, b), wrote, r, bills, ord, R)
    <3> HIDE DEF i
    <3> QED
      BY <2>1, ItemUpdateOnView
  <2>3. PICK ord \in OrderDoc : \E R :
          UpdateRebased(i, v, "returned", Debit(v, b), wrote, r, bills, ord, R)
    BY <2>2
  <2>4. PICK R : UpdateRebased(i, v, "returned", Debit(v, b), wrote, r, bills, ord, R)
    BY <2>3
  <2>5. i \in ItemsIn(o) /\ item[i] = "return_approved" /\ its[i] = "return_approved"
    BY <1>2, <2>1, <2>2 DEF ItemsIn
  <2>6. order[o].status \in PaidUp /\ order[o].status # "unpaid"
    BY <2>1, <2>5 DEF IInv, ReturnsFollowOrder, Fulfilled, Completed, PaidUp
  <2>7. bill[b].amount \in Nat /\ bill[b].amount <= Price[i]
    BY <1>1, <1>3 DEF Books, BillsPriced
  <2>8. /\ ord = [order[o] EXCEPT !.returned = @ + bill[b].amount, !.returnedItemsCount = @ + 1]
        /\ Written(o, R, bills)
    BY <2>1, <2>2, <2>4 DEF UpdateRebased, Debit
  <2>9. /\ ord.status = order[o].status /\ ord.paid = order[o].paid
        /\ ord.returned = order[o].returned + bill[b].amount
        /\ ord.returnedItemsCount = order[o].returnedItemsCount + 1
    <3>1. /\ order[o].returned + bill[b].amount \in Int
          /\ order[o].returnedItemsCount + 1 \in Nat
      BY <1>2, <2>7 DEF OrderDoc
    <3> QED
      BY <1>2, <2>8, <3>1 DEF OrderDoc
  <2> HIDE DEF its
  <2>10. Booked(ord, [its EXCEPT ![i] = "returned"])
    <3> DEFINE amount == bill[b].amount
    <3> HIDE DEF o, i, amount
    <3> QED
      BY ONLY <1>2, <2>5, <2>6, <2>7, <2>8, RefundIsBooked DEF amount
  <2>11. /\ Balanced(R.order, R.items)
         /\ R.items \in [ItemsIn(o) -> ItemStatusOrNone]
         /\ R.refund \subseteq Nat
         /\ SameMoney(ord, R.order)
    <3>1. /\ Booked(ord, [StatusesIn(OrderOf[i]) EXCEPT ![i] = "returned"])
          /\ ord.status = "unpaid" => ord.paid < Unit
      BY <2>1, <2>6, <2>9, <2>10 DEF its
    <3> DEFINE status == "returned"
               new    == Debit(v, b)
    <3>2. /\ Booked(ord, [StatusesIn(OrderOf[i]) EXCEPT ![i] = status])
          /\ UpdatesItem(i, v, status, new, wrote, r, bills)
          /\ UpdateRebased(i, v, status, new, wrote, r, bills, ord, R)
          /\ i \in Items /\ OrderOf[i] = o
      BY <2>1, <2>4, <3>1
    <3> HIDE DEF i, o, status, new
    <3>3. /\ Balanced(R.order, R.items)
          /\ R.items \in [ItemsIn(OrderOf[i]) -> ItemStatusOrNone]
          /\ R.refund \subseteq Nat
          /\ SameMoney(ord, R.order)
      BY ONLY IInv, ord \in OrderDoc, <3>1, <3>2, ItemUpdateOnViewBalances
    <3> QED
      BY <3>2, <3>3
  <2>12. /\ R.order.paid = order[o].paid
         /\ R.order.returned = order[o].returned + bill[b].amount
         /\ R.order.returnedItemsCount = order[o].returnedItemsCount + 1
    BY <2>9, <2>11 DEF SameMoney
  <2>13. "refunded" \in Settlements /\ "refunded" # "paid"
    BY DEF Settlements
  <2> QED
    BY <1>1, <2>8, <2>11, <2>12, <2>13, SettlementKeepsBooks DEF bills
<1> QED
  BY <1>4, <1>5 DEF RefundSucceeded, Debit

-----------------------------------------------------------------------------
(* A transaction that opens one bill.                                       *)
LEMMA NewBillIsPending ==
  ASSUME TypeOK, NEW o, NEW type, NEW amount \in Nat, NEW method, NEW b \in Bills,
         bill[b] = None,
         bill' = [bill EXCEPT ![b] = NewBill(o, type, amount, NoItem, method)]
  PROVE  \A c \in Bills :
           /\ bill[c] # None => bill'[c] = bill[c]
           /\ bill[c] = None /\ bill'[c] # None =>
                /\ bill'[c].status = "pending" /\ bill'[c].item = NoItem
                /\ bill'[c].amount \in Nat
<1> DEFINE new == NewBill(o, type, amount, NoItem, method)
<1>1. new.status = "pending" /\ new.item = NoItem /\ new.amount \in Nat
  BY DEF NewBill
<1>2. bill' = [bill EXCEPT ![b] = new]
  OBVIOUS
<1> HIDE DEF new
<1> QED
  BY <1>1, <1>2

LEMMA CountedAtFirst ==
  ASSUME NEW its, \A i \in DOMAIN its : its[i] = "pending_payment"
  PROVE  /\ OpenItems(its) = DOMAIN its
         /\ ReturnedItems(its) = {}
         /\ CountItems(its, "returned") = 0
<1>1. OpenItems(its) = DOMAIN its /\ ReturnedItems(its) = {}
  BY DEF OpenItems, ReturnedItems
<1> QED
  BY <1>1, FS_EmptySet DEF CountItems, ReturnedItems

LEMMA AddOrderKeepsBooks ==
  ASSUME IInv, Books, NEW o \in Orders, NEW total \in Amounts, AddOrder(o, total)
  PROVE  Books'
<1> DEFINE its == ItemsIn(o)
           statuses == StatusesIn(o)'
<1>a. /\ order[o] = None
      /\ order' = [order EXCEPT ![o] = NewOrder(total)]
      /\ item' = [i \in Items |-> IF OrderOf[i] = o THEN "pending_payment" ELSE item[i]]
      /\ total = MapThenSumSet(LAMBDA i : Price[i], its)
      /\ its # {} /\ its \in SUBSET Items
  BY DEF AddOrder, CartAccepted, ItemsIn
<1>b. total \in Nat /\ total = SumOver(Price, its)
  BY <1>a, BillsAssumption, SumOfPrices
<1>c. /\ order'[o] = NewOrder(total) /\ \A p \in Orders \ {o} : order'[p] = order[p]
      /\ NewOrder(total).status = "unpaid" /\ NewOrder(total).total = total
      /\ NewOrder(total).paid = 0 /\ NewOrder(total).returned = 0
      /\ NewOrder(total).returnedItemsCount = 0
  BY <1>a DEF IInv, TypeOK, NewOrder
<1>d. /\ DOMAIN statuses = its
      /\ \A i \in its : statuses[i] = "pending_payment"
  BY <1>a DEF StatusesIn, ItemsIn
<1>1. Balanced(order'[o], statuses)
  <2>1. /\ OpenItems(statuses) = its /\ ReturnedItems(statuses) = {}
        /\ CountItems(statuses, "returned") = 0
    <3> HIDE DEF statuses
    <3> QED
      BY <1>d, CountedAtFirst
  <2>2. SumOver(Price, {}) = 0
    BY SumOfNothing
  <2> HIDE DEF statuses, its
  <2> QED
    BY <1>a, <1>b, <1>c, <2>1, <2>2, UnitAssumption DEF Balanced, Booked, PaidUp
<1>2. OrdersBalanced'
  <2>1. ASSUME NEW p \in Orders \ {o} PROVE StatusesIn(p)' = StatusesIn(p)
    <3>1. StatusesIn(p)' = [i \in ItemsIn(p) |-> item'[i]]
      BY DEF StatusesIn
    <3>2. \A i \in ItemsIn(p) : item'[i] = item[i]
      BY <1>a DEF ItemsIn
    <3> QED
      BY <3>1, <3>2 DEF StatusesIn
  <2>2. ASSUME NEW p \in Orders, order'[p] # None
        PROVE  Balanced(order'[p], StatusesIn(p)')
    <3>1. CASE p = o
      BY <1>1, <3>1
    <3>2. CASE p # o
      BY <1>c, <2>1, <2>2, <3>2 DEF Books, OrdersBalanced, Placed
    <3> QED
      BY <3>1, <3>2
  <2> QED
    BY <2>2 DEF OrdersBalanced, Placed
<1>3. \A b \in Bills :
        /\ bill[b] # None => bill'[b] = bill[b]
        /\ bill[b] = None /\ bill'[b] # None =>
             /\ bill'[b].status = "pending" /\ bill'[b].item = NoItem /\ bill'[b].amount \in Nat
  <2>1. PICK b \in FreshBills :
          bill' = [bill EXCEPT ![b] = NewBill(o, "payment", total, NoItem, TRUE)]
    BY DEF AddOrder
  <2>2. b \in Bills /\ bill[b] = None /\ TypeOK
    BY DEF FreshBills, IInv
  <2> QED
    BY ONLY <1>b, <2>1, <2>2, NewBillIsPending
<1>4. \A b \in Bills : Quiet(b)
  BY <1>3 DEF Quiet, Settlements, None
<1>5. BillsPriced'
  BY <1>3, BillsStayPriced DEF Books
<1>6. \A p \in Orders : order'[p] # None =>
        \/ /\ order[p] # None
           /\ order'[p].paid = order[p].paid /\ order'[p].returned = order[p].returned
           /\ order'[p].returnedItemsCount = order[p].returnedItemsCount
        \/ /\ order[p] = None
           /\ order'[p].paid = 0 /\ order'[p].returned = 0
           /\ order'[p].returnedItemsCount = 0
  BY <1>a, <1>c
<1> QED
  BY <1>2, <1>4, <1>5, <1>6, AmountsKept DEF Books

LEMMA CancelOrderKeepsBooks ==
  ASSUME IInv, Books, NEW o \in Orders, CancelOrder(o)
  PROVE  Books'
<1> DEFINE new == [order[o] EXCEPT !.status = "canceled"]
           statuses == StatusesIn(o)'
<1>a. /\ order[o].status = "unpaid"
      /\ order' = [order EXCEPT ![o] = new]
      /\ item' = [i \in Items |-> IF OrderOf[i] = o /\ item[i] = "pending_payment"
                                  THEN "canceled" ELSE item[i]]
      /\ bill' = [b \in Bills |-> IF b \in PendingBillsOf(o)
                                  THEN [bill[b] EXCEPT !.status = "canceled"] ELSE bill[b]]
  BY DEF CancelOrder, VoidUnpaidOrder
<1>b. order[o] \in OrderDoc /\ order[o] # None
  BY <1>a, OrderIsDocument DEF IInv, OrderStatus
<1>c. /\ new.status = "canceled" /\ new.paid = order[o].paid
      /\ new.returned = order[o].returned
      /\ new.returnedItemsCount = order[o].returnedItemsCount
  BY <1>b DEF OrderDoc
<1> HIDE DEF new
<1>d. order'[o] = new /\ \A p \in Orders \ {o} : order'[p] = order[p]
  BY <1>a DEF IInv, TypeOK
<1>e. /\ Balanced(order[o], StatusesIn(o))
      /\ DOMAIN StatusesIn(o) = ItemsIn(o)
      /\ \A i \in ItemsIn(o) : StatusesIn(o)[i] = item[i]
  BY <1>b, OrderInPlace DEF Books
<1>f. /\ DOMAIN statuses = ItemsIn(o)
      /\ \A i \in ItemsIn(o) : statuses[i] = "returned" <=> StatusesIn(o)[i] = "returned"
  BY <1>a, <1>e DEF StatusesIn, ItemsIn
<1> HIDE DEF statuses
<1>1. Balanced(order'[o], statuses)
  <2>1. ReturnedItems(statuses) = ReturnedItems(StatusesIn(o))
    BY <1>e, <1>f DEF ReturnedItems
  <2>2. CountItems(statuses, "returned") = CountItems(StatusesIn(o), "returned")
    BY <2>1 DEF CountItems, ReturnedItems
  <2>3. /\ order[o].paid < Unit /\ order[o].returned = 0
    BY <1>a, <1>e DEF Balanced, Booked, PaidUp
  <2> QED
    BY <1>a, <1>c, <1>d, <1>e, <2>1, <2>2, <2>3 DEF Balanced, Booked, PaidUp
<1>2. OrdersBalanced'
  <2>1. ASSUME NEW p \in Orders \ {o} PROVE StatusesIn(p)' = StatusesIn(p)
    <3>1. StatusesIn(p)' = [i \in ItemsIn(p) |-> item'[i]]
      BY DEF StatusesIn
    <3>2. \A i \in ItemsIn(p) : item'[i] = item[i]
      BY <1>a DEF ItemsIn
    <3> QED
      BY <3>1, <3>2 DEF StatusesIn
  <2>2. ASSUME NEW p \in Orders, order'[p] # None
        PROVE  Balanced(order'[p], StatusesIn(p)')
    <3>1. CASE p = o
      BY <1>1, <3>1 DEF statuses
    <3>2. CASE p # o
      BY <1>d, <2>1, <2>2, <3>2 DEF Books, OrdersBalanced, Placed
    <3> QED
      BY <3>1, <3>2
  <2> QED
    BY <2>2 DEF OrdersBalanced, Placed
<1>3. ASSUME NEW b \in PendingBillsOf(o)
      PROVE  /\ b \in Bills /\ bill[b] # None /\ bill[b].status = "pending"
             /\ bill'[b].status = "canceled"
             /\ bill'[b].amount = bill[b].amount /\ bill'[b].item = bill[b].item
  <2>1. b \in Bills /\ bill[b] # None /\ bill[b].status = "pending" /\ bill[b] \in BillDoc
    BY BillIsDocument DEF PendingBillsOf, BillsOf, IInv
  <2>2. bill'[b] = [bill[b] EXCEPT !.status = "canceled"]
    BY <1>a, <2>1
  <2> QED
    BY <2>1, <2>2 DEF BillDoc
<1>4. \A b \in Bills \ PendingBillsOf(o) : bill'[b] = bill[b]
  BY <1>a
<1>5. \A b \in Bills : Quiet(b)
  BY <1>3, <1>4 DEF Quiet, Settlements
<1>6. BillsPriced'
  BY <1>3, <1>4, BillsStayPriced DEF Books, BillsPriced
<1>7. \A p \in Orders : order'[p] # None =>
        /\ order[p] # None
        /\ order'[p].paid = order[p].paid /\ order'[p].returned = order[p].returned
        /\ order'[p].returnedItemsCount = order[p].returnedItemsCount
  BY <1>b, <1>c, <1>d
<1> QED
  BY <1>2, <1>5, <1>6, <1>7, AmountsKept DEF Books

LEMMA CreateRefundBillKeepsBooks ==
  ASSUME IInv, Books, NEW i \in Items, NEW amount \in Amounts, CreateRefundBill(i, amount)
  PROVE  Books'
<1> DEFINE o    == OrderOf[i]
           new  == NewBill(o, "refund", amount, i, TRUE)
           back == [order[o] EXCEPT !.status = "return_in_progress"]
<1>a. /\ item[i] = "return_requested" /\ amount <= Price[i]
      /\ item' = [item EXCEPT ![i] = "return_approved"]
      /\ order' = [order EXCEPT ![o].status = "return_in_progress"]
  BY DEF CreateRefundBill
<1>b. PICK b \in FreshBills : bill' = [bill EXCEPT ![b] = new]
  BY DEF CreateRefundBill
<1>c. /\ b \in Bills /\ bill[b] = None /\ o \in Orders /\ amount \in Nat
  BY ItemsAssumption, BillsAssumption DEF FreshBills
<1>d. new.status = "pending" /\ new.amount = amount /\ new.item = i
  BY DEF NewBill
<1> HIDE DEF new
<1>e. bill'[b] = new /\ \A c \in Bills \ {b} : bill'[c] = bill[c]
  BY <1>b, <1>c DEF IInv, TypeOK
<1>1. order[o].status \in Completed /\ order[o] # None /\ order[o] \in OrderDoc
  <2>1. order[o].status \in Completed
    BY <1>a DEF IInv, ReturnsFollowOrder, Fulfilled
  <2>2. order[o].status \in OrderStatus /\ order[o] # None
    BY <1>c, <2>1, NoneIsNoDocument DEF Completed, PaidUp, OrderStatus
  <2> QED
    BY <1>c, <2>1, <2>2, OrderIsDocument DEF IInv
<1>2. /\ order'[o] = back
      /\ \A p \in Orders \ {o} : order'[p] = order[p]
  BY <1>a, <1>c DEF IInv, TypeOK
<1>3. /\ back.status = "return_in_progress" /\ back.total = order[o].total
      /\ back.paid = order[o].paid /\ back.returned = order[o].returned
      /\ back.returnedItemsCount = order[o].returnedItemsCount
  BY <1>1 DEF OrderDoc
<1>4. \A p \in Orders : order'[p] # None =>
        /\ order[p] # None
        /\ order'[p].paid = order[p].paid /\ order'[p].returned = order[p].returned
        /\ order'[p].returnedItemsCount = order[p].returnedItemsCount
  BY <1>1, <1>2, <1>3
<1>5. ASSUME NEW its, Balanced(order[o], its) PROVE Balanced(back, its)
  <2>1. order[o].status \in PaidUp /\ order[o].status # "canceled" /\ back.status \in PaidUp
    BY <1>1, <1>3 DEF Completed, PaidUp
  <2> HIDE DEF back
  <2> QED
    BY <1>3, <1>5, <2>1 DEF Balanced, Booked
<1> HIDE DEF back
<1>6. ASSUME NEW p \in Orders, order'[p] # None
      PROVE  Balanced(order'[p], StatusesIn(p)')
  <2> DEFINE its == StatusesIn(p)
             moved == StatusesIn(p)'
  <2>1. Balanced(order[p], its) /\ DOMAIN its = ItemsIn(p) /\ DOMAIN moved = ItemsIn(p)
    BY <1>4, <1>6 DEF Books, OrdersBalanced, Placed, StatusesIn
  <2>2. \A j \in ItemsIn(p) : its[j] = item[j] /\ moved[j] = item'[j]
    BY DEF StatusesIn
  <2>3. \A j \in ItemsIn(p) : /\ item'[j] = "canceled" <=> item[j] = "canceled"
                              /\ item'[j] = "returned" <=> item[j] = "returned"
    BY <1>a DEF ItemsIn, IInv, TypeOK
  <2> HIDE DEF its, moved
  <2>4. Balanced(order[p], moved)
    BY <2>1, <2>2, <2>3, SameWorth
  <2>5. Balanced(order'[p], moved)
    <3>1. CASE p = o
      BY <1>2, <1>5, <2>4, <3>1
    <3>2. CASE p # o
      BY <1>2, <2>4, <3>2
    <3> QED
      BY <3>1, <3>2
  <2> QED
    BY <2>5 DEF moved
<1>7. OrdersBalanced'
  BY <1>6 DEF OrdersBalanced, Placed
<1>8. BillsPriced'
  BY <1>a, <1>c, <1>d, <1>e DEF Books, BillsPriced
<1>9. \A c \in Bills : Quiet(c)
  BY <1>c, <1>d, <1>e DEF Quiet, Settlements, None
<1> QED
  BY <1>4, <1>7, <1>8, <1>9, AmountsKept DEF Books

LEMMA CreateBillKeepsBooks ==
  ASSUME IInv, Books, NEW b \in Bills, CreateBill(b)
  PROVE  Books'
<1>1. /\ draft[b] # None /\ UNCHANGED <<order, item>>
      /\ bill' = [bill EXCEPT ![b] = NewBill(draft[b].order, "payment", draft[b].amount, NoItem, TRUE)]
  BY DEF CreateBill
<1>2. bill[b] = None /\ draft[b] \in [order : Orders, amount : Amounts]
  BY <1>1 DEF IInv, Linked, TypeOK
<1>3. draft[b].amount \in Nat
  BY <1>2, BillsAssumption
<1>4. \A c \in Bills :
        /\ bill[c] # None => bill'[c] = bill[c]
        /\ bill[c] = None /\ bill'[c] # None =>
             /\ bill'[c].status = "pending" /\ bill'[c].item = NoItem /\ bill'[c].amount \in Nat
  <2>1. TypeOK
    BY DEF IInv
  <2> QED
    BY ONLY b \in Bills, <1>1, <1>2, <1>3, <2>1, NewBillIsPending
<1>5. \A c \in Bills : Quiet(c)
  BY <1>4 DEF Quiet, Settlements, None
<1> QED
  BY <1>1, <1>4, <1>5, BillStepKeepsBooks

(* A pending bill is canceled or its payment fails.                         *)
LEMMA ClosedBillKeepsBooks ==
  ASSUME IInv, Books, NEW b \in Bills, bill[b].status = "pending",
         NEW status \in {"canceled", "failed"}, bill' = Settled(b, status),
         UNCHANGED <<order, item>>
  PROVE  Books'
<1>1. bill[b] \in BillDoc /\ bill[b] # None
  BY BilledOrderInPlace
<1>2. bill'[b] = [bill[b] EXCEPT !.status = status] /\ \A c \in Bills \ {b} : bill'[c] = bill[c]
  BY DEF Settled, IInv, TypeOK
<1>3. bill'[b].status = status /\ bill'[b].amount = bill[b].amount /\ bill'[b].item = bill[b].item
  BY <1>1, <1>2 DEF BillDoc
<1>4. \A c \in Bills : Quiet(c)
  BY <1>2, <1>3 DEF Quiet, Settlements
<1>5. \A c \in Bills : bill'[c] # None =>
        /\ bill[c] # None
        /\ bill'[c].amount = bill[c].amount /\ bill'[c].item = bill[c].item
  BY <1>1, <1>2, <1>3
<1> QED
  BY <1>4, <1>5, BillStepKeepsBooks

LEMMA OtherStepKeepsBooks ==
  ASSUME IInv, Books, UNCHANGED <<order, item, bill>>
  PROVE  Books'
BY BillStepKeepsBooks DEF Quiet, Books, BillsPriced

LEMMA HandleBillStatusUpdateKeepsBooks ==
  ASSUME IInv, Books, NEW b \in Bills, HandleBillStatusUpdate(b)
  PROVE  Books'
<1>1. bill[b].status = "pending"
  BY DEF HandleBillStatusUpdate
<1>2. ASSUME NEW v \in Views(bill[b].order), bill[b].type = "payment", PaymentSucceeded(v, b)
      PROVE  Books'
  BY <1>1, <1>2, PaymentKeepsBooks
<1>3. ASSUME NEW v \in Views(bill[b].order), bill[b].type = "refund", RefundSucceeded(v, b)
      PROVE  Books'
  BY <1>1, <1>3, RefundKeepsBooks
<1>4. CASE SettlementFailed(b)
  BY <1>1, <1>4, ClosedBillKeepsBooks DEF SettlementFailed
<1> QED
  BY <1>2, <1>3, <1>4 DEF HandleBillStatusUpdate

LEMMA InitBooks == Init => Books
<1> SUFFICES ASSUME Init PROVE Books
  OBVIOUS
<1>1. \A b \in Bills : bill[b] = None
  BY DEF Init
<1>2. Placed = {}
  BY DEF Init, Placed
<1> QED
  BY <1>1, <1>2 DEF Books, BillsPriced, OrdersBalanced, AmountsAreSettled, PaidIsSettled,
                    ReturnedIsSettled

LEMMA StepKeepsBooks ==
  ASSUME IInv, Books, [Next]_vars
  PROVE  Books'
<1>1. ASSUME NEW o \in Orders, NEW total \in Amounts, AddOrder(o, total)
      PROVE  Books'
  BY <1>1, AddOrderKeepsBooks
<1>2. ASSUME NEW o \in Orders, NEW amount \in Amounts, ValidateBill(o, amount)
      PROVE  Books'
  BY <1>2, OtherStepKeepsBooks DEF ValidateBill
<1>3. ASSUME NEW o \in Orders, CancelOrder(o)
      PROVE  Books'
  BY <1>3, CancelOrderKeepsBooks
<1>4. ASSUME NEW o \in Orders, HandleTicketTask(o)
      PROVE  Books'
  BY <1>4, TicketTaskKeepsBooks
<1>5. ASSUME NEW o \in Orders, AbandonTicketTask(o) \/ ExpireTickets(o)
      PROVE  Books'
  BY <1>5, OtherStepKeepsBooks DEF AbandonTicketTask, ExpireTickets
<1>6. ASSUME NEW i \in Items,
             ChangeOrderItemStatus(i) \/ RequestOrderItemRefund(i) \/ RejectOrderItemRefund(i)
      PROVE  Books'
  BY <1>6, UpdateItemKeepsBooks
  DEF ChangeOrderItemStatus, RequestOrderItemRefund, RejectOrderItemRefund
<1>7. ASSUME NEW i \in Items, NEW amount \in Amounts, CreateRefundBill(i, amount)
      PROVE  Books'
  BY <1>7, CreateRefundBillKeepsBooks
<1>8. ASSUME NEW i \in Items, NEW n \in DOMAIN ticket[i], CheckInTicket(i, n)
      PROVE  Books'
  BY <1>8, OtherStepKeepsBooks DEF CheckInTicket
<1>9. ASSUME NEW b \in Bills, CreateBill(b)
      PROVE  Books'
  BY <1>9, CreateBillKeepsBooks
<1>10. ASSUME NEW b \in Bills, CancelBill(b)
       PROVE  Books'
  BY <1>10, ClosedBillKeepsBooks DEF CancelBill, Settled
<1>11. ASSUME NEW b \in Bills, PaymentServiceReports(b)
       PROVE  Books'
  BY <1>11, OtherStepKeepsBooks DEF PaymentServiceReports
<1>12. ASSUME NEW b \in Bills, HandleBillStatusUpdate(b)
       PROVE  Books'
  BY <1>12, HandleBillStatusUpdateKeepsBooks
<1>13. ASSUME NEW s \in Snapshots, NEW o \in Orders, TakeSnapshot(s, o)
       PROVE  Books'
  BY <1>13, OtherStepKeepsBooks DEF TakeSnapshot
<1>14. CASE UNCHANGED vars
  BY <1>14, OtherStepKeepsBooks DEF vars
<1> QED
  BY <1>1, <1>2, <1>3, <1>4, <1>5, <1>6, <1>7, <1>8, <1>9, <1>10, <1>11, <1>12, <1>13, <1>14
  DEF Next

-----------------------------------------------------------------------------
(* The books are kept in every state: the amounts of every order fit its    *)
(* status, its items and its settled bills.                                 *)
THEOREM BooksAreKept == Spec => []Books
<1>1. IInv /\ Books /\ [Next]_vars => Books'
  BY StepKeepsBooks
<1> QED
  BY <1>1, InitBooks, InvariantHolds, PTL DEF Spec

(* Money is booked once: paid, returned and the count of returned items are *)
(* what the settled bills of the order add up to, however often and in      *)
(* which order the results are delivered.                                   *)
THEOREM AmountsAlwaysSettled == Spec => []AmountsAreSettled
<1>1. Books => AmountsAreSettled
  BY DEF Books
<1> QED
  BY <1>1, BooksAreKept, PTL

LEMMA BooksBalance ==
  ASSUME IInv, Books
  PROVE  /\ TotalIsOpenItems
         /\ PaidInFull
         /\ ReturnedWithinPaid
         /\ \A o \in Placed : order[o].status = "canceled" => order[o].paid < Unit
         /\ \A o \in Placed : order[o].paid \in Nat
<1>1. ASSUME NEW o \in Placed
      PROVE  /\ order[o].status # "canceled" =>
                  order[o].total = MapThenSumSet(LAMBDA i : Price[i],
                                                 {i \in ItemsIn(o) : item[i] # "canceled"})
             /\ order[o].status \in PaidUp => order[o].paid >= order[o].total
             /\ order[o].returned <= order[o].paid
             /\ order[o].status = "canceled" => order[o].paid < Unit
             /\ order[o].paid \in Nat
  <2> DEFINE its == StatusesIn(o)
             open == {i \in ItemsIn(o) : item[i] # "canceled"}
  <2>1. o \in Orders /\ order[o] # None
    BY DEF Placed
  <2>2. /\ order[o] \in OrderDoc /\ ItemsIn(o) \in SUBSET Items
        /\ its \in [ItemsIn(o) -> ItemStatusOrNone]
        /\ \A i \in ItemsIn(o) : its[i] = item[i]
        /\ Balanced(order[o], its)
    BY <2>1, OrderInPlace DEF Books
  <2>3. order[o].paid \in Int /\ order[o].returned \in Int /\ order[o].total \in Int
    BY <2>2 DEF OrderDoc
  <2>4. /\ OpenItems(its) = open
        /\ OpenItems(its) \in SUBSET Items
        /\ ReturnedItems(its) \in SUBSET OpenItems(its)
    <3> HIDE DEF its
    <3> QED
      BY <2>2 DEF OpenItems, ReturnedItems
  <2> HIDE DEF its
  <2>5. MapThenSumSet(LAMBDA i : Price[i], open) = SumOver(Price, OpenItems(its))
    <3> HIDE DEF open
    <3> QED
      BY <2>4, SumOfPrices
  <2>6. SumOver(Price, ReturnedItems(its)) <= SumOver(Price, OpenItems(its))
    BY <2>4, PricesAddUp
  <2>7. SumOver(Price, ReturnedItems(its)) \in Int /\ SumOver(Price, OpenItems(its)) \in Int
    <3>1. ReturnedItems(its) \in SUBSET Items
      BY <2>4
    <3> QED
      BY <2>4, <3>1, PricesAddUp
  <2>8. order[o].returned <= order[o].paid
    <3>1. CASE order[o].status \in PaidUp
      <4>1. /\ order[o].returned <= SumOver(Price, ReturnedItems(its))
            /\ order[o].total = SumOver(Price, OpenItems(its))
            /\ order[o].total <= order[o].paid
        BY <2>2, <3>1 DEF Balanced, Booked, PaidUp
      <4> QED
        BY <2>3, <2>6, <2>7, <4>1
    <3>2. CASE order[o].status \notin PaidUp
      BY <2>2, <2>3, <3>2 DEF Balanced, Booked
    <3> QED
      BY <3>1, <3>2
  <2> HIDE DEF open
  <2>9. order[o].status # "canceled" => order[o].total = MapThenSumSet(LAMBDA i : Price[i], open)
    BY <2>2, <2>5 DEF Balanced, Booked
  <2>10. /\ order[o].status \in PaidUp => order[o].paid >= order[o].total
         /\ order[o].status = "canceled" => order[o].paid < Unit
         /\ order[o].paid \in Nat
    BY <2>2, <2>3 DEF Balanced, Booked
  <2> QED
    BY <2>8, <2>9, <2>10 DEF open
<1>2. TotalIsOpenItems
  BY <1>1 DEF TotalIsOpenItems
<1>3. PaidInFull /\ ReturnedWithinPaid
  BY <1>1 DEF PaidInFull, ReturnedWithinPaid
<1> QED
  BY <1>1, <1>2, <1>3

(* Whatever the currency: the total of an order that is not canceled is the *)
(* price of its items not canceled, an order paid in full stays covered, no *)
(* order gives back more than it took, and a canceled order has taken less  *)
(* than one unit.                                                           *)
THEOREM OrdersAlwaysBalance ==
  Spec => [](/\ TotalIsOpenItems
             /\ PaidInFull
             /\ ReturnedWithinPaid
             /\ \A o \in Placed : order[o].status = "canceled" => order[o].paid < Unit)
<1>1. IInv /\ Books =>
        /\ TotalIsOpenItems
        /\ PaidInFull
        /\ ReturnedWithinPaid
        /\ \A o \in Placed : order[o].status = "canceled" => order[o].paid < Unit
  BY BooksBalance
<1> QED
  BY <1>1, BooksAreKept, InvariantHolds, PTL

(* In amounts of whole units a canceled order has taken no payment at all.  *)
THEOREM WholeUnitsBalance ==
  ASSUME Unit = 1
  PROVE  Spec => []OrderBalances
<1>1. IInv /\ Books => OrderBalances
  <2>1. ASSUME IInv, Books PROVE CanceledOrderNotPaid
    BY <2>1, BooksBalance DEF CanceledOrderNotPaid
  <2> QED
    BY <2>1, BooksBalance DEF OrderBalances
<1> QED
  BY <1>1, BooksAreKept, InvariantHolds, PTL
=============================================================================
