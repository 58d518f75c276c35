-------------------------- MODULE OrderRulesProofs --------------------------
(***************************************************************************)
(* What a recalculation may do to an order and its items, for every order  *)
(* document, every set of items and every unit of currency; and what sums   *)
(* of amounts over finite sets amount to.                                   *)
(***************************************************************************)
EXTENDS OrderRules, FiniteSetsExt, FiniteSetTheorems, WellFoundedInduction, TLAPS

ItemStatusOrNone == ItemStatus \union {"none"}

(* The status changes a recalculation makes: by a payment ...               *)
MarkedPaid == {<<"unpaid", "paid">>, <<"partially_paid", "paid">>, <<"pending_refund", "paid">>}

(* ... and by anything else.                                                *)
OtherMoves ==
  {<<"unpaid", "canceled">>, <<"unpaid", "partially_paid">>,
   <<"partially_paid", "pending_refund">>, <<"partially_paid", "canceled">>,
   <<"paid", "completed">>, <<"completed", "return_in_progress">>,
   <<"return_in_progress", "completed">>, <<"return_in_progress", "returned">>,
   <<"return_in_progress", "partially_returned">>,
   <<"partially_returned", "returned">>, <<"partially_returned", "return_in_progress">>}

SameMoney(ord, new) ==
  /\ new.total = ord.total
  /\ new.paid = ord.paid
  /\ new.returned = ord.returned
  /\ new.returnedItemsCount = ord.returnedItemsCount
  /\ new.itemsCount = ord.itemsCount \/ <<ord.status, new.status>> = <<"paid", "completed">>

(* A paid order none of whose items waits is completed.                     *)
Progress(its, ord, new) ==
  ord.status = "paid" /\ (\A i \in DOMAIN its : its[i] # "pending_payment")
    => new.status = "completed"

RecalculationEffect(ord, its, r) ==
  /\ r.order \in OrderDoc
  /\ r.items \in [DOMAIN its -> ItemStatusOrNone]
  /\ r.task \in BOOLEAN
  /\ r.task <=> <<ord.status, r.order.status>> \in MarkedPaid
  /\ r.refund \subseteq Int
  /\ SameMoney(ord, r.order)
  /\ Progress(its, ord, r.order)
  /\ \/ /\ <<ord.status, r.order.status>> \in MarkedPaid
        /\ r.items = UpdateItemsStatusByOrder(its, "pending_payment", "paid")
     \/ /\ r.order.status = ord.status \/ <<ord.status, r.order.status>> \in OtherMoves
        /\ r.items = its

LEMMA CountItemsType ==
  ASSUME NEW I, IsFiniteSet(I), NEW its \in [I -> ItemStatusOrNone], NEW status
  PROVE  CountItems(its, status) \in Nat
<1>1. {i \in DOMAIN its : its[i] = status} \subseteq I
  OBVIOUS
<1>2. IsFiniteSet({i \in DOMAIN its : its[i] = status})
  BY <1>1, FS_Subset
<1> QED
  BY <1>2, FS_CardinalityType DEF CountItems

(* The four shapes of a committed result.                                   *)
LEMMA CommitEffect ==
  ASSUME NEW I, NEW its \in [I -> ItemStatusOrNone], NEW ord \in OrderDoc,
         Progress(its, ord, ord)
  PROVE  RecalculationEffect(ord, its, Commit(ord, its))
<1>1. <<ord.status, ord.status>> \notin MarkedPaid
  BY DEF MarkedPaid
<1> QED
  BY <1>1 DEF Commit, Result, RecalculationEffect, SameMoney, Progress, OrderDoc

LEMMA MoveEffect ==
  ASSUME NEW I, NEW its \in [I -> ItemStatusOrNone], NEW ord \in OrderDoc,
         NEW status \in OrderStatus, NEW refund \in SUBSET Int,
         <<ord.status, status>> \in OtherMoves,
         Progress(its, ord, [ord EXCEPT !.status = status])
  PROVE  /\ RecalculationEffect(ord, its, Move(ord, its, status))
         /\ RecalculationEffect(ord, its, Result("commit", [ord EXCEPT !.status = status],
                                                its, FALSE, refund))
<1> DEFINE new == [ord EXCEPT !.status = status]
<1>1. new \in OrderDoc /\ new.status = status /\ SameMoney(ord, new)
  BY DEF OrderDoc, SameMoney
<1>2. <<ord.status, status>> \notin MarkedPaid
  BY DEF MarkedPaid, OtherMoves
<1> QED
  BY <1>1, <1>2 DEF Move, Commit, Result, RecalculationEffect

LEMMA PaidEffect ==
  ASSUME NEW I, NEW its \in [I -> ItemStatusOrNone], NEW ord \in OrderDoc,
         NEW publisher \in BOOLEAN,
         ord.status \in {"unpaid", "partially_paid", "pending_refund"},
         UpdateOrderToPaid(ord, its, publisher).verdict = "commit"
  PROVE  RecalculationEffect(ord, its, UpdateOrderToPaid(ord, its, publisher))
<1> DEFINE new == [ord EXCEPT !.status = "paid"]
           moved == UpdateItemsStatusByOrder(its, "pending_payment", "paid")
<1>1. publisher
  BY DEF UpdateOrderToPaid, Abort, Result
<1>2. /\ UpdateOrderToPaid(ord, its, publisher).order = new
      /\ UpdateOrderToPaid(ord, its, publisher).items = moved
      /\ UpdateOrderToPaid(ord, its, publisher).task = TRUE
      /\ UpdateOrderToPaid(ord, its, publisher).refund = {}
  BY <1>1 DEF UpdateOrderToPaid, Result
<1>3. new \in OrderDoc /\ new.status = "paid" /\ SameMoney(ord, new)
  BY DEF OrderDoc, OrderStatus, SameMoney
<1>4. moved \in [DOMAIN its -> ItemStatusOrNone]
  BY DEF UpdateItemsStatusByOrder, ItemStatusOrNone, ItemStatus
<1>5. Progress(its, ord, new)
  BY <1>3 DEF Progress
<1>6. <<ord.status, new.status>> \in MarkedPaid
  BY <1>3 DEF MarkedPaid
<1> QED
  BY <1>2, <1>3, <1>4, <1>5, <1>6 DEF RecalculationEffect

LEMMA CompletedEffect ==
  ASSUME NEW I, IsFiniteSet(I), NEW its \in [I -> ItemStatusOrNone], NEW ord \in OrderDoc,
         ord.status = "paid"
  PROVE  RecalculationEffect(ord, its, RecalculatePaid(ord, its))
<1> DEFINE new == [ord EXCEPT !.status = "completed",
                              !.itemsCount = CountItems(its, "delivered")]
<1>1. CountItems(its, "delivered") \in Nat
  BY CountItemsType
<1>2. new \in OrderDoc /\ new.status = "completed" /\ SameMoney(ord, new)
  BY <1>1 DEF OrderDoc, OrderStatus, SameMoney
<1>3. RecalculationEffect(ord, its, Commit(new, its))
  BY <1>2 DEF RecalculationEffect, Commit, Result, Progress, OtherMoves, MarkedPaid
<1>4. CASE CountItems(its, "pending_payment") = 0
  BY <1>3, <1>4 DEF RecalculatePaid
<1>5. CASE CountItems(its, "pending_payment") # 0
  <2>1. \E i \in DOMAIN its : its[i] = "pending_payment"
    <3>1. {i \in DOMAIN its : its[i] = "pending_payment"} # {}
      BY <1>5, FS_EmptySet DEF CountItems
    <3> QED
      BY <3>1
  <2>2. RecalculationEffect(ord, its, Commit(ord, its))
    BY <2>1, CommitEffect DEF Progress
  <2> QED
    BY <1>5, <2>2 DEF RecalculatePaid
<1> QED
  BY <1>4, <1>5

(* Every case of recalculateOrderStatus that commits keeps the document     *)
(* well formed, leaves the money columns alone, moves the order along       *)
(* MarkedPaid or OtherMoves, and moves items only with a payment.  Canceled *)
(* and returned orders have no case: the call panics.                       *)
THEOREM RecalculationIsSound ==
  ASSUME NEW I, IsFiniteSet(I), NEW its \in [I -> ItemStatusOrNone],
         NEW ord \in OrderDoc, NEW publisher \in BOOLEAN,
         RecalculateOrderStatus(ord, its, publisher).verdict = "commit"
  PROVE  /\ ord.status \notin {"canceled", "returned"}
         /\ RecalculationEffect(ord, its, RecalculateOrderStatus(ord, its, publisher))
<1> DEFINE r == RecalculateOrderStatus(ord, its, publisher)
           moved(status) == [ord EXCEPT !.status = status]
<1>a. /\ ord.status \in OrderStatus /\ ord.total \in Int /\ ord.paid \in Int
      /\ ord.returned \in Int /\ ord.itemsCount \in Nat /\ ord.returnedItemsCount \in Nat
  BY DEF OrderDoc
<1>b. \A status : /\ moved(status).status = status
                  /\ moved(status).itemsCount = ord.itemsCount
                  /\ moved(status).returnedItemsCount = ord.returnedItemsCount
  BY DEF OrderDoc
<1>c. \A verdict \in {"error", "panic"} : Abort(ord, its, verdict).verdict # "commit"
  BY DEF Abort, Result
<1>1. CASE ord.status = "unpaid"
  <2>1. r = RecalculateUnpaid(ord, its, publisher)
    BY <1>1 DEF RecalculateOrderStatus
  <2>2. RecalculationEffect(ord, its, Commit(ord, its))
    BY <1>1, CommitEffect DEF Progress
  <2>3. /\ RecalculationEffect(ord, its, Move(ord, its, "canceled"))
        /\ RecalculationEffect(ord, its, Move(ord, its, "partially_paid"))
    BY <1>1, <1>b, MoveEffect DEF Progress, OtherMoves, OrderStatus
  <2>4. r \in {Commit(ord, its), Move(ord, its, "canceled"), Move(ord, its, "partially_paid"),
               UpdateOrderToPaid(ord, its, publisher)}
    BY <2>1 DEF RecalculateUnpaid
  <2>5. r = UpdateOrderToPaid(ord, its, publisher) => RecalculationEffect(ord, its, r)
    BY <1>1, PaidEffect
  <2> QED
    BY <1>1, <2>2, <2>3, <2>4, <2>5
<1>2. CASE ord.status = "partially_paid"
  <2> DEFINE refunding == Result("commit", moved("pending_refund"), its, FALSE,
                              {ord.paid - ord.total})
  <2>1. r = RecalculatePartiallyPaid(ord, its, publisher)
    BY <1>2 DEF RecalculateOrderStatus
  <2>2. RecalculationEffect(ord, its, Commit(ord, its))
    BY <1>2, CommitEffect DEF Progress
  <2>3. RecalculationEffect(ord, its, Move(ord, its, "canceled"))
    BY <1>2, <1>b, MoveEffect DEF Progress, OtherMoves, OrderStatus
  <2>4. {ord.paid - ord.total} \in SUBSET Int
    BY <1>a
  <2>5. RecalculationEffect(ord, its, refunding)
    BY <1>2, <1>b, <2>4, MoveEffect, ZenonT(60) DEF Progress, OtherMoves, OrderStatus
  <2>6. r \in {Commit(ord, its), Move(ord, its, "canceled"), refunding,
               UpdateOrderToPaid(ord, its, publisher)}
    BY <1>a, <2>1 DEF RecalculatePartiallyPaid
  <2>7. r = UpdateOrderToPaid(ord, its, publisher) => RecalculationEffect(ord, its, r)
    BY <1>2, PaidEffect
  <2> QED
    BY <1>2, <2>2, <2>3, <2>5, <2>6, <2>7
<1>3. CASE ord.status = "pending_refund"
  <2>1. r \in {Commit(ord, its), UpdateOrderToPaid(ord, its, publisher)}
    BY <1>3 DEF RecalculateOrderStatus, RecalculatePendingRefund
  <2>2. RecalculationEffect(ord, its, Commit(ord, its))
    BY <1>3, CommitEffect DEF Progress
  <2>3. r = UpdateOrderToPaid(ord, its, publisher) => RecalculationEffect(ord, its, r)
    BY <1>3, PaidEffect
  <2> QED
    BY <1>3, <2>1, <2>2, <2>3
<1>4. CASE ord.status = "paid"
  <2>1. r = RecalculatePaid(ord, its)
    BY <1>4 DEF RecalculateOrderStatus
  <2> QED
    BY <1>4, <2>1, CompletedEffect
<1>5. CASE ord.status = "completed"
  <2>1. r = RecalculateCompleted(ord, its)
    BY <1>5 DEF RecalculateOrderStatus
  <2>2. ~SomeReturnOpen(its) => RecalculationEffect(ord, its, Commit(ord, its))
    BY <1>5, CommitEffect DEF Progress
  <2>3. RecalculationEffect(ord, its, Move(ord, its, "return_in_progress"))
    BY <1>5, <1>b, MoveEffect DEF Progress, OtherMoves, OrderStatus
  <2> QED
    BY <1>5, <2>1, <2>2, <2>3 DEF RecalculateCompleted
<1>6. CASE ord.status = "return_in_progress"
  <2>1. r = RecalculateReturnInProgress(ord, its)
    BY <1>6 DEF RecalculateOrderStatus
  <2>2. RecalculationEffect(ord, its, Commit(ord, its))
    BY <1>6, CommitEffect DEF Progress
  <2>3. CASE SomeReturnOpen(its)
    BY <1>6, <2>1, <2>2, <2>3 DEF RecalculateReturnInProgress
  <2>4. CASE ~SomeReturnOpen(its)
    <3>1. /\ RecalculationEffect(ord, its, Move(ord, its, "completed"))
          /\ RecalculationEffect(ord, its, Move(ord, its, "returned"))
      BY <1>6, <1>b, <2>4, MoveEffect DEF Progress, OtherMoves, OrderStatus
    <3>2. ord.itemsCount # ord.returnedItemsCount
            => RecalculationEffect(ord, its, Move(ord, its, "partially_returned"))
      BY <1>6, <1>b, <2>4, MoveEffect DEF Progress, OtherMoves, OrderStatus
    <3>3. \/ r \in {Move(ord, its, "completed"), Move(ord, its, "returned")}
          \/ ord.itemsCount # ord.returnedItemsCount /\ r = Move(ord, its, "partially_returned")
          \/ r = Abort(ord, its, "error")
      BY <1>a, <2>1, <2>4 DEF RecalculateReturnInProgress
    <3> QED
      BY <1>6, <1>c, <3>1, <3>2, <3>3
  <2> QED
    BY <2>3, <2>4
<1>7. CASE ord.status = "partially_returned"
  <2>1. r = RecalculatePartiallyReturned(ord, its)
    BY <1>7 DEF RecalculateOrderStatus
  <2>2. ord.returnedItemsCount # ord.itemsCount /\ ~SomeReturnOpen(its)
          => RecalculationEffect(ord, its, Commit(ord, its))
    BY <1>7, CommitEffect DEF Progress
  <2>3. ord.returnedItemsCount = ord.itemsCount
          => RecalculationEffect(ord, its, Move(ord, its, "returned"))
    BY <1>7, <1>b, MoveEffect DEF Progress, OtherMoves, OrderStatus
  <2>4. RecalculationEffect(ord, its, Move(ord, its, "return_in_progress"))
    BY <1>7, <1>b, MoveEffect DEF Progress, OtherMoves, OrderStatus
  <2> QED
    BY <1>7, <2>1, <2>2, <2>3, <2>4 DEF RecalculatePartiallyReturned
<1>8. ord.status \notin {"canceled", "returned"}
  BY <1>c DEF RecalculateOrderStatus
<1> QED
  BY <1>a, <1>1, <1>2, <1>3, <1>4, <1>5, <1>6, <1>7, <1>8 DEF OrderStatus

(* The same for the update of one item: the recalculation starts from the   *)
(* item's new status and, when it is canceled, from the reduced total.      *)
THEOREM ItemUpdateIsSound ==
  ASSUME NEW I, IsFiniteSet(I), NEW its \in [I -> ItemStatusOrNone],
         NEW ord \in OrderDoc, NEW i \in I, NEW new \in ItemStatus, NEW price \in Nat,
         UpdateOrderItemStatus(ord, its, i, new, price).verdict = "commit"
  PROVE  /\ ord.status \notin {"canceled", "returned"}
         /\ \E reduced \in OrderDoc :
              /\ reduced.status = ord.status
              /\ reduced = IF new = "canceled" THEN [ord EXCEPT !.total = @ - price] ELSE ord
              /\ RecalculationEffect(reduced, [its EXCEPT ![i] = new],
                                     UpdateOrderItemStatus(ord, its, i, new, price))
<1> DEFINE moved   == [its EXCEPT ![i] = new]
           reduced == IF new = "canceled" THEN [ord EXCEPT !.total = @ - price] ELSE ord
           base    == RecalculateOrderStatus(reduced, moved, FALSE)
           r       == UpdateOrderItemStatus(ord, its, i, new, price)
<1>1. moved \in [I -> ItemStatusOrNone]
  BY DEF ItemStatusOrNone
<1>2. /\ reduced \in OrderDoc
      /\ reduced.status = ord.status
  BY DEF OrderDoc
<1>3. /\ r.verdict = base.verdict
      /\ r.order = base.order
      /\ r.items = base.items
      /\ r.task = base.task
      /\ r.refund \in {base.refund, base.refund \union {price}}
  BY DEF UpdateOrderItemStatus, Result
<1>4. reduced.status \notin {"canceled", "returned"} /\ RecalculationEffect(reduced, moved, base)
  BY <1>1, <1>2, <1>3, RecalculationIsSound
<1>5. RecalculationEffect(reduced, moved, r)
  <2> HIDE DEF reduced, moved, base, r
  <2>1. base.refund \subseteq Int
    BY <1>4 DEF RecalculationEffect
  <2>2. r.refund \subseteq Int
    BY <1>3, <2>1
  <2> QED
    BY <1>3, <1>4, <2>2 DEF RecalculationEffect
<1>6. \E doc \in OrderDoc :
        /\ doc.status = ord.status
        /\ doc = IF new = "canceled" THEN [ord EXCEPT !.total = @ - price] ELSE ord
        /\ RecalculationEffect(doc, moved, r)
  <2>1. reduced = IF new = "canceled" THEN [ord EXCEPT !.total = @ - price] ELSE ord
    OBVIOUS
  <2> HIDE DEF reduced, moved, r
  <2> QED
    BY <1>2, <1>5, <2>1
<1> QED
  BY <1>2, <1>4, <1>6

-----------------------------------------------------------------------------
(* Sums over finite sets.  MapThenSumSet chooses a recursive function over  *)
(* the subsets of a set; what it is follows by induction over their size.   *)

(* The least number of a set.                                              *)
LEMMA LeastNatural ==
  ASSUME NEW T \in SUBSET Nat, T # {}
  PROVE  \E n \in T : \A m \in T : n <= m
<1> DEFINE R == OpToRel(<, Nat)
<1>1. IsWellFoundedOn(R, Nat)
  BY NatLessThanWellFounded
<1>2. \A m, n \in Nat : <<m, n>> \in R <=> m < n
  BY DEF OpToRel
<1> HIDE DEF R
<1>3. PICK n \in T : \A m \in T : ~(<<m, n>> \in R)
  BY <1>1, WFMin
<1>4. ASSUME NEW m \in T PROVE n <= m
  <2>1. m \in Nat /\ n \in Nat
    OBVIOUS
  <2>2. ~(m < n)
    BY <1>2, <1>3, <2>1
  <2> QED
    BY <2>1, <2>2
<1> QED
  BY <1>4

(* Induction over the numbers: the least one that is missed has a           *)
(* predecessor that is not.                                                 *)
LEMMA NaturalsReached ==
  ASSUME NEW T, 0 \in T, \A n \in Nat : n \in T => n + 1 \in T
  PROVE  Nat \subseteq T
<1> SUFFICES ASSUME Nat \ T # {} PROVE FALSE
  OBVIOUS
<1>1. PICK n \in Nat \ T : \A m \in Nat \ T : n <= m
  BY LeastNatural
<1>2. n - 1 \in Nat /\ n - 1 \in T
  BY <1>1
<1> QED
  BY <1>1, <1>2

(* Among the subsets of a finite set that have a property there is one none *)
(* of whose proper subsets has it.                                          *)
LEMMA LeastSubset ==
  ASSUME NEW S, IsFiniteSet(S), NEW F \in SUBSET SUBSET S, F # {}
  PROVE  \E s \in F : \A t \in F : ~(t \subseteq s /\ t # s)
<1> DEFINE sizes == {Cardinality(s) : s \in F}
<1>1. \A s \in F : IsFiniteSet(s) /\ Cardinality(s) \in Nat
  BY FS_Subset, FS_CardinalityType
<1>2. sizes \in SUBSET Nat /\ sizes # {}
  BY <1>1
<1>3. PICK n \in sizes : \A m \in sizes : n <= m
  BY <1>2, LeastNatural
<1>4. PICK s \in F : n = Cardinality(s)
  BY <1>3
<1>5. ASSUME NEW t \in F, t \subseteq s, t # s
      PROVE  FALSE
  <2>1. Cardinality(t) < Cardinality(s)
    BY <1>1, <1>5, FS_Subset
  <2>2. n <= Cardinality(t)
    BY <1>3
  <2> QED
    BY <1>1, <1>4, <2>1, <2>2
<1> QED
  BY <1>5

-----------------------------------------------------------------------------
(* The sum of a function over a set.                                       *)
SumOver(f, S) == MapThenSumSet(LAMBDA x : f[x], S)

Pick(s) == CHOOSE x \in s : TRUE

(* g sums f over every subset in D. *)
Sums(f, D, g) ==
  g = [s \in D |-> IF s = {} THEN 0
                   ELSE f[CHOOSE x \in s : TRUE] + g[s \ {CHOOSE x \in s : TRUE}]]

LEMMA PickIsElement ==
  ASSUME NEW s, s # {} PROVE Pick(s) \in s
BY DEF Pick

LEMMA SumsUnfold ==
  ASSUME NEW f, NEW D, NEW g, Sums(f, D, g)
  PROVE  \A s \in D : g[s] = IF s = {} THEN 0 ELSE f[Pick(s)] + g[s \ {Pick(s)}]
BY DEF Sums, Pick

(* There is such a g: by induction over the size of the subsets.            *)
LEMMA SumsExist ==
  ASSUME NEW f, NEW S, IsFiniteSet(S)
  PROVE  \E g : Sums(f, SUBSET S, g)
<1> DEFINE D(n) == {s \in SUBSET S : Cardinality(s) <= n}
           T == {n \in Nat : \E g : Sums(f, D(n), g)}
<1>1. \A s \in SUBSET S : IsFiniteSet(s) /\ Cardinality(s) \in Nat
  BY FS_Subset, FS_CardinalityType
<1>2. 0 \in T
  <2> DEFINE g == [s \in D(0) |-> 0]
  <2>1. \A s \in D(0) : s = {}
    BY <1>1, FS_EmptySet
  <2>2. Sums(f, D(0), g)
    BY <2>1 DEF Sums
  <2> QED
    BY <2>2
<1>3. ASSUME NEW n \in Nat, n \in T
      PROVE  n + 1 \in T
  <2>1. PICK g : Sums(f, D(n), g)
    BY <1>3
  <2> DEFINE h == [s \in D(n + 1) |-> IF s \in D(n) THEN g[s]
                                      ELSE f[Pick(s)] + g[s \ {Pick(s)}]]
  <2>2. ASSUME NEW s \in D(n + 1), s # {}
        PROVE  s \ {Pick(s)} \in D(n) /\ s \ {Pick(s)} \in D(n + 1)
    <3>1. Pick(s) \in s
      BY <2>2, PickIsElement
    <3>2. Cardinality(s \ {Pick(s)}) = Cardinality(s) - 1
      BY <1>1, <3>1, FS_RemoveElement
    <3> QED
      BY <1>1, <3>2
  <2>3. {} \in D(n)
    BY FS_EmptySet
  <2>4. ASSUME NEW s \in D(n + 1)
        PROVE  h[s] = IF s = {} THEN 0 ELSE f[Pick(s)] + h[s \ {Pick(s)}]
    <3>1. CASE s = {}
      <4>1. g[s] = 0
        BY <2>1, <2>3, <3>1, SumsUnfold, SMTT(30)
      <4> QED
        BY <2>3, <3>1, <4>1
    <3>2. CASE s # {} /\ s \in D(n)
      <4>1. g[s] = f[Pick(s)] + g[s \ {Pick(s)}]
        <5>1. \A t \in D(n) : g[t] = IF t = {} THEN 0 ELSE f[Pick(t)] + g[t \ {Pick(t)}]
          BY <2>1, SumsUnfold
        <5> HIDE DEF D
        <5> QED
          BY <3>2, <5>1
      <4> QED
        BY <2>2, <3>2, <4>1
    <3>3. CASE s # {} /\ s \notin D(n)
      BY <2>2, <3>3
    <3> QED
      BY <3>1, <3>2, <3>3
  <2>5. Sums(f, D(n + 1), h)
    <3>1. h = [s \in D(n + 1) |-> h[s]]
      OBVIOUS
    <3> HIDE DEF h, D
    <3> QED
      BY <2>4, <3>1 DEF Sums, Pick
  <2> HIDE DEF h
  <2>6. \E k : Sums(f, D(n + 1), k)
    BY <2>5
  <2> QED
    BY <2>6
<1>4. Cardinality(S) \in T
  <2> HIDE DEF T
  <2> QED
    BY <1>1, <1>2, <1>3, NaturalsReached
<1>5. D(Cardinality(S)) = SUBSET S
  BY FS_Subset
<1> QED
  BY <1>4, <1>5

(* And only one, where the functions summed agree.                          *)
LEMMA SumsAgree ==
  ASSUME NEW T, IsFiniteSet(T), NEW D, NEW E, E = SUBSET T, E \subseteq D,
         NEW f, NEW g, \A x \in T : f[x] = g[x],
         NEW h, Sums(f, D, h), NEW k, Sums(g, E, k)
  PROVE  h[T] = k[T]
<1> DEFINE F == {s \in SUBSET T : h[s] # k[s]}
<1> SUFFICES ASSUME F # {} PROVE FALSE
  <2>1. T \in SUBSET T
    OBVIOUS
  <2> QED
    BY <2>1
<1>1. PICK s \in F : \A t \in F : ~(t \subseteq s /\ t # s)
  <2>1. F \in SUBSET SUBSET T
    OBVIOUS
  <2> HIDE DEF F
  <2> QED
    BY <2>1, LeastSubset
<1>2. s \in SUBSET T /\ s \in E /\ s \in D /\ h[s] # k[s]
  OBVIOUS
<1>2a. /\ h[s] = IF s = {} THEN 0 ELSE f[Pick(s)] + h[s \ {Pick(s)}]
      /\ k[s] = IF s = {} THEN 0 ELSE g[Pick(s)] + k[s \ {Pick(s)}]
  <2> HIDE DEF F
  <2>1. \A t \in D : h[t] = IF t = {} THEN 0 ELSE f[Pick(t)] + h[t \ {Pick(t)}]
    BY SumsUnfold
  <2>2. \A t \in E : k[t] = IF t = {} THEN 0 ELSE g[Pick(t)] + k[t \ {Pick(t)}]
    BY ONLY Sums(g, E, k), SumsUnfold
  <2> QED
    BY <1>2, <2>1, <2>2
<1>3. s # {}
  BY <1>2, <1>2a
<1>4. Pick(s) \in s /\ s \ {Pick(s)} \in SUBSET T /\ Pick(s) \in T
  BY <1>2, <1>3, PickIsElement
<1>5. h[s \ {Pick(s)}] = k[s \ {Pick(s)}]
  BY <1>1, <1>4
<1> QED
  BY <1>2, <1>3, <1>4, <1>5, <1>2a

(* MapThenSumSet takes this g.                                              *)
LEMMA SumIsChosen ==
  ASSUME NEW f, NEW S, IsFiniteSet(S)
  PROVE  \E g : Sums(f, SUBSET S, g) /\ \A T \in SUBSET S : SumOver(f, T) = g[T]
<1>1. ASSUME NEW T, IsFiniteSet(T)
      PROVE  \E g : Sums(f, SUBSET T, g) /\ SumOver(f, T) = g[T]
  <2> DEFINE h == CHOOSE g : g = [s \in SUBSET T |-> IF s = {} THEN 0
                     ELSE f[CHOOSE x \in s : TRUE] + g[s \ {CHOOSE x \in s : TRUE}]]
  <2>1. \E g : Sums(f, SUBSET T, g)
    BY <1>1, SumsExist
  <2>2. Sums(f, SUBSET T, h)
    BY <2>1, Zenon DEF Sums
  <2>3. SumOver(f, T) = h[T]
    BY DEF SumOver, MapThenSumSet, MapThenFoldSet
  <2> QED
    BY <2>2, <2>3
<1>2. PICK g : Sums(f, SUBSET S, g)
  BY SumsExist
<1>3. ASSUME NEW T \in SUBSET S
      PROVE  SumOver(f, T) = g[T]
  <2>1. IsFiniteSet(T)
    BY FS_Subset
  <2>2. PICK h : Sums(f, SUBSET T, h) /\ SumOver(f, T) = h[T]
    BY <1>1, <2>1
  <2>3. g[T] = h[T]
    <3> DEFINE D == SUBSET S
               E == SUBSET T
    <3>1. E \subseteq D /\ Sums(f, D, g) /\ Sums(f, E, h)
      BY <1>2, <2>2
    <3>2. E = SUBSET T /\ \A x \in T : f[x] = f[x]
      OBVIOUS
    <3> HIDE DEF D, E
    <3> QED
      BY <2>1, <3>1, <3>2, SumsAgree
  <2> QED
    BY <2>2, <2>3
<1> QED
  BY <1>2, <1>3

(* The sum does not depend on the element that is taken out first.          *)
LEMMA SumsTakeAny ==
  ASSUME NEW f, NEW S, IsFiniteSet(S), \A x \in S : f[x] \in Int,
         NEW g, Sums(f, SUBSET S, g)
  PROVE  \A s \in SUBSET S : /\ g[s] \in Int
                             /\ \A x \in s : g[s] = f[x] + g[s \ {x}]
<1>0. \A t \in SUBSET S : g[t] = IF t = {} THEN 0 ELSE f[Pick(t)] + g[t \ {Pick(t)}]
  <2> DEFINE D == SUBSET S
  <2>1. Sums(f, D, g)
    OBVIOUS
  <2> HIDE DEF D
  <2>2. \A t \in D : g[t] = IF t = {} THEN 0 ELSE f[Pick(t)] + g[t \ {Pick(t)}]
    BY <2>1, SumsUnfold
  <2> QED
    BY <2>2 DEF D
<1>1. \A s \in SUBSET S : g[s] \in Int
  <2> DEFINE F == {s \in SUBSET S : g[s] \notin Int}
  <2> SUFFICES ASSUME F # {} PROVE FALSE
    OBVIOUS
  <2>1. PICK s \in F : \A t \in F : ~(t \subseteq s /\ t # s)
    <3>1. F \in SUBSET SUBSET S
      OBVIOUS
    <3> HIDE DEF F
    <3> QED
      BY <3>1, LeastSubset
  <2>1a. s \in SUBSET S /\ g[s] \notin Int
    OBVIOUS
  <2>1b. g[s] = IF s = {} THEN 0 ELSE f[Pick(s)] + g[s \ {Pick(s)}]
    <3> QED
      BY <1>0, <2>1a
  <2>2. s # {}
    BY <2>1a, <2>1b
  <2>3. Pick(s) \in s /\ s \ {Pick(s)} \in SUBSET S /\ Pick(s) \in S
    BY <2>2, PickIsElement
  <2>4. g[s \ {Pick(s)}] \in Int
    BY <2>1, <2>3
  <2>5. f[Pick(s)] \in Int
    BY <2>3
  <2> QED
    BY <2>2, <2>4, <2>5, <2>1a, <2>1b
<1>2. \A s \in SUBSET S : \A x \in s : g[s] = f[x] + g[s \ {x}]
  <2> DEFINE F == {s \in SUBSET S : \E x \in s : g[s] # f[x] + g[s \ {x}]}
  <2> SUFFICES ASSUME F # {} PROVE FALSE
    OBVIOUS
  <2>1. PICK s \in F : \A t \in F : ~(t \subseteq s /\ t # s)
    <3>1. F \in SUBSET SUBSET S
      OBVIOUS
    <3> HIDE DEF F
    <3> QED
      BY <3>1, LeastSubset
  <2>2. PICK x \in s : g[s] # f[x] + g[s \ {x}]
    OBVIOUS
  <2> DEFINE y == Pick(s)
  <2>3. y \in s /\ s \in SUBSET S
    BY PickIsElement
  <2>4. g[s] = f[y] + g[s \ {y}]
    <3>1. s # {}
      BY <2>3
    <3> HIDE DEF F
    <3> QED
      BY <1>0, <2>3, <3>1
  <2>5. x # y
    BY <2>2, <2>4
  <2>6. /\ s \ {y} \in SUBSET S /\ x \in s \ {y} /\ s \ {y} # s
        /\ s \ {x} \in SUBSET S /\ y \in s \ {x} /\ s \ {x} # s
        /\ (s \ {y}) \ {x} = (s \ {x}) \ {y}
        /\ (s \ {x}) \ {y} \in SUBSET S
    BY <2>3, <2>5
  <2> HIDE DEF y
  <2>7. g[s \ {y}] = f[x] + g[(s \ {y}) \ {x}]
    BY <2>1, <2>6
  <2>8. g[s \ {x}] = f[y] + g[(s \ {x}) \ {y}]
    BY <2>1, <2>6
  <2>9. f[x] \in Int /\ f[y] \in Int /\ g[(s \ {x}) \ {y}] \in Int
    BY <1>1, <2>3, <2>6
  <2>10. g[s] = f[x] + g[s \ {x}]
    <3> DEFINE a == f[x]
               b == f[y]
               c == g[(s \ {x}) \ {y}]
    <3>1. g[s] = b + (a + c)
      BY ONLY <2>4, <2>6, <2>7
    <3>2. g[s \ {x}] = b + c
      BY ONLY <2>8
    <3>3. a \in Int /\ b \in Int /\ c \in Int
      BY ONLY <2>9
    <3> HIDE DEF a, b, c
    <3>4. b + (a + c) = a + (b + c)
      BY ONLY <3>3
    <3> QED
      BY ONLY <3>1, <3>2, <3>4 DEF a
  <2> QED
    BY ONLY <2>2, <2>10
<1> QED
  BY <1>1, <1>2

-----------------------------------------------------------------------------
(* The sum over no element.                                                 *)
LEMMA SumOfNothing ==
  ASSUME NEW f
  PROVE  SumOver(f, {}) = 0
<1>1. PICK g : Sums(f, SUBSET {}, g) /\ \A T \in SUBSET {} : SumOver(f, T) = g[T]
  BY FS_EmptySet, SumIsChosen
<1> QED
  BY <1>1, SumsUnfold

(* Integers add up to an integer.                                           *)
LEMMA SumIsInteger ==
  ASSUME NEW f, NEW S, IsFiniteSet(S), \A x \in S : f[x] \in Int
  PROVE  SumOver(f, S) \in Int
<1>1. PICK g : Sums(f, SUBSET S, g) /\ \A T \in SUBSET S : SumOver(f, T) = g[T]
  BY SumIsChosen
<1> QED
  BY <1>1, SumsTakeAny

(* Any element may be taken out of a sum.                                   *)
LEMMA SumWithout ==
  ASSUME NEW f, NEW S, IsFiniteSet(S), \A x \in S : f[x] \in Int, NEW x \in S
  PROVE  SumOver(f, S) = f[x] + SumOver(f, S \ {x})
<1>1. PICK g : Sums(f, SUBSET S, g) /\ \A T \in SUBSET S : SumOver(f, T) = g[T]
  BY SumIsChosen
<1>2. S \in SUBSET S /\ S \ {x} \in SUBSET S
  OBVIOUS
<1>3. g[S] = f[x] + g[S \ {x}]
  BY <1>1, <1>2, SumsTakeAny
<1> QED
  BY <1>1, <1>2, <1>3

(* One element more.                                                        *)
LEMMA SumWith ==
  ASSUME NEW f, NEW S, IsFiniteSet(S), NEW x, x \notin S,
         \A y \in S \union {x} : f[y] \in Int
  PROVE  SumOver(f, S \union {x}) = SumOver(f, S) + f[x]
<1> DEFINE T == S \union {x}
<1>1. IsFiniteSet(T) /\ x \in T /\ T \ {x} = S
  BY FS_AddElement
<1> HIDE DEF T
<1>2. SumOver(f, T) = f[x] + SumOver(f, S)
  BY <1>1, SumWithout DEF T
<1>3. SumOver(f, S) \in Int /\ f[x] \in Int
  BY SumIsInteger
<1> QED
  BY <1>2, <1>3 DEF T

(* Equal values have equal sums.                                            *)
LEMMA SumOfSame ==
  ASSUME NEW f, NEW g, NEW S, IsFiniteSet(S), \A x \in S : f[x] = g[x]
  PROVE  SumOver(f, S) = SumOver(g, S)
<1>1. PICK h : Sums(f, SUBSET S, h) /\ \A T \in SUBSET S : SumOver(f, T) = h[T]
  BY ONLY IsFiniteSet(S), SumIsChosen
<1>2. PICK k : Sums(g, SUBSET S, k) /\ \A T \in SUBSET S : SumOver(g, T) = k[T]
  BY ONLY IsFiniteSet(S), SumIsChosen
<1>3. h[S] = k[S]
  <2> DEFINE D == SUBSET S
  <2>1. D \subseteq D /\ D = SUBSET S /\ Sums(f, D, h) /\ Sums(g, D, k)
    BY <1>1, <1>2
  <2> HIDE DEF D
  <2> QED
    BY <2>1, SumsAgree
<1>4. S \in SUBSET S
  OBVIOUS
<1> QED
  BY <1>1, <1>2, <1>3, <1>4

(* A part of a set of naturals adds up to no more than the whole.           *)
LEMMA SumOfPart ==
  ASSUME NEW f, NEW S, IsFiniteSet(S), \A x \in S : f[x] \in Nat,
         NEW T \in SUBSET S
  PROVE  0 <= SumOver(f, T) /\ SumOver(f, T) <= SumOver(f, S)
<1>1. \A s \in SUBSET S : 0 <= SumOver(f, s)
  <2> DEFINE F == {s \in SUBSET S : ~(0 <= SumOver(f, s))}
  <2> SUFFICES ASSUME F # {} PROVE FALSE
    OBVIOUS
  <2>1. PICK s \in F : \A t \in F : ~(t \subseteq s /\ t # s)
    <3>1. F \in SUBSET SUBSET S
      OBVIOUS
    <3> HIDE DEF F
    <3> QED
      BY <3>1, LeastSubset
  <2>2. PICK x \in s : TRUE
    BY SumOfNothing
  <2>3. IsFiniteSet(s) /\ IsFiniteSet(s \ {x}) /\ \A y \in s : f[y] \in Int
    BY FS_Subset
  <2>4. SumOver(f, s) = f[x] + SumOver(f, s \ {x})
    BY <2>3, SumWithout
  <2>5. 0 <= SumOver(f, s \ {x})
    BY <2>1
  <2>6. SumOver(f, s \ {x}) \in Int
    BY <2>3, SumIsInteger
  <2> QED
    BY <2>4, <2>5, <2>6
<1>2. SumOver(f, T) <= SumOver(f, S)
  <2> DEFINE F == {s \in SUBSET S : T \subseteq s /\ ~(SumOver(f, T) <= SumOver(f, s))}
  <2> SUFFICES ASSUME F # {} PROVE FALSE
    OBVIOUS
  <2>1. PICK s \in F : \A t \in F : ~(t \subseteq s /\ t # s)
    <3>1. F \in SUBSET SUBSET S
      OBVIOUS
    <3> HIDE DEF F
    <3> QED
      BY <3>1, LeastSubset
  <2>2. IsFiniteSet(s) /\ IsFiniteSet(T) /\ SumOver(f, s) \in Int /\ SumOver(f, T) \in Int
    BY FS_Subset, SumIsInteger
  <2>3. PICK x \in s \ T : TRUE
    BY <2>2
  <2>4. IsFiniteSet(s \ {x}) /\ SumOver(f, s \ {x}) \in Int
    BY <2>2, FS_Subset, SumIsInteger
  <2>5. SumOver(f, s) = f[x] + SumOver(f, s \ {x})
    BY <2>2, SumWithout
  <2>6. SumOver(f, T) <= SumOver(f, s \ {x})
    BY <2>1, <2>3
  <2> QED
    BY <2>2, <2>4, <2>5, <2>6
<1> QED
  BY <1>1, <1>2

-----------------------------------------------------------------------------
(* The sum of the amounts of documents, and the same as the sum of a        *)
(* function.                                                                *)
SumOfAmounts(docs, S) == MapThenSumSet(LAMBDA x : docs[x].amount, S)

LEMMA AmountsAreAFunction ==
  ASSUME NEW docs, NEW S, IsFiniteSet(S)
  PROVE  SumOfAmounts(docs, S) = SumOver([x \in S |-> docs[x].amount], S)
<1> DEFINE f == [x \in S |-> docs[x].amount]
           D == SUBSET S
           h == CHOOSE g : g = [s \in D |-> IF s = {} THEN 0
                  ELSE docs[CHOOSE x \in s : TRUE].amount + g[s \ {CHOOSE x \in s : TRUE}]]
<1>1. \A s \in D : s # {} => f[CHOOSE x \in s : TRUE] = docs[CHOOSE x \in s : TRUE].amount
  BY Zenon
<1>2. \A g : Sums(f, D, g)
             => g = [s \in D |-> IF s = {} THEN 0
                  ELSE docs[CHOOSE x \in s : TRUE].amount + g[s \ {CHOOSE x \in s : TRUE}]]
  <2> HIDE DEF D, f
  <2> QED
    BY <1>1 DEF Sums
<1>3. \E g : Sums(f, D, g)
  BY SumsExist
<1>4. h = [s \in D |-> IF s = {} THEN 0
                  ELSE docs[CHOOSE x \in s : TRUE].amount + h[s \ {CHOOSE x \in s : TRUE}]]
  <2>1. \E g : g = [s \in D |-> IF s = {} THEN 0
               ELSE docs[CHOOSE x \in s : TRUE].amount + g[s \ {CHOOSE x \in s : TRUE}]]
    <3> HIDE DEF D, f
    <3> QED
      BY <1>2, <1>3
  <2> HIDE DEF D, f
  <2> QED
    BY <2>1, Zenon
<1>5. Sums(f, D, h)
  <2> HIDE DEF h
  <2>1. h = [s \in D |-> IF s = {} THEN 0
               ELSE f[CHOOSE x \in s : TRUE] + h[s \ {CHOOSE x \in s : TRUE}]]
    <3> HIDE DEF D, f
    <3> QED
      BY <1>1, <1>4
  <2> QED
    BY <2>1 DEF Sums
<1>6. SumOfAmounts(docs, S) = h[S]
  BY DEF SumOfAmounts, MapThenSumSet, MapThenFoldSet
<1>7. PICK k : Sums(f, D, k) /\ \A T \in D : SumOver(f, T) = k[T]
  BY SumIsChosen
<1>8. h[S] = k[S]
  <2>1. D \subseteq D /\ D = SUBSET S
    OBVIOUS
  <2> HIDE DEF D, h, f
  <2> QED
    BY <1>5, <1>7, <2>1, SumsAgree
<1>9. S \in D
  OBVIOUS
<1> QED
  BY <1>6, <1>7, <1>8, <1>9

(* The sum of the prices as OrderLifecycle writes it.                       *)
LEMMA SumOfPrices ==
  ASSUME NEW f, NEW S
  PROVE  MapThenSumSet(LAMBDA i : f[i], S) = SumOver(f, S)
BY DEF SumOver, MapThenSumSet, MapThenFoldSet

(* No documents, no amount.                                                 *)
LEMMA NoAmounts ==
  ASSUME NEW docs
  PROVE  SumOfAmounts(docs, {}) = 0
BY AmountsAreAFunction, SumOfNothing, FS_EmptySet

(* Documents whose amounts are the same add up to the same.                 *)
LEMMA SameAmounts ==
  ASSUME NEW old, NEW new, NEW S, IsFiniteSet(S), \A x \in S : new[x].amount = old[x].amount
  PROVE  SumOfAmounts(new, S) = SumOfAmounts(old, S)
<1>1. [x \in S |-> new[x].amount] = [x \in S |-> old[x].amount]
  OBVIOUS
<1> QED
  BY <1>1, AmountsAreAFunction

(* One document more.                                                       *)
LEMMA OneMoreAmount ==
  ASSUME NEW old, NEW new, NEW S, IsFiniteSet(S), NEW x, x \notin S,
         \A y \in S : new[y].amount = old[y].amount /\ old[y].amount \in Int,
         new[x].amount \in Int
  PROVE  SumOfAmounts(new, S \union {x}) = SumOfAmounts(old, S) + new[x].amount
<1> DEFINE T == S \union {x}
           f == [y \in T |-> new[y].amount]
           g == [y \in S |-> old[y].amount]
<1>1. IsFiniteSet(T)
  BY FS_AddElement
<1>2. \A y \in S \union {x} : f[y] \in Int
  OBVIOUS
<1>3. f[x] = new[x].amount /\ \A y \in S : f[y] = g[y]
  OBVIOUS
<1>4. SumOfAmounts(new, T) = SumOver(f, T) /\ SumOfAmounts(old, S) = SumOver(g, S)
  BY <1>1, AmountsAreAFunction
<1> HIDE DEF f, g
<1>5. SumOver(f, S \union {x}) = SumOver(f, S) + f[x]
  BY <1>2, SumWith
<1>6. SumOver(f, S) = SumOver(g, S)
  BY <1>3, SumOfSame
<1> QED
  BY <1>3, <1>4, <1>5, <1>6
=============================================================================
