-------------------------- MODULE TicketTypesProofs --------------------------
(***************************************************************************)
(* For any number of types, sessions, stocks and buyers: a ticket is given  *)
(* back to a stock that is still there, no stock is oversold, none loses a  *)
(* ticket but for whole words, every session of a type has a stock, and     *)
(* types stay in the order the console has put them in.                     *)
(*                                                                         *)
(* The argument for NeverOversold: a reservation lifts the quantity of a    *)
(* stock above the word for good, so that the stock is read at most once    *)
(* before; and whoever has read it at that time is behind after the first   *)
(* reservation.                                                             *)
(***************************************************************************)
EXTENDS TicketTypes, TLAPS

SoldOnce ==
  \A s \in DOMAIN stocks :
    (stocks[s].quantity = stocks[s].initial /\ held[s] = 0) \/ stocks[s].quantity >= WordModulus

NothingHeldElsewhere == \A s \in 1 .. MaxStocks : s \notin DOMAIN stocks => held[s] = 0

FreshCart ==
  \A b \in Buyers : cart[b] # NoCart /\ ~cart[b].stale =>
    \A s \in DOMAIN cart[b].lines :
      /\ s \in DOMAIN stocks
      /\ stocks[s].quantity = stocks[s].initial /\ held[s] = 0
      /\ cart[b].lines[s] \in 1 .. stocks[s].initial

IInv ==
  /\ TypeOK /\ SoldOnce /\ NothingHeldElsewhere /\ FreshCart
  /\ NeverOversold /\ EverySessionHasStock

-----------------------------------------------------------------------------
(* The filter "config" finds nothing.                                       *)
LEMMA NothingIsDeleted ==
  ASSUME NEW f, NEW t, \A s \in DOMAIN f : f[s] \in StockDoc
  PROVE  /\ DOMAIN DeleteTicketStockByType(f, t) = DOMAIN f
         /\ \A s \in DOMAIN f : DeleteTicketStockByType(f, t)[s] = f[s]
<1>1. \A s \in DOMAIN f : "config" \notin DOMAIN f[s]
  BY DEF StockDoc
<1>2. {s \in DOMAIN f : ~("config" \in DOMAIN f[s] /\ f[s]["config"] = t)} = DOMAIN f
  BY <1>1
<1> QED
  BY <1>2 DEF DeleteTicketStockByType, Restrict

LEMMA SessionsConvert ==
  ASSUME NEW req \in TypeRequests, AcceptedRequest(req)
  PROVE  /\ Len(req.sessions) \in Nat
         /\ DOMAIN ConvertSessions(req) = 1 .. Len(req.sessions)
         /\ Len(ConvertSessions(req)) = Len(req.sessions)
         /\ \A i \in 1 .. Len(req.sessions) :
              /\ ConvertSessions(req)[i].session \in Sessions
              /\ ConvertSessions(req)[i].sale_start \in Nat
              /\ ConvertSessions(req)[i].sale_end \in Nat
<1>1. req.sessions \in Seq(SessionRequest)
  BY TypesAssumption DEF TypeRequest
<1>2. /\ Len(req.sessions) \in Nat /\ DOMAIN req.sessions = 1 .. Len(req.sessions)
      /\ \A i \in 1 .. Len(req.sessions) : req.sessions[i] \in SessionRequest
  BY <1>1
<1>3. \A i \in 1 .. Len(req.sessions) :
        /\ ConvertSessions(req)[i].session \in Sessions
        /\ ConvertSessions(req)[i].sale_start \in Nat
        /\ ConvertSessions(req)[i].sale_end \in Nat
  BY <1>2, TypesAssumption DEF ConvertSessions, AcceptedRequest, SessionRequest, AsTime, Epoch, Null
<1>4. DOMAIN ConvertSessions(req) = 1 .. Len(req.sessions)
  BY <1>2 DEF ConvertSessions
<1>5. ConvertSessions(req) \in Seq([session : Sessions, sale_start : Nat, sale_end : Nat])
  <2>1. \A i \in 1 .. Len(req.sessions) :
          ConvertSessions(req)[i] \in [session : Sessions, sale_start : Nat, sale_end : Nat]
    BY <1>2, <1>3 DEF ConvertSessions
  <2>2. ConvertSessions(req) = [i \in 1 .. Len(req.sessions) |-> ConvertSessions(req)[i]]
    BY <1>2 DEF ConvertSessions
  <2> QED
    BY <1>2, <2>1, <2>2
<1>6. Len(ConvertSessions(req)) = Len(req.sessions)
  BY <1>2, <1>4, <1>5
<1> QED
  BY <1>2, <1>3, <1>4, <1>6

(* Stocks that are added stand behind the others and are untouched.         *)
LEMMA StocksAreAdded ==
  ASSUME TypeOK, NEW req \in TypeRequests, AcceptedRequest(req),
         NEW t \in 1 .. MaxTypes, NEW f, DOMAIN f = DOMAIN stocks,
         \A s \in DOMAIN stocks : f[s] = stocks[s],
         lastStock + Len(req.sessions) <= MaxStocks,
         stocks' = AddTicketStocks(f, t, req),
         lastStock' = lastStock + Len(req.sessions)
  PROVE  /\ lastStock' \in 0 .. MaxStocks /\ lastStock <= lastStock'
         /\ DOMAIN stocks \subseteq DOMAIN stocks' /\ DOMAIN stocks' \subseteq 1 .. lastStock'
         /\ \A s \in DOMAIN stocks : stocks'[s] = stocks[s]
         /\ \A s \in DOMAIN stocks' : stocks'[s] \in StockDoc
         /\ \A s \in DOMAIN stocks' \ DOMAIN stocks :
              stocks'[s].quantity = stocks'[s].initial
         /\ \A w \in Range(ConvertSessions(req)) : \E s \in DOMAIN stocks' :
              /\ stocks'[s].type = t /\ stocks'[s].session = w.session
              /\ stocks'[s].sale_start = w.sale_start /\ stocks'[s].sale_end = w.sale_end
<1> DEFINE sessions == ConvertSessions(req)
           n == Len(req.sessions)
<1>1. /\ n \in Nat /\ DOMAIN sessions = 1 .. n /\ Len(sessions) = n
      /\ \A i \in 1 .. n : /\ sessions[i].session \in Sessions
                           /\ sessions[i].sale_start \in Nat /\ sessions[i].sale_end \in Nat
  BY SessionsConvert
<1>2. req.quantity \in 1 .. WordModulus - 1
  BY TypesAssumption DEF TypeRequest
<1>3. /\ lastStock \in Nat /\ DOMAIN stocks \subseteq 1 .. lastStock /\ MaxStocks \in Nat
      /\ WordModulus \in Nat
  BY TypesAssumption DEF TypeOK
<1>4. DOMAIN stocks' = DOMAIN stocks \union (lastStock + 1 .. lastStock + n)
  BY <1>1 DEF AddTicketStocks
<1>5. \A s \in DOMAIN stocks : stocks'[s] = stocks[s]
  BY <1>1, <1>4 DEF AddTicketStocks
<1>6. \A s \in lastStock + 1 .. lastStock + n :
        stocks'[s] = [session |-> sessions[s - lastStock].session, type |-> t,
                      sale_start |-> sessions[s - lastStock].sale_start,
                      sale_end |-> sessions[s - lastStock].sale_end,
                      quantity |-> req.quantity, initial |-> req.quantity]
  BY <1>1, <1>3, <1>4 DEF AddTicketStocks
<1>7. \A s \in lastStock + 1 .. lastStock + n : stocks'[s] \in StockDoc
  <2> SUFFICES ASSUME NEW s \in lastStock + 1 .. lastStock + n PROVE stocks'[s] \in StockDoc
    OBVIOUS
  <2>1. s - lastStock \in 1 .. n
    BY <1>1, <1>3
  <2>2. /\ sessions[s - lastStock].session \in Sessions
        /\ sessions[s - lastStock].sale_start \in Nat
        /\ sessions[s - lastStock].sale_end \in Nat
    BY <1>1, <2>1
  <2>3. req.quantity \in Nat
    BY <1>2, <1>3
  <2>4. stocks'[s] = [session |-> sessions[s - lastStock].session, type |-> t,
                       sale_start |-> sessions[s - lastStock].sale_start,
                       sale_end |-> sessions[s - lastStock].sale_end,
                       quantity |-> req.quantity, initial |-> req.quantity]
    BY <1>6
  <2> HIDE DEF sessions, n
  <2> QED
    BY <1>2, <2>2, <2>3, <2>4 DEF StockDoc
<1>8. \A w \in Range(sessions) : \E s \in DOMAIN stocks' :
        /\ stocks'[s].type = t /\ stocks'[s].session = w.session
        /\ stocks'[s].sale_start = w.sale_start /\ stocks'[s].sale_end = w.sale_end
  <2> SUFFICES ASSUME NEW i \in 1 .. n
               PROVE  \E s \in DOMAIN stocks' :
                        /\ stocks'[s].type = t /\ stocks'[s].session = sessions[i].session
                        /\ stocks'[s].sale_start = sessions[i].sale_start
                        /\ stocks'[s].sale_end = sessions[i].sale_end
    BY <1>1 DEF Range
  <2>1. lastStock + i \in lastStock + 1 .. lastStock + n /\ (lastStock + i) - lastStock = i
    BY <1>1, <1>3
  <2>2. lastStock + i \in DOMAIN stocks'
    BY <1>4, <2>1
  <2>3. /\ stocks'[lastStock + i].type = t
        /\ stocks'[lastStock + i].session = sessions[i].session
        /\ stocks'[lastStock + i].sale_start = sessions[i].sale_start
        /\ stocks'[lastStock + i].sale_end = sessions[i].sale_end
    <3> DEFINE s == lastStock + i
    <3>1. stocks'[s] = [session |-> sessions[s - lastStock].session, type |-> t,
                        sale_start |-> sessions[s - lastStock].sale_start,
                        sale_end |-> sessions[s - lastStock].sale_end,
                        quantity |-> req.quantity, initial |-> req.quantity]
      BY <1>6, <2>1
    <3>2. s - lastStock = i
      BY <2>1
    <3> HIDE DEF s, sessions
    <3>3. /\ stocks'[s].type = t /\ stocks'[s].session = sessions[i].session
          /\ stocks'[s].sale_start = sessions[i].sale_start
          /\ stocks'[s].sale_end = sessions[i].sale_end
      BY <3>1, <3>2
    <3> QED
      BY <3>3 DEF s
  <2> HIDE DEF sessions
  <2> QED
    BY <2>2, <2>3
<1>9. \A s \in DOMAIN stocks : stocks[s] \in StockDoc
  BY DEF TypeOK
<1> HIDE DEF sessions
<1>10. /\ lastStock' \in 0 .. MaxStocks /\ lastStock <= lastStock'
       /\ DOMAIN stocks \subseteq DOMAIN stocks' /\ DOMAIN stocks' \subseteq 1 .. lastStock'
  BY <1>1, <1>3, <1>4
<1>11. /\ \A s \in DOMAIN stocks' : stocks'[s] \in StockDoc
       /\ \A s \in DOMAIN stocks' \ DOMAIN stocks : stocks'[s].quantity = stocks'[s].initial
  <2>1. \A s \in lastStock + 1 .. lastStock + n : stocks'[s].quantity = stocks'[s].initial
    <3> SUFFICES ASSUME NEW s \in lastStock + 1 .. lastStock + n
                 PROVE  stocks'[s].quantity = stocks'[s].initial
      OBVIOUS
    <3>1. stocks'[s] = [session |-> sessions[s - lastStock].session, type |-> t,
                        sale_start |-> sessions[s - lastStock].sale_start,
                        sale_end |-> sessions[s - lastStock].sale_end,
                        quantity |-> req.quantity, initial |-> req.quantity]
      BY <1>6
    <3> QED
      BY <3>1
  <2> DEFINE new == lastStock + 1 .. lastStock + n
  <2>2. /\ DOMAIN stocks' = DOMAIN stocks \union new
        /\ \A s \in new : stocks'[s] \in StockDoc /\ stocks'[s].quantity = stocks'[s].initial
    BY <1>4, <1>7, <2>1
  <2>3. ASSUME NEW s \in DOMAIN stocks' PROVE s \in DOMAIN stocks \/ s \in new
    BY <2>2
  <2>4. \A s \in DOMAIN stocks : stocks'[s] \in StockDoc
    BY <1>5, <1>9
  <2> HIDE DEF n, new
  <2> QED
    BY <2>2, <2>3, <2>4
<1> QED
  BY <1>5, <1>8, <1>10, <1>11 DEF sessions

-----------------------------------------------------------------------------
LEMMA InitHolds == Init => IInv
  BY TypesAssumption
  DEF Init, IInv, TypeOK, SoldOnce, NothingHeldElsewhere, FreshCart, NeverOversold,
      EverySessionHasStock

(* A change of the types that leaves the stocks alone or adds to them.      *)
LEMMA StocksKept ==
  ASSUME IInv, NEW ok \in {TRUE},
         DOMAIN stocks \subseteq DOMAIN stocks', DOMAIN stocks' \subseteq 1 .. MaxStocks,
         \A s \in DOMAIN stocks : stocks'[s] = stocks[s],
         \A s \in DOMAIN stocks' \ DOMAIN stocks : stocks'[s].quantity = stocks'[s].initial,
         \A s \in DOMAIN stocks' : stocks'[s] \in StockDoc,
         UNCHANGED <<cart, held>>
  PROVE  SoldOnce' /\ NothingHeldElsewhere' /\ FreshCart' /\ NeverOversold'
<1> USE DEF IInv
<1>1. SoldOnce'
  BY DEF SoldOnce, NothingHeldElsewhere
<1>2. NothingHeldElsewhere'
  BY DEF NothingHeldElsewhere
<1>3. FreshCart'
  BY DEF FreshCart
<1>4. NeverOversold'
  BY TypesAssumption, SMTT(30) DEF NeverOversold, NothingHeldElsewhere, StockDoc
<1> QED
  BY <1>1, <1>2, <1>3, <1>4
-----------------------------------------------------------------------------
LEMMA AddKeeps ==
  ASSUME IInv, NEW e \in Events, NEW req \in TypeRequests, AddTicketType(e, req)
  PROVE  IInv'
<1> USE DEF IInv, AddTicketType
<1> DEFINE t == lastType + 1
<1>0. /\ lastType \in Nat /\ MaxTypes \in Nat /\ t \in 1 .. MaxTypes
      /\ lastStock \in Nat /\ MaxStocks \in Nat /\ t \notin DOMAIN types
  BY TypesAssumption DEF TypeOK
<1>1. /\ lastStock' \in 0 .. MaxStocks /\ lastStock <= lastStock'
      /\ DOMAIN stocks \subseteq DOMAIN stocks' /\ DOMAIN stocks' \subseteq 1 .. lastStock'
      /\ \A s \in DOMAIN stocks : stocks'[s] = stocks[s]
      /\ \A s \in DOMAIN stocks' : stocks'[s] \in StockDoc
      /\ \A s \in DOMAIN stocks' \ DOMAIN stocks : stocks'[s].quantity = stocks'[s].initial
      /\ \A w \in Range(ConvertSessions(req)) : \E s \in DOMAIN stocks' :
           /\ stocks'[s].type = t /\ stocks'[s].session = w.session
           /\ stocks'[s].sale_start = w.sale_start /\ stocks'[s].sale_end = w.sale_end
  BY <1>0, StocksAreAdded
<1>2. NewTicketType(e, req) \in TypeDoc
  BY TypesAssumption DEF NewTicketType, TypeDoc, TypeRequest, AlwaysDisplay
<1>3. TypeOK'
  BY <1>0, <1>1, <1>2 DEF TypeOK
<1>4. SoldOnce' /\ NothingHeldElsewhere' /\ FreshCart' /\ NeverOversold'
  BY <1>0, <1>1, StocksKept
<1>5. EverySessionHasStock'
  <2> SUFFICES ASSUME NEW u \in DOMAIN types', NEW w \in wanted'[u]
               PROVE  \E s \in DOMAIN stocks' :
                        /\ stocks'[s].type = u /\ stocks'[s].session = w.session
                        /\ stocks'[s].sale_start = w.sale_start
                        /\ stocks'[s].sale_end = w.sale_end
    BY DEF EverySessionHasStock
  <2>1. CASE u = t
    BY <1>0, <1>1, <2>1 DEF TypeOK
  <2>2. CASE u # t
    <3>1. u \in DOMAIN types /\ w \in wanted[u]
      BY <2>2 DEF TypeOK
    <3> QED
      BY <1>1, <3>1 DEF EverySessionHasStock
  <2> QED
    BY <2>1, <2>2
<1> QED
  BY <1>3, <1>4, <1>5

LEMMA UpdateKeeps ==
  ASSUME IInv, NEW t \in 1 .. MaxTypes, NEW req \in TypeRequests, UpdateTicketType(t, req)
  PROVE  IInv'
<1> USE DEF IInv, UpdateTicketType
<1> DEFINE f == DeleteTicketStockByType(stocks, t)
<1>0. /\ DOMAIN f = DOMAIN stocks
      /\ \A s \in DOMAIN stocks : f[s] = stocks[s]
      /\ lastStock \in Nat /\ MaxStocks \in Nat
  BY TypesAssumption, NothingIsDeleted DEF TypeOK
<1>1. /\ lastStock' \in 0 .. MaxStocks /\ lastStock <= lastStock'
      /\ DOMAIN stocks \subseteq DOMAIN stocks' /\ DOMAIN stocks' \subseteq 1 .. lastStock'
      /\ \A s \in DOMAIN stocks : stocks'[s] = stocks[s]
      /\ \A s \in DOMAIN stocks' : stocks'[s] \in StockDoc
      /\ \A s \in DOMAIN stocks' \ DOMAIN stocks : stocks'[s].quantity = stocks'[s].initial
      /\ \A w \in Range(ConvertSessions(req)) : \E s \in DOMAIN stocks' :
           /\ stocks'[s].type = t /\ stocks'[s].session = w.session
           /\ stocks'[s].sale_start = w.sale_start /\ stocks'[s].sale_end = w.sale_end
  <2> HIDE DEF f
  <2>1. stocks' = AddTicketStocks(f, t, req)
    BY DEF f
  <2> QED
    BY <1>0, <2>1, StocksAreAdded
<1>2. SetColumns(types[t], req) \in TypeDoc
  BY TypesAssumption, ZenonT(60) DEF TypeOK, SetColumns, TypeDoc, TypeRequest
<1>3. TypeOK'
  BY <1>0, <1>1, <1>2 DEF TypeOK
<1>4. SoldOnce' /\ NothingHeldElsewhere' /\ FreshCart' /\ NeverOversold'
  BY <1>0, <1>1, StocksKept
<1>5. EverySessionHasStock'
  <2> SUFFICES ASSUME NEW u \in DOMAIN types', NEW w \in wanted'[u]
               PROVE  \E s \in DOMAIN stocks' :
                        /\ stocks'[s].type = u /\ stocks'[s].session = w.session
                        /\ stocks'[s].sale_start = w.sale_start
                        /\ stocks'[s].sale_end = w.sale_end
    BY DEF EverySessionHasStock
  <2>1. CASE u = t
    BY <1>0, <1>1, <2>1 DEF TypeOK
  <2>2. CASE u # t
    <3>1. u \in DOMAIN types /\ w \in wanted[u]
      BY <2>2 DEF TypeOK
    <3> QED
      BY <1>1, <3>1 DEF EverySessionHasStock
  <2> QED
    BY <2>1, <2>2
<1> QED
  BY <1>3, <1>4, <1>5

LEMMA DeleteKeeps ==
  ASSUME IInv, NEW t \in 1 .. MaxTypes, DeleteTicketType(t)
  PROVE  IInv'
<1> USE DEF IInv, DeleteTicketType
<1>1. DOMAIN stocks' = DOMAIN stocks /\ \A s \in DOMAIN stocks : stocks'[s] = stocks[s]
  BY NothingIsDeleted DEF TypeOK
<1>2. DOMAIN types' = DOMAIN types \ {t} /\ \A u \in DOMAIN types' : types'[u] = types[u]
  BY DEF Restrict
<1>3. TypeOK'
  BY <1>1, <1>2 DEF TypeOK
<1>4. SoldOnce' /\ NothingHeldElsewhere' /\ FreshCart' /\ NeverOversold'
  BY <1>1, StocksKept, TypesAssumption DEF TypeOK
<1>5. EverySessionHasStock'
  BY <1>1, <1>2 DEF EverySessionHasStock
<1> QED
  BY <1>3, <1>4, <1>5

LEMMA OrderKeeps ==
  ASSUME IInv, NEW e \in Events, NEW ids \in Orders, UpdateTicketTypesOrder(e, ids)
  PROVE  IInv'
<1> USE DEF IInv, UpdateTicketTypesOrder
<1>0. DOMAIN ids = 1 .. Len(ids) /\ Len(ids) \in Nat
  BY TypesAssumption
<1>1. DOMAIN types' = DOMAIN types
  OBVIOUS
<1>2. \A t \in DOMAIN types : types'[t] \in TypeDoc
  <2> SUFFICES ASSUME NEW t \in DOMAIN types PROVE types'[t] \in TypeDoc
    OBVIOUS
  <2>1. CASE t \in Range(ids)
    <3> DEFINE k == CHOOSE i \in DOMAIN ids : ids[i] = t
    <3>1. k \in DOMAIN ids
      BY <2>1 DEF Range
    <3>2. k - 1 \in Nat
      BY <1>0, <3>1
    <3> QED
      BY <3>2 DEF TypeOK, TypeDoc
  <2>2. CASE t \notin Range(ids)
    BY <2>2 DEF TypeOK
  <2> QED
    BY <2>1, <2>2
<1>3. TypeOK'
  BY <1>1, <1>2 DEF TypeOK
<1>4. SoldOnce' /\ NothingHeldElsewhere' /\ FreshCart' /\ NeverOversold'
  BY DEF SoldOnce, NothingHeldElsewhere, FreshCart, NeverOversold
<1>5. EverySessionHasStock'
  BY <1>1 DEF EverySessionHasStock
<1> QED
  BY <1>3, <1>4, <1>5
-----------------------------------------------------------------------------
(* A stale cart stays stale, and one that keeps its freshness shares no     *)
(* stock with what was written.                                             *)
LEMMA OutdatedCarts ==
  ASSUME TypeOK, NEW written
  PROVE  /\ Outdated(written) \in [Buyers -> Carts \union {NoCart}]
         /\ \A b \in Buyers : Outdated(written)[b] # NoCart /\ ~Outdated(written)[b].stale =>
              /\ cart[b] # NoCart /\ ~cart[b].stale
              /\ Outdated(written)[b].lines = cart[b].lines
              /\ DOMAIN cart[b].lines \intersect written = {}
<1>1. \A b \in Buyers : cart[b] # NoCart => cart[b] \in Carts
  BY DEF TypeOK
<1>2. \A b \in Buyers : Outdated(written)[b] \in Carts \union {NoCart}
  BY <1>1 DEF Outdated, Carts
<1> QED
  BY <1>1, <1>2 DEF Outdated, Carts

LEMMA BeginKeeps ==
  ASSUME IInv, NEW b \in Buyers, NEW lines \in Lines, BeginOrder(b, lines)
  PROVE  IInv'
<1> USE DEF IInv, BeginOrder
<1>1. TypeOK'
  BY DEF TypeOK, Carts
<1>2. \A s \in DOMAIN lines :
        /\ s \in DOMAIN stocks /\ stocks[s].quantity < WordModulus
        /\ lines[s] \in 1 .. stocks[s].quantity
  <2>1. \A s \in DOMAIN lines : lines[s] \in 1 .. MaxLine
    BY DEF Lines
  <2>2. \A s \in DOMAIN lines :
          /\ s \in DOMAIN stocks /\ stocks[s].quantity < WordModulus
          /\ lines[s] <= stocks[s].quantity
    BY DEF ValidateLines, GetValidTicketsByIDs, Decodes
  <2> QED
    BY <2>1, <2>2, TypesAssumption DEF TypeOK, StockDoc
<1>3. \A s \in DOMAIN lines : stocks[s].quantity = stocks[s].initial /\ held[s] = 0
  BY <1>2, TypesAssumption, SMTT(30) DEF SoldOnce, TypeOK, StockDoc
<1>4. FreshCart'
  BY <1>2, <1>3 DEF FreshCart, TypeOK
<1>5. SoldOnce' /\ NothingHeldElsewhere' /\ NeverOversold' /\ EverySessionHasStock'
  BY DEF SoldOnce, NothingHeldElsewhere, NeverOversold, EverySessionHasStock
<1> QED
  BY <1>1, <1>4, <1>5

LEMMA StockNumbers ==
  ASSUME TypeOK, NEW s \in DOMAIN stocks
  PROVE  /\ stocks[s] \in StockDoc /\ s \in 1 .. MaxStocks
         /\ stocks[s].quantity \in Nat /\ stocks[s].initial \in Nat /\ stocks[s].initial >= 1
         /\ WordModulus \in Nat /\ WordModulus > 1
<1>1. stocks[s] \in StockDoc /\ s \in 1 .. MaxStocks
  BY TypesAssumption DEF TypeOK
<1>2. stocks[s].quantity \in Nat /\ stocks[s].initial \in 1 .. WordModulus - 1
  BY <1>1 DEF StockDoc
<1> QED
  BY <1>1, <1>2, TypesAssumption

LEMMA QuantityChanges ==
  ASSUME NEW d \in StockDoc, NEW q \in Nat
  PROVE  LET e == [d EXCEPT !.quantity = q]
         IN  /\ e \in StockDoc /\ e.quantity = q /\ e.initial = d.initial /\ e.type = d.type
             /\ e.session = d.session /\ e.sale_start = d.sale_start /\ e.sale_end = d.sale_end
  BY DEF StockDoc

LEMMA Lift == \A n, w \in Nat : n >= 1 /\ w > 1 => n + n * (w - 1) >= w /\ n * (w - 1) \in Nat
<1> SUFFICES ASSUME NEW n \in Nat, NEW w \in Nat, n >= 1, w > 1
             PROVE  n + n * (w - 1) >= w /\ n * (w - 1) \in Nat
  OBVIOUS
<1>1. n * (w - 1) = (n - 1) * (w - 1) + (w - 1)
  OBVIOUS
<1>2. (n - 1) * (w - 1) \in Nat
  OBVIOUS
<1> QED
  BY <1>1, <1>2

(* The first reservation of a stock is the last that can read it.           *)
LEMMA ReserveKeeps ==
  ASSUME IInv, NEW b \in Buyers, ReserveTickets(b)
  PROVE  IInv'
<1> USE DEF IInv
<1> DEFINE lines == cart[b].lines
<1>1. /\ cart[b] # NoCart /\ ~cart[b].stale /\ DOMAIN lines \subseteq DOMAIN stocks
      /\ DOMAIN stocks' = DOMAIN stocks
      /\ \A s \in DOMAIN stocks : s \notin DOMAIN lines => stocks'[s] = stocks[s]
      /\ \A s \in DOMAIN lines :
           stocks'[s] = [stocks[s] EXCEPT !.quantity = @ + lines[s] * (WordModulus - 1)]
      /\ UNCHANGED <<clock, types, lastType, lastStock, wanted, order>>
  BY DEF ReserveTickets
<1>2. \A s \in DOMAIN lines :
        /\ stocks[s].quantity = stocks[s].initial /\ held[s] = 0
        /\ lines[s] \in 1 .. stocks[s].initial
  BY <1>1 DEF FreshCart
<1>3. \A s \in DOMAIN lines :
        /\ stocks[s].initial + lines[s] * (WordModulus - 1) \in Nat
        /\ stocks[s].initial + lines[s] * (WordModulus - 1) >= WordModulus
  <2> SUFFICES ASSUME NEW s \in DOMAIN lines
               PROVE  /\ stocks[s].initial + lines[s] * (WordModulus - 1) \in Nat
                      /\ stocks[s].initial + lines[s] * (WordModulus - 1) >= WordModulus
    OBVIOUS
  <2>1. stocks[s].initial \in Nat /\ lines[s] \in Nat /\ lines[s] >= 1
        /\ lines[s] <= stocks[s].initial /\ WordModulus \in Nat /\ WordModulus > 1
    BY <1>1, <1>2, StockNumbers
  <2>2. lines[s] * (WordModulus - 1) \in Nat /\ lines[s] + lines[s] * (WordModulus - 1) >= WordModulus
    BY <2>1, Lift
  <2> DEFINE x == lines[s] * (WordModulus - 1)
  <2> HIDE DEF x
  <2> QED
    BY <2>1, <2>2 DEF x
<1>4. \A s \in DOMAIN stocks :
        /\ stocks'[s] \in StockDoc /\ stocks'[s].initial = stocks[s].initial
        /\ stocks'[s].type = stocks[s].type /\ stocks'[s].session = stocks[s].session
        /\ stocks'[s].sale_start = stocks[s].sale_start
        /\ stocks'[s].sale_end = stocks[s].sale_end
        /\ s \in DOMAIN lines => stocks'[s].quantity >= WordModulus
  <2> SUFFICES ASSUME NEW s \in DOMAIN stocks
               PROVE  /\ stocks'[s] \in StockDoc /\ stocks'[s].initial = stocks[s].initial
                      /\ stocks'[s].type = stocks[s].type
                      /\ stocks'[s].session = stocks[s].session
                      /\ stocks'[s].sale_start = stocks[s].sale_start
                      /\ stocks'[s].sale_end = stocks[s].sale_end
                      /\ s \in DOMAIN lines => stocks'[s].quantity >= WordModulus
    OBVIOUS
  <2>1. CASE s \in DOMAIN lines
    <3> DEFINE q == stocks[s].quantity + lines[s] * (WordModulus - 1)
    <3>1. q \in Nat /\ q >= WordModulus /\ stocks'[s] = [stocks[s] EXCEPT !.quantity = q]
      BY <1>1, <1>2, <1>3, <2>1
    <3>2. stocks[s] \in StockDoc
      BY StockNumbers
    <3> HIDE DEF q
    <3> QED
      BY <3>1, <3>2, QuantityChanges
  <2>2. CASE s \notin DOMAIN lines
    BY <1>1, <2>2, StockNumbers
  <2> QED
    BY <2>1, <2>2
<1>5. /\ held' \in [1 .. MaxStocks -> Nat]
      /\ \A s \in 1 .. MaxStocks : s \notin DOMAIN lines => held'[s] = held[s]
      /\ \A s \in DOMAIN lines : held'[s] = lines[s]
  <2>1. DOMAIN lines \subseteq 1 .. MaxStocks
    BY <1>1, TypesAssumption DEF TypeOK
  <2>2. held' = [s \in DOMAIN held |-> held[s] + IF s \in DOMAIN lines THEN lines[s] ELSE 0]
    BY DEF ReserveTickets
  <2>3. \A s \in DOMAIN lines : lines[s] \in Nat
    BY <1>1, <1>2, StockNumbers
  <2>4. held \in [1 .. MaxStocks -> Nat] /\ DOMAIN held' = 1 .. MaxStocks
    BY <2>2 DEF TypeOK
  <2>5. ASSUME NEW s \in 1 .. MaxStocks, s \notin DOMAIN lines
        PROVE  held'[s] = held[s] /\ held'[s] \in Nat
    BY <2>2, <2>4, <2>5
  <2>6. ASSUME NEW s \in DOMAIN lines PROVE held'[s] = lines[s] /\ held'[s] \in Nat
    <3>1. s \in DOMAIN held /\ held[s] = 0 /\ lines[s] \in Nat
      BY <1>2, <2>1, <2>3, <2>4
    <3>2. held'[s] = held[s] + lines[s]
      BY <2>2, <3>1
    <3> HIDE DEF lines
    <3> QED
      BY <3>1, <3>2
  <2>7. held' = [s \in 1 .. MaxStocks |-> held'[s]]
    BY <2>2, <2>4
  <2> HIDE DEF lines
  <2> QED
    BY <2>4, <2>5, <2>6, <2>7
<1>6. cart' = [Outdated(DOMAIN lines) EXCEPT ![b] = NoCart]
  BY DEF ReserveTickets
<1>7. TypeOK'
  <2>1. cart' \in [Buyers -> Carts \union {NoCart}]
    BY <1>6, OutdatedCarts
  <2> QED
    BY <1>1, <1>4, <1>5, <2>1 DEF TypeOK
<1>8. SoldOnce'
  BY <1>1, <1>4, <1>5, TypesAssumption DEF SoldOnce, TypeOK
<1>9. NothingHeldElsewhere'
  BY <1>1, <1>5 DEF NothingHeldElsewhere
<1>10. FreshCart'
  <2> SUFFICES ASSUME NEW c \in Buyers, cart'[c] # NoCart, ~cart'[c].stale,
                      NEW s \in DOMAIN cart'[c].lines
               PROVE  /\ s \in DOMAIN stocks'
                      /\ stocks'[s].quantity = stocks'[s].initial /\ held'[s] = 0
                      /\ cart'[c].lines[s] \in 1 .. stocks'[s].initial
    BY DEF FreshCart
  <2>1. c # b /\ cart'[c] = Outdated(DOMAIN lines)[c]
    BY <1>6, OutdatedCarts
  <2>2. /\ cart[c] # NoCart /\ ~cart[c].stale /\ cart'[c].lines = cart[c].lines
        /\ DOMAIN cart[c].lines \intersect DOMAIN lines = {}
    BY <2>1, OutdatedCarts
  <2>3. /\ s \in DOMAIN stocks /\ s \notin DOMAIN lines /\ s \in 1 .. MaxStocks
        /\ stocks[s].quantity = stocks[s].initial /\ held[s] = 0
        /\ cart[c].lines[s] \in 1 .. stocks[s].initial
    BY <2>2, TypesAssumption DEF FreshCart, TypeOK
  <2> QED
    BY <1>1, <1>5, <2>2, <2>3
<1>11. NeverOversold'
  BY <1>1, <1>2, <1>4, <1>5, TypesAssumption DEF NeverOversold, TypeOK
<1>12. EverySessionHasStock'
  BY <1>1, <1>4 DEF EverySessionHasStock
<1> QED
  BY <1>7, <1>8, <1>9, <1>10, <1>11, <1>12

LEMMA ReleaseKeeps ==
  ASSUME IInv, NEW s \in 1 .. MaxStocks, ReleaseTickets(s)
  PROVE  IInv'
<1> USE DEF IInv
<1>1. /\ s \in DOMAIN stocks /\ stocks[s].quantity >= WordModulus /\ held[s] \in Nat \ {0}
      /\ DOMAIN stocks' = DOMAIN stocks
      /\ stocks'[s] = [stocks[s] EXCEPT !.quantity = @ + 1]
      /\ \A r \in DOMAIN stocks : r # s => stocks'[r] = stocks[r]
      /\ held' = [held EXCEPT ![s] = held[s] - 1]
      /\ cart' = Outdated({s})
      /\ UNCHANGED <<clock, types, lastType, lastStock, wanted, order>>
  BY SMTT(30) DEF ReleaseTickets, TypeOK, SoldOnce, NothingHeldElsewhere
<1>0. /\ stocks'[s] \in StockDoc /\ stocks'[s].quantity = stocks[s].quantity + 1
      /\ stocks'[s].initial = stocks[s].initial /\ stocks'[s].type = stocks[s].type
      /\ stocks'[s].session = stocks[s].session
      /\ stocks'[s].sale_start = stocks[s].sale_start
      /\ stocks'[s].sale_end = stocks[s].sale_end
  <2>1. stocks[s] \in StockDoc /\ stocks[s].quantity + 1 \in Nat
    BY <1>1, StockNumbers
  <2> QED
    BY <1>1, <2>1, QuantityChanges
<1>2. \A r \in DOMAIN stocks :
        /\ stocks'[r] \in StockDoc /\ stocks'[r].initial = stocks[r].initial
        /\ stocks'[r].type = stocks[r].type /\ stocks'[r].session = stocks[r].session
        /\ stocks'[r].sale_start = stocks[r].sale_start
        /\ stocks'[r].sale_end = stocks[r].sale_end
  BY <1>0, <1>1, StockNumbers
<1>3. stocks'[s].quantity >= WordModulus
  BY <1>0, <1>1, StockNumbers
<1>4. TypeOK'
  <2>1. cart' \in [Buyers -> Carts \union {NoCart}]
    BY <1>1, OutdatedCarts
  <2>2. held' \in [1 .. MaxStocks -> Nat]
    BY <1>1 DEF TypeOK
  <2> QED
    BY <1>1, <1>2, <2>1, <2>2 DEF TypeOK
<1>h. held'[s] = held[s] - 1 /\ \A r \in 1 .. MaxStocks : r # s => held'[r] = held[r]
  BY <1>1 DEF TypeOK
<1>5. SoldOnce' /\ NothingHeldElsewhere'
  <2>1. SoldOnce'
    BY <1>1, <1>3, <1>h, StockNumbers DEF SoldOnce
  <2>2. NothingHeldElsewhere'
    BY <1>1, <1>h DEF NothingHeldElsewhere
  <2> QED
    BY <2>1, <2>2
<1>6. FreshCart'
  <2> SUFFICES ASSUME NEW c \in Buyers, cart'[c] # NoCart, ~cart'[c].stale,
                      NEW r \in DOMAIN cart'[c].lines
               PROVE  /\ r \in DOMAIN stocks'
                      /\ stocks'[r].quantity = stocks'[r].initial /\ held'[r] = 0
                      /\ cart'[c].lines[r] \in 1 .. stocks'[r].initial
    BY DEF FreshCart
  <2>1. /\ cart[c] # NoCart /\ ~cart[c].stale /\ cart'[c].lines = cart[c].lines
        /\ DOMAIN cart[c].lines \intersect {s} = {}
    BY <1>1, OutdatedCarts
  <2>2. /\ r \in DOMAIN stocks /\ r # s /\ r \in 1 .. MaxStocks
        /\ stocks[r].quantity = stocks[r].initial /\ held[r] = 0
        /\ cart[c].lines[r] \in 1 .. stocks[r].initial
    BY <2>1, StockNumbers DEF FreshCart
  <2> QED
    BY <1>1, <2>1, <2>2
<1>7. NeverOversold'
  <2> SUFFICES ASSUME NEW r \in DOMAIN stocks PROVE held'[r] <= stocks'[r].initial
    BY <1>1 DEF NeverOversold
  <2>1. /\ held[r] \in Nat /\ held[r] <= stocks[r].initial /\ stocks[r].initial \in Nat
        /\ stocks'[r].initial = stocks[r].initial /\ r \in 1 .. MaxStocks
    BY <1>2, StockNumbers DEF NeverOversold, TypeOK
  <2>2. held'[r] <= held[r]
    BY <1>1, <1>h, <2>1
  <2>3. held'[r] \in Int
    BY <1>1, <1>h, <2>1
  <2> QED
    BY <2>1, <2>2, <2>3
<1>8. EverySessionHasStock'
  BY <1>1, <1>2 DEF EverySessionHasStock
<1> QED
  BY <1>4, <1>5, <1>6, <1>7, <1>8

LEMMA OthersKeep ==
  ASSUME IInv, Tick \/ (UNCHANGED vars) \/ \E b \in Buyers : RefuseOrder(b)
  PROVE  IInv'
<1> USE DEF IInv
<1>1. CASE Tick
  BY <1>1 DEF Tick, TypeOK, SoldOnce, NothingHeldElsewhere, FreshCart, NeverOversold,
              EverySessionHasStock
<1>2. CASE UNCHANGED vars
  BY <1>2 DEF vars, TypeOK, SoldOnce, NothingHeldElsewhere, FreshCart, NeverOversold,
              EverySessionHasStock
<1>3. CASE \E b \in Buyers : RefuseOrder(b)
  BY <1>3 DEF RefuseOrder, TypeOK, SoldOnce, NothingHeldElsewhere, FreshCart,
              NeverOversold, EverySessionHasStock
<1> QED
  BY <1>1, <1>2, <1>3

LEMMA StepHolds == IInv /\ [Next]_vars => IInv'
  BY AddKeeps, UpdateKeeps, DeleteKeeps, OrderKeeps, BeginKeeps, ReserveKeeps, ReleaseKeeps,
     OthersKeep
  DEF Next

(* The inductive invariant of types and stocks.                             *)
THEOREM InvariantHolds == Spec => []IInv
  BY InitHolds, StepHolds, PTL DEF Spec

(* Types, stocks and the carts of buyers keep their types.                  *)
THEOREM TypeCorrect == Spec => []TypeOK
  BY InvariantHolds, PTL DEF IInv

(* Two buyers with the same stock in their carts do not oversell it:        *)
(* validateAndBuildOrderItems and ReserveTickets in any interleaving.       *)
THEOREM NoStockIsOversold == Spec => []NeverOversold
  BY InvariantHolds, PTL DEF IInv

(* A session that was last asked for has its stock: AddTicketType and       *)
(* UpdateTicketType over any history of the type.                           *)
THEOREM EverySessionIsStocked == Spec => []EverySessionHasStock
  BY InvariantHolds, PTL DEF IInv

(* ReleaseTickets finds the stock it gives a ticket back to.                *)
THEOREM ReleaseFindsStock == Spec => []ReservedStockStays
<1>1. IInv => ReservedStockStays
  BY DEF IInv, NothingHeldElsewhere, ReservedStockStays
<1> QED
  BY <1>1, InvariantHolds, PTL

-----------------------------------------------------------------------------
(* What a stock was given is what it holds and what is held of it, but for  *)
(* whole words: every ticket that is reserved adds one.                     *)
Accounted(doc, n) == \E k \in Nat : doc.quantity + n = doc.initial + (k * WordModulus)

Accounts == \A s \in DOMAIN stocks : Accounted(stocks[s], held[s])

LEMMA WholeWordsVanish ==
  \A a \in Int : \A k, w \in Nat : w > 0 /\ a >= 0 /\ a < w => (a + (k * w)) % w = a
  OBVIOUS

(* Taking n tickets one by one adds n words to the sum.                     *)
LEMMA Reserved ==
  ASSUME NEW doc, NEW new, NEW h \in Nat, NEW n \in Nat, WordModulus \in Nat,
         doc.quantity \in Nat, doc.initial \in Nat, Accounted(doc, h),
         new.quantity = doc.quantity + (n * (WordModulus - 1)), new.initial = doc.initial
  PROVE  Accounted(new, h + n)
<1> DEFINE p == doc.quantity
           a == doc.initial
           q == new.quantity
<1>1. PICK k \in Nat : p + h = a + (k * WordModulus)
  BY DEF Accounted
<1>2. p \in Nat /\ a \in Nat /\ new.initial = a /\ q = p + (n * (WordModulus - 1))
  OBVIOUS
<1> HIDE DEF p, a, q
<1>3. /\ n * (WordModulus - 1) = (n * WordModulus) - n
      /\ (k + n) * WordModulus = (k * WordModulus) + (n * WordModulus)
      /\ n * WordModulus \in Nat /\ k * WordModulus \in Nat
  OBVIOUS
<1>4. q + (h + n) = a + ((k + n) * WordModulus)
  BY <1>1, <1>2, <1>3
<1>5. k + n \in Nat
  OBVIOUS
<1> QED
  BY <1>2, <1>4, <1>5 DEF Accounted, q

LEMMA AccountsAddUp == TypeOK /\ Accounts => StockAccounts
<1> SUFFICES ASSUME TypeOK, Accounts, NEW s \in DOMAIN stocks
             PROVE  (stocks[s].quantity + held[s]) % WordModulus = stocks[s].initial % WordModulus
  BY DEF StockAccounts
<1>1. PICK k \in Nat : stocks[s].quantity + held[s] = stocks[s].initial + (k * WordModulus)
  BY DEF Accounts, Accounted
<1> DEFINE a == stocks[s].initial
<1>2. a \in Nat /\ a < WordModulus /\ WordModulus \in Nat /\ WordModulus > 0
  BY TypesAssumption DEF TypeOK, StockDoc
<1> HIDE DEF a
<1>3. (a + (k * WordModulus)) % WordModulus = a
  BY <1>2, WholeWordsVanish
<1>4. a % WordModulus = a
  <2>1. a + (0 * WordModulus) = a
    BY <1>2
  <2> QED
    BY <1>2, <2>1, WholeWordsVanish
<1> QED
  BY <1>1, <1>3, <1>4 DEF a

LEMMA UntouchedAccounts ==
  ASSUME Accounts, DOMAIN stocks' = DOMAIN stocks, held' = held,
         \A s \in DOMAIN stocks : stocks'[s] = stocks[s]
  PROVE  Accounts'
BY DEF Accounts

LEMMA NewAccounts ==
  ASSUME IInv, Accounts, DOMAIN stocks' \subseteq 1 .. MaxStocks, held' = held,
         \A s \in DOMAIN stocks : stocks'[s] = stocks[s],
         \A s \in DOMAIN stocks' \ DOMAIN stocks :
           stocks'[s] \in StockDoc /\ stocks'[s].quantity = stocks'[s].initial
  PROVE  Accounts'
<1> SUFFICES ASSUME NEW s \in DOMAIN stocks' PROVE Accounted(stocks'[s], held'[s])
  BY DEF Accounts
<1>1. CASE s \in DOMAIN stocks
  BY <1>1 DEF Accounts
<1>2. CASE s \notin DOMAIN stocks
  <2>1. held'[s] = 0 /\ stocks'[s].quantity = stocks'[s].initial /\ stocks'[s].initial \in Nat
    BY <1>2 DEF IInv, NothingHeldElsewhere, StockDoc
  <2>2. 0 * WordModulus = 0 /\ 0 \in Nat
    BY TypesAssumption
  <2> QED
    BY <2>1, <2>2 DEF Accounted
<1> QED
  BY <1>1, <1>2

LEMMA ReserveAccounts ==
  ASSUME IInv, Accounts, NEW b \in Buyers, ReserveTickets(b)
  PROVE  Accounts'
<1> DEFINE lines == cart[b].lines
<1> SUFFICES ASSUME NEW s \in DOMAIN stocks PROVE Accounted(stocks'[s], held'[s])
  BY DEF Accounts, ReserveTickets
<1>1. /\ stocks[s] \in StockDoc /\ s \in 1 .. MaxStocks
      /\ stocks[s].quantity \in Nat /\ stocks[s].initial \in Nat
      /\ WordModulus \in Nat /\ held[s] \in Nat /\ DOMAIN held = 1 .. MaxStocks
  BY StockNumbers DEF IInv, TypeOK
<1>2. PICK k \in Nat : stocks[s].quantity + held[s] = stocks[s].initial + (k * WordModulus)
  BY DEF Accounts, Accounted
<1>3. CASE s \in DOMAIN lines
  <2> DEFINE n == lines[s]
             q == stocks[s].quantity + (n * (WordModulus - 1))
  <2>1. n \in Nat
    BY <1>1, <1>3 DEF IInv, FreshCart, ReserveTickets
  <2>2. stocks'[s] = [stocks[s] EXCEPT !.quantity = q] /\ held'[s] = held[s] + n
    BY <1>1, <1>3 DEF ReserveTickets
  <2>3. stocks'[s].quantity = q /\ stocks'[s].initial = stocks[s].initial
    BY <1>1, <2>2 DEF StockDoc
  <2>4. Accounted(stocks[s], held[s])
    BY DEF Accounts
  <2> HIDE DEF n
  <2>5. Accounted(stocks'[s], held[s] + n)
    BY <1>1, <2>1, <2>3, <2>4, Reserved
  <2> QED
    BY <2>2, <2>5
<1>4. CASE s \notin DOMAIN lines
  <2>1. stocks'[s] = stocks[s] /\ held'[s] = held[s]
    BY <1>1, <1>4 DEF ReserveTickets
  <2>2. Accounted(stocks[s], held[s])
    BY DEF Accounts
  <2> QED
    BY ONLY <2>1, <2>2
<1> QED
  BY <1>3, <1>4

LEMMA ReleaseAccounts ==
  ASSUME IInv, Accounts, NEW s \in 1 .. MaxStocks, ReleaseTickets(s)
  PROVE  Accounts'
<1> SUFFICES ASSUME NEW r \in DOMAIN stocks PROVE Accounted(stocks'[r], held'[r])
  BY DEF Accounts, ReleaseTickets
<1>1. /\ stocks[r] \in StockDoc /\ r \in 1 .. MaxStocks /\ WordModulus \in Nat
      /\ stocks[r].quantity \in Nat /\ stocks[r].initial \in Nat
      /\ held \in [1 .. MaxStocks -> Nat]
  BY StockNumbers DEF IInv, TypeOK
<1>2. CASE r = s
  <2>1. stocks'[r] = [stocks[r] EXCEPT !.quantity = @ + 1] /\ held'[r] = held[r] - 1
    BY <1>1, <1>2 DEF ReleaseTickets
  <2>2. stocks'[r].quantity = stocks[r].quantity + 1 /\ stocks'[r].initial = stocks[r].initial
    BY <1>1, <2>1 DEF StockDoc
  <2>3. stocks'[r].quantity + held'[r] = stocks[r].quantity + held[r]
    BY <1>1, <2>1, <2>2
  <2> QED
    BY <2>2, <2>3 DEF Accounts, Accounted
<1>3. CASE r # s
  BY <1>1, <1>3 DEF ReleaseTickets, Accounts
<1> QED
  BY <1>2, <1>3

LEMMA AddAccounts ==
  ASSUME IInv, Accounts, NEW e \in Events, NEW req \in TypeRequests, AddTicketType(e, req)
  PROVE  Accounts'
<1>1. lastType + 1 \in 1 .. MaxTypes /\ TypeOK
  BY TypesAssumption DEF IInv, TypeOK, AddTicketType
<1>2. /\ \A s \in DOMAIN stocks : stocks'[s] = stocks[s]
      /\ DOMAIN stocks' \subseteq 1 .. lastStock' /\ lastStock' \in 0 .. MaxStocks
      /\ \A s \in DOMAIN stocks' : stocks'[s] \in StockDoc
      /\ \A s \in DOMAIN stocks' \ DOMAIN stocks : stocks'[s].quantity = stocks'[s].initial
  BY <1>1, StocksAreAdded DEF AddTicketType
<1>3. DOMAIN stocks' \subseteq 1 .. MaxStocks /\ held' = held
  BY <1>2, TypesAssumption DEF AddTicketType
<1> QED
  BY <1>2, <1>3, NewAccounts

LEMMA UpdateAccounts ==
  ASSUME IInv, Accounts, NEW t \in 1 .. MaxTypes, NEW req \in TypeRequests,
         UpdateTicketType(t, req)
  PROVE  Accounts'
<1> DEFINE f == DeleteTicketStockByType(stocks, t)
<1>1. DOMAIN f = DOMAIN stocks /\ \A s \in DOMAIN stocks : f[s] = stocks[s]
  BY NothingIsDeleted DEF IInv, TypeOK
<1>2. stocks' = AddTicketStocks(f, t, req)
  BY DEF UpdateTicketType
<1> HIDE DEF f
<1>3. /\ \A s \in DOMAIN stocks : stocks'[s] = stocks[s]
      /\ DOMAIN stocks' \subseteq 1 .. lastStock' /\ lastStock' \in 0 .. MaxStocks
      /\ \A s \in DOMAIN stocks' : stocks'[s] \in StockDoc
      /\ \A s \in DOMAIN stocks' \ DOMAIN stocks : stocks'[s].quantity = stocks'[s].initial
  BY <1>1, <1>2, StocksAreAdded DEF UpdateTicketType, IInv
<1>4. DOMAIN stocks' \subseteq 1 .. MaxStocks /\ held' = held
  BY <1>3, TypesAssumption DEF UpdateTicketType
<1> QED
  BY <1>3, <1>4, NewAccounts

LEMMA DeleteAccounts ==
  ASSUME IInv, Accounts, NEW t \in 1 .. MaxTypes, DeleteTicketType(t)
  PROVE  Accounts'
<1>1. DOMAIN stocks' = DOMAIN stocks /\ \A s \in DOMAIN stocks : stocks'[s] = stocks[s]
  BY NothingIsDeleted DEF IInv, TypeOK, DeleteTicketType
<1> QED
  BY <1>1, UntouchedAccounts DEF DeleteTicketType

LEMMA AccountsStep == IInv /\ Accounts /\ [Next]_vars => Accounts'
<1> SUFFICES ASSUME IInv, Accounts, [Next]_vars PROVE Accounts'
  OBVIOUS
<1>1. ASSUME \/ UNCHANGED vars \/ Tick
             \/ \E e \in Events, ids \in Orders : UpdateTicketTypesOrder(e, ids)
             \/ \E b \in Buyers : RefuseOrder(b) \/ \E lines \in Lines : BeginOrder(b, lines)
      PROVE  Accounts'
  <2>1. stocks' = stocks /\ held' = held
    BY <1>1 DEF vars, Tick, UpdateTicketTypesOrder, RefuseOrder, BeginOrder
  <2> QED
    BY <2>1, UntouchedAccounts
<1> QED
  BY <1>1, AddAccounts, UpdateAccounts, DeleteAccounts, ReserveAccounts, ReleaseAccounts DEF Next

(* Reserving and releasing lose no ticket and make none, up to the width of *)
(* the quantity: ReserveTickets, which adds the uint32 -1, and              *)
(* ReleaseTickets, in any order and with the types changed in between.      *)
THEOREM StocksAlwaysAccount == Spec => []StockAccounts
<1>1. Init => Accounts
  BY DEF Init, Accounts
<1>2. IInv /\ Accounts => StockAccounts
  BY AccountsAddUp DEF IInv
<1> QED
  BY <1>1, <1>2, AccountsStep, InvariantHolds, PTL DEF Spec

-----------------------------------------------------------------------------
(* The order last asked for is among types there have been, so that a type  *)
(* that is added stands in no order.                                        *)
OrderAmongTypes ==
  order \in [Events -> SUBSET ((1 .. lastType) \X (1 .. lastType))]

OrderInv == OrderAmongTypes /\ OrderOfTypesStays

(* A step that keeps the event and the place of every type it keeps, and    *)
(* asks for no new order.                                                   *)
LEMMA PlacesKept ==
  ASSUME TypeOK, OrderInv, lastType' \in Nat, lastType <= lastType',
         order' \in [Events -> SUBSET ((1 .. lastType) \X (1 .. lastType))],
         \A e \in Events : order'[e] \subseteq order[e],
         \A t \in 1 .. lastType : t \in DOMAIN types' =>
           /\ t \in DOMAIN types
           /\ types'[t].event = types[t].event /\ types'[t].pick = types[t].pick
  PROVE  OrderInv'
<1>1. OrderAmongTypes'
  <2>1. 1 .. lastType \subseteq 1 .. lastType'
    BY DEF TypeOK
  <2> QED
    BY <2>1 DEF OrderAmongTypes
<1>2. OrderOfTypesStays'
  <2> SUFFICES ASSUME NEW e \in Events, NEW p \in order'[e],
                      p[1] \in DOMAIN types', p[2] \in DOMAIN types',
                      types'[p[1]].event = e, types'[p[2]].event = e
               PROVE  types'[p[1]].pick < types'[p[2]].pick
    BY DEF OrderOfTypesStays
  <2>1. p \in order[e] /\ p[1] \in 1 .. lastType /\ p[2] \in 1 .. lastType
    BY DEF OrderInv, OrderAmongTypes
  <2> QED
    BY <2>1 DEF OrderInv, OrderOfTypesStays
<1> QED
  BY <1>1, <1>2 DEF OrderInv

LEMMA AddOrders ==
  ASSUME TypeOK, OrderInv, NEW e \in Events, NEW req \in TypeRequests, AddTicketType(e, req)
  PROVE  OrderInv'
<1>1. lastType \in Nat /\ lastType' = lastType + 1 /\ order' = order
  BY DEF TypeOK, AddTicketType
<1>2. \A t \in 1 .. lastType : t \in DOMAIN types' => t \in DOMAIN types /\ types'[t] = types[t]
  BY <1>1 DEF AddTicketType
<1> QED
  BY <1>1, <1>2, PlacesKept DEF OrderInv, OrderAmongTypes

LEMMA UpdateOrders ==
  ASSUME TypeOK, OrderInv, NEW t \in 1 .. MaxTypes, NEW req \in TypeRequests,
         UpdateTicketType(t, req)
  PROVE  OrderInv'
<1>1. lastType \in Nat /\ lastType' = lastType /\ order' = order
  BY DEF TypeOK, UpdateTicketType
<1>2. \A u \in DOMAIN types' :
        /\ u \in DOMAIN types
        /\ types'[u].event = types[u].event /\ types'[u].pick = types[u].pick
  <2> SUFFICES ASSUME NEW u \in DOMAIN types
               PROVE  types'[u].event = types[u].event /\ types'[u].pick = types[u].pick
    BY DEF UpdateTicketType
  <2>1. types[u] \in TypeDoc
    BY DEF TypeOK
  <2>2. types'[u] = IF u = t THEN SetColumns(types[u], req) ELSE types[u]
    BY DEF UpdateTicketType
  <2> QED
    BY <2>1, <2>2 DEF SetColumns, TypeDoc
<1> QED
  BY <1>1, <1>2, PlacesKept DEF OrderInv, OrderAmongTypes

LEMMA DeleteOrders ==
  ASSUME TypeOK, OrderInv, NEW t \in 1 .. MaxTypes, DeleteTicketType(t)
  PROVE  OrderInv'
<1>1. lastType \in Nat /\ lastType' = lastType
  BY DEF TypeOK, DeleteTicketType
<1>2. /\ order' \in [Events -> SUBSET ((1 .. lastType) \X (1 .. lastType))]
      /\ \A e \in Events : order'[e] \subseteq order[e]
  BY DEF OrderInv, OrderAmongTypes, DeleteTicketType
<1>3. \A u \in DOMAIN types' : u \in DOMAIN types /\ types'[u] = types[u]
  BY DEF DeleteTicketType, Restrict
<1> QED
  BY <1>1, <1>2, <1>3, PlacesKept

(* The place of a type is where the request has put it, no type twice.      *)
LEMMA OrderOrders ==
  ASSUME TypeOK, OrderInv, NEW e \in Events, NEW ids \in Orders, UpdateTicketTypesOrder(e, ids)
  PROVE  OrderInv'
<1>1. /\ DOMAIN ids = 1 .. Len(ids) /\ Len(ids) \in Nat /\ lastType' = lastType
      /\ DOMAIN types' = DOMAIN types /\ DOMAIN types \subseteq 1 .. lastType
  BY TypesAssumption DEF UpdateTicketTypesOrder, TypeOK
<1>2. \A i, j \in DOMAIN ids : ids[i] = ids[j] => i = j
  BY TypesAssumption DEF IsInjective
<1>3. order' = [order EXCEPT ![e] = PutBefore(ids)]
  BY DEF UpdateTicketTypesOrder
<1>4. OrderAmongTypes'
  <2>1. PutBefore(ids) \in SUBSET ((1 .. lastType) \X (1 .. lastType))
    BY <1>1 DEF PutBefore
  <2> QED
    BY <1>1, <1>3, <2>1 DEF OrderInv, OrderAmongTypes
<1>5. ASSUME NEW i \in DOMAIN ids, ids[i] \in DOMAIN types, types[ids[i]].event = e
      PROVE  types'[ids[i]].pick = i - 1
  <2>1. ids[i] \in Range(ids)
    BY DEF Range
  <2>2. (CHOOSE j \in DOMAIN ids : ids[j] = ids[i]) = i
    BY <1>2
  <2>3. types'[ids[i]] = [types[ids[i]] EXCEPT !.pick = i - 1]
    BY <1>5, <2>1, <2>2 DEF UpdateTicketTypesOrder
  <2> QED
    BY <1>5, <2>3 DEF TypeOK, TypeDoc
<1>6. \A t \in DOMAIN types :
        /\ types'[t].event = types[t].event
        /\ types[t].event # e => types'[t].pick = types[t].pick
  <2> SUFFICES ASSUME NEW t \in DOMAIN types
               PROVE  /\ types'[t].event = types[t].event
                      /\ types[t].event # e => types'[t].pick = types[t].pick
    OBVIOUS
  <2> DEFINE n == (CHOOSE i \in DOMAIN ids : ids[i] = t) - 1
  <2>1. types'[t] = IF types[t].event = e /\ t \in Range(ids)
                    THEN [types[t] EXCEPT !.pick = n] ELSE types[t]
    BY DEF UpdateTicketTypesOrder
  <2>2. types[t] \in TypeDoc
    BY DEF TypeOK
  <2> HIDE DEF n
  <2> QED
    BY <2>1, <2>2 DEF TypeDoc
<1>7. OrderOfTypesStays'
  <2> SUFFICES ASSUME NEW g \in Events, NEW p \in order'[g],
                      p[1] \in DOMAIN types', p[2] \in DOMAIN types',
                      types'[p[1]].event = g, types'[p[2]].event = g
               PROVE  types'[p[1]].pick < types'[p[2]].pick
    BY DEF OrderOfTypesStays
  <2>1. types[p[1]].event = g /\ types[p[2]].event = g
    BY <1>1, <1>6
  <2>2. CASE g = e
    <3>1. p \in PutBefore(ids)
      BY <1>3, <2>2 DEF OrderInv, OrderAmongTypes
    <3>2. PICK i, j \in DOMAIN ids : i < j /\ p = <<ids[i], ids[j]>>
      BY <3>1 DEF PutBefore
    <3>3. types'[p[1]].pick = i - 1 /\ types'[p[2]].pick = j - 1
      BY <1>1, <1>5, <2>1, <2>2, <3>2
    <3> QED
      BY <1>1, <3>2, <3>3
  <2>3. CASE g # e
    <3>1. p \in order[g]
      BY <1>3, <2>3 DEF OrderInv, OrderAmongTypes
    <3>2. types'[p[1]].pick = types[p[1]].pick /\ types'[p[2]].pick = types[p[2]].pick
      BY <1>1, <1>6, <2>1, <2>3
    <3> QED
      BY <1>1, <2>1, <3>1, <3>2 DEF OrderInv, OrderOfTypesStays
  <2> QED
    BY <2>2, <2>3
<1> QED
  BY <1>4, <1>7 DEF OrderInv

LEMMA OrderStep == TypeOK /\ OrderInv /\ [Next]_vars => OrderInv'
<1> SUFFICES ASSUME TypeOK, OrderInv, [Next]_vars PROVE OrderInv'
  OBVIOUS
<1>1. ASSUME \/ UNCHANGED vars \/ Tick
             \/ \E b \in Buyers :
                  \/ ReserveTickets(b) \/ RefuseOrder(b)
                  \/ \E lines \in Lines : BeginOrder(b, lines)
             \/ \E s \in 1 .. MaxStocks : ReleaseTickets(s)
      PROVE  OrderInv'
  <2>1. types' = types /\ order' = order /\ lastType' = lastType
    BY <1>1 DEF vars, Tick, ReserveTickets, RefuseOrder, BeginOrder, ReleaseTickets
  <2> QED
    BY <2>1 DEF OrderInv, OrderAmongTypes, OrderOfTypesStays
<1> QED
  BY <1>1, AddOrders, UpdateOrders, DeleteOrders, OrderOrders DEF Next

(* The console's order of an event's types outlives every later update,     *)
(* addition and deletion of types: UpdateTicketTypesOrder writes the places *)
(* that SetColumns does not touch.                                          *)
THEOREM TypesStayInOrder == Spec => []OrderOfTypesStays
<1>1. Init => OrderInv
  BY DEF Init, OrderInv, OrderAmongTypes, OrderOfTypesStays
<1>2. OrderInv => OrderOfTypesStays
  BY DEF OrderInv
<1> QED
  BY <1>1, <1>2, OrderStep, TypeCorrect, PTL DEF Spec
=============================================================================
