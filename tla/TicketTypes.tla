----------------------------- MODULE TicketTypes -----------------------------
(***************************************************************************)
(* Ticket types of an event and their stocks, one per session: the console *)
(* adds, updates, orders and deletes types while buyers take tickets from   *)
(* the stocks and give them back.                                           *)
(*                                                                         *)
(* The console's handlers are single transactions. An order reads stocks    *)
(* and types first and writes the stocks later: these are two steps, and    *)
(* the write conflicts with any other to the same stock in between.         *)
(***************************************************************************)
EXTENDS Integers, Sequences, Functions

CONSTANTS
  Events, Sessions,
  Texts,           \* session ids as requests spell them
  SessionOf,       \* what a spelling is converted to, or NoSession
  TypeRequests,    \* bodies of requests to add or update a type
  Orders,          \* sequences of types the console may ask for
  Buyers,
  WordModulus,     \* 2^32 for the quantities of the code
  MaxTypes, MaxStocks, MaxLine, Horizon,   \* bounds of a run
  NoSession, NoCart

Null == -1         \* an optional time that is not set
Epoch == 0         \* what a missing timestamp converts to

(* The body of a request; price, name and description are left out.         *)
SessionRequest == [session : Texts, sale_start : Nat \union {Null}, sale_end : Nat \union {Null}]

TypeRequest == [sessions : Seq(SessionRequest), quantity : 1 .. WordModulus - 1,
                visible : BOOLEAN, start_show : Nat \union {Null},
                stop_show : Nat \union {Null}, pick : Nat, min : Nat, max : Nat]

(* What may be bought at once, and what a transaction keeps of it: whether  *)
(* one of the stocks was written since.                                     *)
Lines == UNION {[S -> 1 .. MaxLine] : S \in {S \in SUBSET (1 .. MaxStocks) : S # {}}}

Carts == [lines : Lines, stale : BOOLEAN]

ASSUME TypesAssumption ==
  /\ SessionOf \in [Texts -> Sessions \union {NoSession}]
  /\ WordModulus \in Nat /\ WordModulus > 1
  /\ MaxTypes \in Nat /\ MaxStocks \in Nat /\ MaxLine \in Nat /\ Horizon \in Nat
  /\ TypeRequests \subseteq TypeRequest
  /\ Orders \subseteq Seq(Nat)
  /\ \A ids \in Orders : IsInjective(ids)   \* no type twice: the bulk is unordered
  /\ NoCart \notin Carts

VARIABLES
  clock,
  types,      \* the documents of ticket_types, by id
  stocks,     \* the documents of ticket_stock, by id
  lastType, lastStock,   \* the ids given out
  cart,       \* what a buyer's transaction has read and not yet written
  held,       \* tickets of a stock that orders hold
  wanted,     \* the sessions last requested for a type
  order       \* the pairs of an event's types that the order last asked for puts so

vars == <<clock, types, stocks, lastType, lastStock, cart, held, wanted, order>>

TypeDoc == [event : Events, quantity : 1 .. WordModulus - 1, visible : BOOLEAN,
            always_display : BOOLEAN, start_show : Nat \union {Null},
            stop_show : Nat \union {Null}, pick : Nat, min : Nat, max : Nat]

(* quantity is what the database holds, which may not fit the uint32 that   *)
(* it is decoded into; initial is only kept for the properties.             *)
StockDoc == [session : Sessions, type : 1 .. MaxTypes, sale_start : Nat,
             sale_end : Nat, quantity : Nat, initial : 1 .. WordModulus - 1]

TypeOK ==
  /\ clock \in Nat
  /\ lastType \in 0 .. MaxTypes /\ lastStock \in 0 .. MaxStocks
  /\ DOMAIN types \subseteq 1 .. lastType
  /\ \A t \in DOMAIN types : types[t] \in TypeDoc
  /\ DOMAIN stocks \subseteq 1 .. lastStock
  /\ \A s \in DOMAIN stocks : stocks[s] \in StockDoc
  /\ held \in [1 .. MaxStocks -> Nat]
  /\ DOMAIN wanted = 1 .. MaxTypes
  /\ cart \in [Buyers -> Carts \union {NoCart}]

Init ==
  /\ clock = 1
  /\ types = <<>> /\ stocks = <<>>
  /\ lastType = 0 /\ lastStock = 0
  /\ cart = [b \in Buyers |-> NoCart]
  /\ held = [s \in 1 .. MaxStocks |-> 0]
  /\ wanted = [t \in 1 .. MaxTypes |-> {}]
  /\ order = [e \in Events |-> {}]

-----------------------------------------------------------------------------
(* Mutant: a missing timestamp stays missing. *)
Mutant_AsTime(timestamp) == timestamp

AsTime(timestamp) == IF timestamp = Null THEN Epoch ELSE timestamp

(* A request names sessions that convert to ids, no spelling twice; another *)
(* is refused before anything is written.                                   *)
ConvertSessions(req) ==
  [i \in DOMAIN req.sessions |->
     [session |-> SessionOf[req.sessions[i].session],
      sale_start |-> AsTime(req.sessions[i].sale_start),
      sale_end |-> AsTime(req.sessions[i].sale_end)]]

AcceptedRequest(req) ==
  /\ \A i \in DOMAIN req.sessions : SessionOf[req.sessions[i].session] # NoSession
  /\ \A i, j \in DOMAIN req.sessions :
       i # j => req.sessions[i].session # req.sessions[j].session

(* A type is always on display if it is made visible without a window.      *)
AlwaysDisplay(req) == req.visible /\ req.start_show = Null /\ req.stop_show = Null

NewTicketType(e, req) ==
  [event |-> e, quantity |-> req.quantity, visible |-> req.visible,
   always_display |-> AlwaysDisplay(req), start_show |-> req.start_show,
   stop_show |-> req.stop_show, pick |-> req.pick, min |-> req.min, max |-> req.max]

(* One stock for every session, with all of the type's tickets.             *)
AddTicketStocks(f, t, req) ==
  LET sessions == ConvertSessions(req)
  IN  [s \in DOMAIN f \union (lastStock + 1 .. lastStock + Len(sessions)) |->
         IF s \in DOMAIN f THEN f[s]
         ELSE [session |-> sessions[s - lastStock].session, type |-> t,
               sale_start |-> sessions[s - lastStock].sale_start,
               sale_end |-> sessions[s - lastStock].sale_end,
               quantity |-> req.quantity, initial |-> req.quantity]]

(* Mutant: the stocks of a type are found by their type. *)
Mutant_DeleteTicketStockByType(f, t) ==
  Restrict(f, {s \in DOMAIN f : f[s].type # t})

(* The filter asks for a field "config" that no stock has.                  *)
DeleteTicketStockByType(f, t) ==
  Restrict(f, {s \in DOMAIN f : ~("config" \in DOMAIN f[s] /\ f[s]["config"] = t)})

AddTicketType(e, req) ==
  LET t == lastType + 1
  IN  /\ AcceptedRequest(req)
      /\ t <= MaxTypes /\ lastStock + Len(req.sessions) <= MaxStocks
      /\ types' = [u \in DOMAIN types \union {t} |->
                     IF u = t THEN NewTicketType(e, req) ELSE types[u]]
      /\ stocks' = AddTicketStocks(stocks, t, req)
      /\ lastType' = t
      /\ lastStock' = lastStock + Len(req.sessions)
      /\ wanted' = [wanted EXCEPT ![t] = Range(ConvertSessions(req))]
      /\ UNCHANGED <<clock, cart, held, order>>

(* Mutant: the whole document is replaced. *)
Mutant_SetColumns(doc, req) == NewTicketType(doc.event, [req EXCEPT !.pick = 0])

(* The columns an update sets: neither the quantity nor always_display.     *)
SetColumns(doc, req) ==
  [doc EXCEPT !.visible = req.visible, !.start_show = req.start_show,
              !.stop_show = req.stop_show, !.min = req.min, !.max = req.max]

(* Mutant: a session that has a stock keeps it. *)
Mutant_UpdateTicketType(t, req) ==
  LET known == {stocks[s].session : s \in {s \in DOMAIN stocks : stocks[s].type = t}}
      Added(session) == SessionOf[session.session] \notin known
      added == [req EXCEPT !.sessions = SelectSeq(req.sessions, Added)]
  IN  /\ AcceptedRequest(req)
      /\ t \in DOMAIN types
      /\ lastStock + Len(req.sessions) <= MaxStocks
      /\ types' = [types EXCEPT ![t] = SetColumns(types[t], req)]
      /\ stocks' = AddTicketStocks(stocks, t, added)
      /\ lastStock' = lastStock + Len(added.sessions)
      /\ wanted' = [wanted EXCEPT ![t] = Range(ConvertSessions(req))]
      /\ UNCHANGED <<clock, lastType, cart, held, order>>

UpdateTicketType(t, req) ==
  /\ AcceptedRequest(req)
  /\ t \in DOMAIN types
  /\ lastStock + Len(req.sessions) <= MaxStocks
  /\ types' = [types EXCEPT ![t] = SetColumns(types[t], req)]
  /\ stocks' = AddTicketStocks(DeleteTicketStockByType(stocks, t), t, req)
  /\ lastStock' = lastStock + Len(req.sessions)
  /\ wanted' = [wanted EXCEPT ![t] = Range(ConvertSessions(req))]
  /\ UNCHANGED <<clock, lastType, cart, held, order>>

DeleteTicketType(t) ==
  /\ t \in DOMAIN types
  /\ types' = Restrict(types, DOMAIN types \ {t})
  /\ stocks' = DeleteTicketStockByType(stocks, t)
  /\ wanted' = [wanted EXCEPT ![t] = {}]
  /\ order' = [e \in Events |-> {p \in order[e] : t \notin {p[1], p[2]}}]
  /\ UNCHANGED <<clock, lastType, lastStock, cart, held>>

(* The types that ids puts one before the other.                            *)
PutBefore(ids) ==
  {p \in (DOMAIN types) \X (DOMAIN types) :
     \E i, j \in DOMAIN ids : i < j /\ p = <<ids[i], ids[j]>>}

(* Types of another event or unknown ones are passed over, and so is every  *)
(* type the request leaves out.                                             *)
UpdateTicketTypesOrder(e, ids) ==
  /\ types' = [t \in DOMAIN types |->
                 IF types[t].event = e /\ t \in Range(ids)
                 THEN [types[t] EXCEPT !.pick = (CHOOSE i \in DOMAIN ids : ids[i] = t) - 1]
                 ELSE types[t]]
  /\ order' = [order EXCEPT ![e] = PutBefore(ids)]
  /\ UNCHANGED <<clock, stocks, lastType, lastStock, cart, held, wanted>>

-----------------------------------------------------------------------------
(* A missing bound of the window compares with nothing.                     *)
InWindow(start, stop) == start # Null /\ stop # Null /\ clock \in start .. stop

IsShowing(t) ==
  types[t].always_display \/ (types[t].visible /\ InWindow(types[t].start_show, types[t].stop_show))

(* The stocks the public listing of a session shows, all of which have to   *)
(* be decoded.                                                              *)
Listed(session) ==
  {s \in DOMAIN stocks :
     stocks[s].session = session /\ stocks[s].type \in DOMAIN types /\ IsShowing(stocks[s].type)}

Decodes(s) == stocks[s].quantity < WordModulus

(* The stocks of a cart that are on sale, joined with their types.          *)
GetValidTicketsByIDs(ids) ==
  {s \in ids \intersect DOMAIN stocks :
     clock \in stocks[s].sale_start .. stocks[s].sale_end /\ stocks[s].type \in DOMAIN types}

ValidateLines(lines) ==
  LET valid == GetValidTicketsByIDs(DOMAIN lines)
  IN  /\ valid = DOMAIN lines
      /\ \A s \in valid : Decodes(s)
      /\ \A s, r \in valid :
           /\ types[stocks[s].type].event = types[stocks[r].type].event
           /\ stocks[s].session = stocks[r].session
      /\ \A s \in valid :
           /\ lines[s] <= stocks[s].quantity
           /\ lines[s] \in types[stocks[s].type].min .. types[stocks[s].type].max

BeginOrder(b, lines) ==
  /\ cart[b] = NoCart
  /\ ValidateLines(lines)
  /\ cart' = [cart EXCEPT ![b] = [lines |-> lines, stale |-> FALSE]]
  /\ UNCHANGED <<clock, types, stocks, lastType, lastStock, held, wanted, order>>

(* Whoever has read a stock before it was written is behind.                *)
Outdated(written) ==
  [b \in Buyers |->
     IF cart[b] # NoCart /\ DOMAIN cart[b].lines \intersect written # {}
     THEN [cart[b] EXCEPT !.stale = TRUE] ELSE cart[b]]

(* Mutant: a conflicting write is repeated on the stock as it is now. *)
Mutant_ReserveTickets(b) ==
  LET lines == cart[b].lines
  IN  /\ cart[b] # NoCart
      /\ DOMAIN lines \subseteq DOMAIN stocks
      /\ stocks' = [s \in DOMAIN stocks |->
                      IF s \in DOMAIN lines
                      THEN [stocks[s] EXCEPT !.quantity = @ + lines[s] * (WordModulus - 1)]
                      ELSE stocks[s]]
      /\ held' = [s \in DOMAIN held |-> held[s] + IF s \in DOMAIN lines THEN lines[s] ELSE 0]
      /\ cart' = [Outdated(DOMAIN lines) EXCEPT ![b] = NoCart]
      /\ UNCHANGED <<clock, types, lastType, lastStock, wanted, order>>

(* One update for every ticket, each of which adds the uint32 -1.           *)
ReserveTickets(b) ==
  LET lines == cart[b].lines
  IN  /\ cart[b] # NoCart /\ ~cart[b].stale
      /\ DOMAIN lines \subseteq DOMAIN stocks
      /\ stocks' = [s \in DOMAIN stocks |->
                      IF s \in DOMAIN lines
                      THEN [stocks[s] EXCEPT !.quantity = @ + lines[s] * (WordModulus - 1)]
                      ELSE stocks[s]]
      /\ held' = [s \in DOMAIN held |-> held[s] + IF s \in DOMAIN lines THEN lines[s] ELSE 0]
      /\ cart' = [Outdated(DOMAIN lines) EXCEPT ![b] = NoCart]
      /\ UNCHANGED <<clock, types, lastType, lastStock, wanted, order>>

(* A conflict is an insufficient stock to ReserveTickets, and the order is  *)
(* refused; so it may be for any other reason.                              *)
RefuseOrder(b) ==
  /\ cart[b] # NoCart
  /\ cart' = [cart EXCEPT ![b] = NoCart]
  /\ UNCHANGED <<clock, types, stocks, lastType, lastStock, held, wanted, order>>

(* Mutant: a release starts from the quantity of the type. *)
Mutant_ReleaseTickets(s) ==
  /\ held[s] > 0
  /\ held' = [held EXCEPT ![s] = @ - 1]
  /\ stocks' = [r \in DOMAIN stocks |->
                  IF r = s THEN [stocks[r] EXCEPT !.quantity = stocks[r].initial] ELSE stocks[r]]
  /\ cart' = Outdated({s})
  /\ UNCHANGED <<clock, types, lastType, lastStock, wanted, order>>

(* One item of a release: a stock that is gone is passed over in silence.   *)
ReleaseTickets(s) ==
  /\ held[s] > 0
  /\ held' = [held EXCEPT ![s] = @ - 1]
  /\ stocks' = [r \in DOMAIN stocks |->
                  IF r = s THEN [stocks[r] EXCEPT !.quantity = @ + 1] ELSE stocks[r]]
  /\ cart' = Outdated({s})
  /\ UNCHANGED <<clock, types, lastType, lastStock, wanted, order>>

Tick ==
  /\ clock < Horizon
  /\ clock' = clock + 1
  /\ UNCHANGED <<types, stocks, lastType, lastStock, cart, held, wanted, order>>

-----------------------------------------------------------------------------

Next ==
  \/ \E req \in TypeRequests :
       \/ \E e \in Events : AddTicketType(e, req)
       \/ \E t \in 1 .. MaxTypes : UpdateTicketType(t, req)
  \/ \E t \in 1 .. MaxTypes : DeleteTicketType(t)
  \/ \E e \in Events, ids \in Orders : UpdateTicketTypesOrder(e, ids)
  \/ \E b \in Buyers :
       ReserveTickets(b) \/ RefuseOrder(b) \/ \E lines \in Lines : BeginOrder(b, lines)
  \/ \E s \in 1 .. MaxStocks : ReleaseTickets(s)
  \/ Tick

Spec == Init /\ [][Next]_vars

-----------------------------------------------------------------------------
(* Whatever the console does to a type, the stock a ticket was taken from   *)
(* is still there when the ticket is given back.                            *)
ReservedStockStays == \A s \in 1 .. MaxStocks : held[s] > 0 => s \in DOMAIN stocks

(* Buyers that have read the same stock never take more out of it together  *)
(* than it was given, though the reservation itself does not lower it.      *)
NeverOversold == \A s \in DOMAIN stocks : held[s] <= stocks[s].initial

(* Up to the width of the quantity, a stock and the tickets held make up    *)
(* what it was given: nothing is lost or made by reserving and releasing.   *)
StockAccounts ==
  \A s \in DOMAIN stocks :
    (stocks[s].quantity + held[s]) % WordModulus = stocks[s].initial % WordModulus

(* Every session the console has last asked for has a stock of the type     *)
(* with the sale times it asked for.                                        *)
EverySessionHasStock ==
  \A t \in DOMAIN types : \A w \in wanted[t] : \E s \in DOMAIN stocks :
    /\ stocks[s].type = t /\ stocks[s].session = w.session
    /\ stocks[s].sale_start = w.sale_start /\ stocks[s].sale_end = w.sale_end

(* The types of an event stay in the order the console has put them in,     *)
(* through every update of a type.                                          *)
OrderOfTypesStays ==
  \A e \in Events : \A p \in order[e] :
    {p[1], p[2]} \subseteq {t \in DOMAIN types : types[t].event = e}
    => types[p[1]].pick < types[p[2]].pick

-----------------------------------------------------------------------------
(* "Filter the tickets that are on sale and visible": a session does not    *)
(* list a type that is hidden.                                              *)
HiddenTypeIsNotListed ==
  \A session \in Sessions : \A s \in Listed(session) : types[stocks[s].type].visible

(* "Sync sessions: delete old ones, add new ones": a type has one stock for *)
(* a session.                                                               *)
OneStockPerSession ==
  \A s, r \in DOMAIN stocks :
    stocks[s].type = stocks[r].type /\ stocks[s].session = stocks[r].session => s = r
=============================================================================
