------------------------------ MODULE Requests ------------------------------
(***************************************************************************)
(* Requests to the frontend and console processes: what a caller may        *)
(* conclude from the answer.  A call passes the gateway and the             *)
(* interceptors, then the handler of its method: checks that refuse it, a   *)
(* look at whose order it is about, a query, or a transaction.  Meanwhile   *)
(* its deadline passes, queries fail, handlers panic, commits stay in       *)
(* doubt, and the process is shut down or killed.  Callers set no deadline  *)
(* of their own.                                                            *)
(*                                                                         *)
(* A method is the sequence of the stages of its handler.  What the logic   *)
(* does inside a transaction is the subject of the other modules; here it   *)
(* is a number of writes that succeed one by one or fail.                   *)
(***************************************************************************)
EXTENDS Integers, SequencesExt

CONSTANTS
  Calls,
  Writes,      \* writes of a transaction
  Managers     \* transaction managers a process may be built with

ASSUME RequestsAssumption ==
  /\ Writes \in Nat \ {0}
  /\ Managers \subseteq {"mongo", "noop"}

-----------------------------------------------------------------------------
(* OrderService.                                                            *)
GetUserOrders == <<"token", "read">>
AddOrder == <<"parse", "tickets", "transaction">>
CancelOrder == <<"parse", "authorize", "transaction">>
RequestOrderItemRefund == <<"parse", "authorizeLeniently", "transaction">>

(* OrdersAdminService.                                                      *)
IsEventHasOpenOrders == <<"parse", "read">>
GetOrdersByEvent == <<"parse", "read">>
GetOrdersBySession == <<"parse", "read">>
ChangeOrderItemStatus == <<"parse", "transaction">>
GetOrderByID == <<"parse", "readOwn">>
AdminCancelOrder == <<"parse", "transaction">>
RejectOrderItemRefund == <<"parse", "transaction">>

(* BillService and BillsAdminService.                                       *)
GetTransactionHistory == <<"parse", "readPermitted">>
CreateBill == <<"parse", "transaction">>
CancelBill == <<"parse", "transaction">>
CreateRefundBill == <<"parse", "transaction">>
GetBillsByOrder == <<"parse", "read">>

(* TicketsService and TicketsAdminService.                                  *)
GetEventTickets == <<"parse", "read">>
GetSessionTickets == <<"parse", "read">>
CheckInTicket == <<"qrCode", "checkIn">>
AddTicketType == <<"sessions", "parse", "transaction">>
UpdateTicketType == <<"sessions", "parse", "transaction">>
GetEventTicketTypes == <<"parse", "read">>
DeleteTicketType == <<"parse", "transaction">>
UpdateTicketTypesOrder == <<"parse", "transaction">>

(* The one handler outside of gRPC, behind its own middleware.              *)
ExportOrders == <<"identify", "limit", "parse", "read">>

-----------------------------------------------------------------------------
(* The services as gRPC dispatches them.                                    *)
OrderService ==
  [GetUserOrders |-> GetUserOrders, AddOrder |-> AddOrder,
   CancelOrder |-> CancelOrder,
   RequestOrderItemRefund |-> RequestOrderItemRefund]

OrdersAdminService ==
  [IsEventHasOpenOrders |-> IsEventHasOpenOrders,
   GetOrdersByEvent |-> GetOrdersByEvent,
   GetOrdersBySession |-> GetOrdersBySession,
   ChangeOrderItemStatus |-> ChangeOrderItemStatus,
   GetOrderByID |-> GetOrderByID, CancelOrder |-> AdminCancelOrder,
   RejectOrderItemRefund |-> RejectOrderItemRefund]

BillService == [GetTransactionHistory |-> GetTransactionHistory]

BillAdminService ==
  [CreateBill |-> CreateBill, CancelBill |-> CancelBill,
   CreateRefundBill |-> CreateRefundBill, GetBillsByOrder |-> GetBillsByOrder]

TicketsService ==
  [GetEventTickets |-> GetEventTickets, GetSessionTickets |-> GetSessionTickets]

TicketsAdminService ==
  [CheckInTicket |-> CheckInTicket, AddTicketType |-> AddTicketType,
   GetEventTicketTypes |-> GetEventTicketTypes,
   DeleteTicketType |-> DeleteTicketType, UpdateTicketType |-> UpdateTicketType,
   UpdateTicketTypesOrder |-> UpdateTicketTypesOrder]

(* Decoding, which every gRPC call passes, and the interceptors behind it.  *)
Interceptors == <<"decode", "identify", "startTimer", "validate">>

-----------------------------------------------------------------------------
(* What the gateway takes the request of a method from, in this order: a    *)
(* name in the path overwrites the one in the body.                         *)
GetUserOrdersRequest == <<"query">>
AddOrderRequest == <<"body", "path">>
CancelOrderRequest == <<"body", "path">>
RequestOrderItemRefundRequest == <<"body", "path", "path">>
GetOrdersByEventRequest == <<"path", "query">>
GetOrdersBySessionRequest == <<"path", "query">>
ChangeOrderItemStatusRequest == <<"body", "path", "path">>
GetOrderByIDRequest == <<"path">>
AdminCancelOrderRequest == <<"body", "path">>
RejectOrderItemRefundRequest == <<"body", "path", "path">>
GetTransactionHistoryRequest == <<"path">>
CreateBillRequest == <<"body", "path">>
CancelBillRequest == <<"body", "path">>
CreateRefundBillRequest == <<"body">>
GetBillsByOrderRequest == <<"path">>
GetEventTicketsRequest == <<"path">>
GetSessionTicketsRequest == <<"path">>
CheckInTicketRequest == <<"body">>
AddTicketTypeRequest == <<"body", "path">>
GetEventTicketTypesRequest == <<"path">>
DeleteTicketTypeRequest == <<"path">>
UpdateTicketTypeRequest == <<"body", "path">>
UpdateTicketTypesOrderRequest == <<"body", "path">>

(* The gateway's handlers: no path leads to IsEventHasOpenOrders.           *)
OrderGateway ==
  [GetUserOrders |-> GetUserOrdersRequest, AddOrder |-> AddOrderRequest,
   CancelOrder |-> CancelOrderRequest,
   RequestOrderItemRefund |-> RequestOrderItemRefundRequest]

OrdersAdminGateway ==
  [GetOrdersByEvent |-> GetOrdersByEventRequest,
   GetOrdersBySession |-> GetOrdersBySessionRequest,
   ChangeOrderItemStatus |-> ChangeOrderItemStatusRequest,
   GetOrderByID |-> GetOrderByIDRequest, CancelOrder |-> AdminCancelOrderRequest,
   RejectOrderItemRefund |-> RejectOrderItemRefundRequest]

BillGateway == [GetTransactionHistory |-> GetTransactionHistoryRequest]

BillAdminGateway ==
  [CreateBill |-> CreateBillRequest, CancelBill |-> CancelBillRequest,
   CreateRefundBill |-> CreateRefundBillRequest,
   GetBillsByOrder |-> GetBillsByOrderRequest]

TicketsGateway ==
  [GetEventTickets |-> GetEventTicketsRequest,
   GetSessionTickets |-> GetSessionTicketsRequest]

TicketsAdminGateway ==
  [CheckInTicket |-> CheckInTicketRequest, AddTicketType |-> AddTicketTypeRequest,
   GetEventTicketTypes |-> GetEventTicketTypesRequest,
   DeleteTicketType |-> DeleteTicketTypeRequest,
   UpdateTicketType |-> UpdateTicketTypeRequest,
   UpdateTicketTypesOrder |-> UpdateTicketTypesOrderRequest]

-----------------------------------------------------------------------------
(* The services a process registers.                                        *)
FrontendServices == {OrderService, BillService, TicketsService}
ConsoleServices == {OrdersAdminService, BillAdminService, TicketsAdminService}

Registered(process) == IF process = "frontend" THEN FrontendServices ELSE ConsoleServices

(* Every process has the gateways of all services; a path of one it does    *)
(* not register ends at gRPC, which does not know the service.              *)
Gateways ==
  {<<OrderGateway, OrderService>>, <<OrdersAdminGateway, OrdersAdminService>>,
   <<BillGateway, BillService>>, <<BillAdminGateway, BillAdminService>>,
   <<TicketsGateway, TicketsService>>,
   <<TicketsAdminGateway, TicketsAdminService>>}

Dispatch(process, service, m) ==
  IF service \in Registered(process) THEN Interceptors \o service[m] ELSE <<"unknown">>

GatewayRoutes(process) ==
  UNION {{<<"annotate">> \o g[1][m] \o Dispatch(process, g[2], m) : m \in DOMAIN g[1]} :
           g \in Gateways}

GrpcRoutes(process) ==
  UNION {{Interceptors \o service[m] : m \in DOMAIN service} :
           service \in Registered(process)}

(* The export is a path of the console's own, next to the gateway.          *)
Routes(process) ==
  GatewayRoutes(process) \union GrpcRoutes(process)
    \union (IF process = "console" THEN {ExportOrders} ELSE {})

(* The stages that compare the owner of the order with the caller.          *)
OwnerChecks == {"authorize", "authorizeLeniently", "readOwn", "readPermitted"}

(* Codes that say a call was refused before it did anything.                *)
Refusals == {"InvalidArgument", "Unauthenticated", "PermissionDenied",
             "NotFound", "FailedPrecondition", "AlreadyExists",
             "DeadlineExceeded", "ResourceExhausted", "Unimplemented"}

(* Notice is the success that carries a message; Unavailable stands for a   *)
(* connection that broke before an answer came.                             *)
Answers == {"none", "OK", "Notice", "Internal", "Unavailable"} \union Refusals

VARIABLES
  app,        \* which of the two processes it is
  manager,    \* its transaction manager
  server,     \* whether the process is up
  route,      \* the stages ahead of a call, the one it is in first
  timer,      \* its deadline
  owner,      \* whose order it is about, where the method asks for that
  skipped,    \* whether it went on without having found out
  written,    \* writes of its transaction so far
  durable,    \* writes that show to others
  answer

ownership == <<owner, skipped>>

vars == <<app, manager, server, route, timer, ownership, written, durable, answer>>

TypeOK ==
  /\ app \in {"frontend", "console"}
  /\ manager \in {"mongo", "noop"}
  /\ server \in {"up", "down"}
  /\ \A c \in Calls : \E stages \in Routes(app) : IsSuffix(route[c], stages)
  /\ timer \in [Calls -> {"off", "running", "expired"}]
  /\ owner \in [Calls -> {"nobody", "caller", "other"}]
  /\ skipped \in [Calls -> BOOLEAN]
  /\ written \in [Calls -> 0..Writes]
  /\ durable \in [Calls -> 0..Writes]
  /\ answer \in [Calls -> Answers]

Init ==
  /\ app \in {"frontend", "console"}
  /\ manager \in Managers
  /\ server = "up"
  /\ route = [c \in Calls |-> <<>>]
  /\ timer = [c \in Calls |-> "off"]
  /\ owner = [c \in Calls |-> "nobody"]
  /\ skipped = [c \in Calls |-> FALSE]
  /\ written = [c \in Calls |-> 0]
  /\ durable = [c \in Calls |-> 0]
  /\ answer = [c \in Calls |-> "none"]

-----------------------------------------------------------------------------
Open(c) == route[c] # <<>> /\ answer[c] = "none"

At(c, stages) == route[c] # <<>> /\ Head(route[c]) \in stages

In(c, stages) == Open(c) /\ At(c, stages)

InTransaction(c) == In(c, {"transaction", "checkIn"})

Expired(c) == timer[c] = "expired"

Answered(c, code) ==
  /\ answer' = [answer EXCEPT ![c] = code]
  /\ UNCHANGED <<app, manager, server, route, timer>>

Proceed(c) ==
  /\ route' = [route EXCEPT ![c] = Tail(@)]
  /\ timer' = IF In(c, {"startTimer"}) THEN [timer EXCEPT ![c] = "running"] ELSE timer
  /\ UNCHANGED <<app, manager, server, answer>>

NothingWritten == UNCHANGED <<written, durable>>

(* Where a method asks for the owner, the order may be anybody's.           *)
Owners(stages) ==
  IF \E i \in DOMAIN stages : stages[i] \in OwnerChecks THEN {"caller", "other"}
  ELSE {"nobody"}

Send(c) ==
  /\ server = "up"
  /\ route[c] = <<>>
  /\ \E stages \in Routes(app) :
       /\ route' = [route EXCEPT ![c] = stages]
       /\ \E o \in Owners(stages) : owner' = [owner EXCEPT ![c] = o]
  /\ UNCHANGED <<app, manager, server, timer, skipped, written, durable, answer>>

-----------------------------------------------------------------------------
(* Stages that look at the call alone, and the codes they refuse it with.   *)
(* getUserId reads the header once more that the interceptor has checked;   *)
(* it cannot refuse what the interceptor let pass and is no stage.          *)
RefusalsOf ==
  [annotate |-> {"InvalidArgument"},
   body |-> {"InvalidArgument"},
   query |-> {"InvalidArgument"},
   path |-> {},
   unknown |-> {"Unimplemented"},
   decode |-> {"Internal"},
   identify |-> {"Unauthenticated"},
   startTimer |-> {},
   validate |-> {"InvalidArgument", "Internal"},
   token |-> {"InvalidArgument"},
   parse |-> {"InvalidArgument"},
   tickets |-> {"InvalidArgument", "FailedPrecondition"},
   sessions |-> {"InvalidArgument", "AlreadyExists"},
   qrCode |-> {"DeadlineExceeded", "FailedPrecondition", "InvalidArgument",
               "Unauthenticated"}]

Checks == DOMAIN RefusalsOf

Check(c) ==
  /\ In(c, Checks)
  /\ \/ ~In(c, {"unknown"}) /\ Proceed(c)
     \/ \E code \in RefusalsOf[Head(route[c])] : Answered(c, code)
  /\ UNCHANGED ownership /\ NothingWritten

(* The export asks the rate limiter: it allows, denies, or Redis fails.     *)
Limit(c) ==
  /\ In(c, {"limit"})
  /\ \/ Proceed(c)
     \/ Answered(c, "ResourceExhausted")
     \/ Answered(c, "Internal")
  /\ UNCHANGED ownership /\ NothingWritten

(* authorizeOrderConsumer has read the order.                               *)
Authorize(c) ==
  /\ In(c, {"authorize", "authorizeLeniently"}) /\ ~Expired(c)
  /\ IF owner[c] = "caller" THEN Proceed(c) ELSE Answered(c, "PermissionDenied")
  /\ UNCHANGED ownership /\ NothingWritten

(* Mutant: CancelOrder looks for a denial only, as the refund request does. *)
Mutant_AuthorizeFails(c) ==
  /\ In(c, {"authorize", "authorizeLeniently"}) /\ Proceed(c)
  /\ skipped' = [skipped EXCEPT ![c] = In(c, {"authorizeLeniently"})]
  /\ UNCHANGED owner /\ NothingWritten

(* It could not: the order is missing or the query failed.  CancelOrder     *)
(* takes that for a denial; RequestOrderItemRefund looks for a denial only  *)
(* and goes on, to a transaction that does not ask for the owner again.     *)
AuthorizeFails(c) ==
  /\ \/ In(c, {"authorize"}) /\ Answered(c, "PermissionDenied") /\ UNCHANGED skipped
     \/ /\ In(c, {"authorizeLeniently"}) /\ Proceed(c)
        /\ skipped' = [skipped EXCEPT ![c] = TRUE]
  /\ UNCHANGED owner /\ NothingWritten

Read(c) ==
  /\ In(c, {"read"}) /\ ~Expired(c)
  /\ Answered(c, "OK")
  /\ UNCHANGED ownership /\ NothingWritten

(* Queries that compare the owner with the caller after reading: one hides  *)
(* that there is such an order, the other reports an internal error.        *)
ReadOwn(c) ==
  /\ In(c, {"readOwn", "readPermitted"}) /\ ~Expired(c)
  /\ Answered(c, IF owner[c] = "caller" THEN "OK"
                 ELSE IF In(c, {"readOwn"}) THEN "NotFound" ELSE "Internal")
  /\ UNCHANGED ownership /\ NothingWritten

(* No such order, or the query fails.                                       *)
ReadFails(c) ==
  /\ \/ In(c, {"read", "readOwn", "readPermitted"}) /\ Answered(c, "Internal")
     \/ In(c, {"readOwn"}) /\ Answered(c, "NotFound")
  /\ UNCHANGED ownership /\ NothingWritten

-----------------------------------------------------------------------------
(* One more write: with the no-op manager it shows at once.                 *)
Write(c) ==
  /\ InTransaction(c) /\ ~Expired(c)
  /\ written[c] < Writes
  /\ written' = [written EXCEPT ![c] = @ + 1]
  /\ durable' = IF manager = "noop" THEN [durable EXCEPT ![c] = @ + 1] ELSE durable
  /\ UNCHANGED <<app, manager, server, route, timer, ownership, answer>>

(* A conflict with another transaction: the driver runs the callback again. *)
Conflict(c) ==
  /\ manager = "mongo"
  /\ InTransaction(c) /\ ~Expired(c)
  /\ written[c] > 0
  /\ written' = [written EXCEPT ![c] = 0]
  /\ UNCHANGED <<app, manager, server, route, timer, ownership, durable, answer>>

Commit(c) ==
  /\ InTransaction(c) /\ written[c] = Writes
  /\ durable' = [durable EXCEPT ![c] = Writes]
  /\ Answered(c, "OK")
  /\ UNCHANGED <<ownership, written>>

(* Mutant: a commit without an answer is taken for done. *)
Mutant_CommitError(c) == IF In(c, {"checkIn"}) THEN "Notice" ELSE "OK"

(* What the service says when WithTransaction returns an error although the *)
(* callback went through: a check-in has its ticket by then and reports a   *)
(* success with the error as its message.                                   *)
CommitError(c) == IF In(c, {"checkIn"}) THEN "Notice" ELSE "Internal"

(* The commit failed, or it did not and its answer was lost.                *)
CommitInDoubt(c) ==
  /\ manager = "mongo"
  /\ InTransaction(c) /\ written[c] = Writes
  /\ durable' \in {durable, [durable EXCEPT ![c] = Writes]}
  /\ Answered(c, CommitError(c))
  /\ UNCHANGED <<ownership, written>>

(* A rule of the logic, a failing query, the deadline or a panic ends the   *)
(* callback before its last write: a transaction is aborted, the writes of  *)
(* the no-op manager stay.                                                  *)
TransactionFails(c) ==
  /\ InTransaction(c) /\ written[c] < Writes
  /\ written' = [written EXCEPT ![c] = 0]
  /\ Answered(c, "Internal")
  /\ UNCHANGED <<ownership, durable>>

(* A check-in that finds no ticket, one that is not valid (any more), or    *)
(* one out of its period writes nothing.                                    *)
CheckInRefused(c) ==
  /\ In(c, {"checkIn"}) /\ ~Expired(c)
  /\ written[c] = 0
  /\ \E code \in {"NotFound", "Notice"} : Answered(c, code)
  /\ UNCHANGED ownership /\ NothingWritten

-----------------------------------------------------------------------------
(* Mutant: only the handler looks at the deadline, not its transaction. *)
Mutant_Deadline(c) ==
  /\ Open(c) /\ timer[c] = "running" /\ ~InTransaction(c)
  /\ timer' = [timer EXCEPT ![c] = "expired"]
  /\ UNCHANGED <<app, manager, server, route, ownership, written, durable, answer>>

Deadline(c) ==
  /\ Open(c) /\ timer[c] = "running"
  /\ timer' = [timer EXCEPT ![c] = "expired"]
  /\ UNCHANGED <<app, manager, server, route, ownership, written, durable, answer>>

(* The process ends, by a signal or a crash, with calls under way: their    *)
(* connections break, open transactions are aborted, and a commit that was  *)
(* just being sent may have arrived or not.                                 *)
Exit ==
  /\ server = "up"
  /\ server' = "down"
  /\ answer' = [c \in Calls |-> IF Open(c) THEN "Unavailable" ELSE answer[c]]
  /\ \E done \in SUBSET {c \in Calls : InTransaction(c) /\ written[c] = Writes} :
       durable' = [c \in Calls |-> IF c \in done THEN Writes ELSE durable[c]]
  /\ UNCHANGED <<app, manager, route, timer, ownership, written>>

Start ==
  /\ server = "down"
  /\ server' = "up"
  /\ UNCHANGED <<app, manager, route, timer, ownership, written, durable, answer>>

Succeeds(c) ==
  \/ Authorize(c) \/ Read(c) \/ ReadOwn(c)
  \/ Write(c) \/ Conflict(c) \/ CheckInRefused(c)

Fails(c) == AuthorizeFails(c) \/ ReadFails(c) \/ TransactionFails(c)

Commits(c) == Commit(c) \/ CommitInDoubt(c)

Next ==
  \/ \E c \in Calls :
       \/ Send(c) \/ Check(c) \/ Limit(c) \/ Deadline(c)
       \/ Succeeds(c) \/ Fails(c) \/ Commits(c)
  \/ Exit
  \/ Start

Spec == Init /\ [][Next]_vars

(* Code runs and timers fire.  A query need never be answered; but once the *)
(* deadline has passed the driver gives up on it.                           *)
Fairness ==
  \A c \in Calls :
    /\ WF_vars(Check(c))
    /\ WF_vars(Deadline(c))
    /\ WF_vars(Expired(c) /\ (Fails(c) \/ Commits(c)))

FairSpec == Spec /\ Fairness

-----------------------------------------------------------------------------
Changes(c) == At(c, {"transaction", "checkIn"})

(* What an answer means for the caller, whatever the manager, the deadline, *)
(* the commit and the process did in between: a refusal changed nothing and *)
(* may be repeated, a success of a change is complete and on record, and    *)
(* with MongoDB's transactions no change is ever left half done.            *)
AnswerTellsTruth ==
  \A c \in Calls :
    /\ answer[c] \in Refusals => durable[c] = 0
    /\ answer[c] = "OK" /\ Changes(c) => durable[c] = Writes
    /\ manager = "mongo" => durable[c] \in {0, Writes}

(* A consumer neither cancels another's order nor is shown it or its bills, *)
(* whichever of the queries on the way fail, time out or break off.  The    *)
(* one way around is a refund request whose look at the owner failed.       *)
OwnOrdersOnly ==
  \A c \in Calls :
    owner[c] = "other" /\ ~skipped[c] => answer[c] # "OK" /\ durable[c] = 0

(* That "authorizeOrderConsumer verifies the user from the context owns the *)
(* order" would close this way too: no call about another's order goes      *)
(* through.                                                                 *)
OwnershipIsVerified ==
  \A c \in Calls :
    owner[c] = "other" => answer[c] # "OK" /\ durable[c] = 0

(* Every gRPC call gets an answer, if only that its connection broke: the   *)
(* deadline of the interceptor ends even the wait for a database that says  *)
(* nothing.  The export has no deadline and no such promise.                *)
EveryCallIsAnswered ==
  \A c \in Calls :
    Open(c) /\ ~IsSuffix(route[c], ExportOrders) ~> ~Open(c)
=============================================================================
