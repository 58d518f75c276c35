------------------------- MODULE TicketCheckInProofs -------------------------
(***************************************************************************)
(* For any number of tickets and gates, under either transaction manager    *)
(* and with any faults: a ticket admits one holder, inside its period, and  *)
(* its status only moves on.                                                *)
(*                                                                         *)
(* The inductive invariant follows a ticket from its update to the answer:  *)
(* one request at a time is past the update, nobody was admitted before it, *)
(* and the ticket is still valid (in a transaction) or used (outside one).  *)
(***************************************************************************)
EXTENDS TicketCheckIn, TLAPS

Past(g, t) == scanned[g] = t /\ pc[g] \in {"reread", "audit", "commit"}

(* A request under way is about a ticket, and the time it has compared lies *)
(* in the period of that ticket.                                            *)
RequestsMakeSense ==
  \A g \in Gates :
    /\ pc[g] # "idle" => scanned[g] \in Tickets
    /\ pc[g] \in {"mark", "reread", "audit", "commit"}
         => now[g] \in ValidFrom[scanned[g]] .. ValidUntil[scanned[g]]

(* Before its update, a request that is not behind has the ticket valid.    *)
FreshIsValid ==
  \A g \in Gates : pc[g] \in {"period", "mark"} /\ ~stale[g] => status[scanned[g]] = "valid"

OnePast ==
  \A t \in Tickets : \A g, h \in Gates : Past(g, t) /\ Past(h, t) => g = h

PastIsFirst ==
  \A t \in Tickets : \A g \in Gates : Past(g, t) =>
    /\ admitted[t] = 0
    /\ manager = "mongo" => status[t] = "valid"
    /\ manager = "noop" => usedAt[t] # Never /\ status[t] \in {"used", "invalidated"}

IInv ==
  /\ TypeOK /\ RequestsMakeSense /\ FreshIsValid /\ OnePast /\ PastIsFirst
  /\ AdmittedOnce /\ UsedInPeriod

LEMMA InitHolds == Init => IInv
  BY CheckInAssumption
  DEF Init, IInv, TypeOK, TicketStatus, Never, Replies, RequestsMakeSense, FreshIsValid,
      OnePast, PastIsFirst, Past, AdmittedOnce, UsedInPeriod

-----------------------------------------------------------------------------
(* A request that is answered without a write, or goes on without one.      *)
LEMMA Proceeding ==
  ASSUME IInv, NEW g \in Gates,
         pc' \in [Gates -> {"idle", "read", "period", "mark", "reread", "audit", "commit"}],
         \A h \in Gates \ {g} : pc'[h] = pc[h] /\ now'[h] = now[h] /\ stale'[h] = stale[h],
         now' \in [Gates -> Nat], stale' \in [Gates -> BOOLEAN],
         reply' \in [Gates -> Replies],
         pc'[g] # "idle" => scanned[g] \in Tickets,
         pc'[g] \in {"mark", "reread", "audit", "commit"}
           => now'[g] \in ValidFrom[scanned[g]] .. ValidUntil[scanned[g]],
         pc'[g] \in {"period", "mark"} /\ ~stale'[g] => status[scanned[g]] = "valid",
         pc'[g] \in {"reread", "audit", "commit"} => Past(g, scanned[g]),
         UNCHANGED <<clock, manager, scanned, status, usedAt, admitted>>
  PROVE  IInv'
<1> USE DEF IInv
<1>1. TypeOK'
  BY DEF TypeOK
<1>2. RequestsMakeSense'
  BY DEF RequestsMakeSense, TypeOK
<1>3. FreshIsValid'
  BY DEF FreshIsValid, TypeOK
<1>4. OnePast' /\ PastIsFirst'
  BY SMTT(30) DEF OnePast, PastIsFirst, Past, TypeOK
<1>5. AdmittedOnce' /\ UsedInPeriod'
  BY DEF AdmittedOnce, UsedInPeriod
<1> QED
  BY <1>1, <1>2, <1>3, <1>4, <1>5

(* A write of a ticket that no transaction holds, by the expirer or a refund. *)
LEMMA WriteFromOutside ==
  ASSUME IInv, NEW t \in Tickets, NEW column \in {"expired", "invalidated"},
         ~Locked(t), Write(t, column), column = "expired" => status[t] = "valid",
         UNCHANGED <<clock, manager, usedAt, pc, scanned, now, reply, admitted>>
  PROVE  IInv'
<1> USE DEF IInv, Write
<1>1. TypeOK'
  BY DEF TypeOK, TicketStatus
<1>2. RequestsMakeSense'
  BY DEF RequestsMakeSense
<1>3. FreshIsValid'
  BY DEF FreshIsValid, TypeOK, RequestsMakeSense
<1>4. OnePast' /\ PastIsFirst'
  BY DEF OnePast, PastIsFirst, Past, TypeOK, Locked, Holds, TicketStatus
<1>5. AdmittedOnce' /\ UsedInPeriod'
  BY DEF AdmittedOnce, UsedInPeriod, TypeOK
<1> QED
  BY <1>1, <1>2, <1>3, <1>4, <1>5

LEMMA ScanKeeps ==
  ASSUME IInv, NEW g \in Gates, NEW t \in Tickets, Scan(g, t)
  PROVE  IInv'
<1> USE DEF IInv, Scan
<1>0. /\ pc' \in [Gates -> {"idle", "read", "period", "mark", "reread", "audit", "commit"}]
      /\ pc'[g] \in {"idle", "read"}
      /\ \A h \in Gates \ {g} : pc'[h] = pc[h] /\ scanned'[h] = scanned[h]
      /\ scanned' \in [Gates -> Tickets \union {NoTicket}] /\ scanned'[g] = t
      /\ reply' \in [Gates -> Replies]
  BY DEF TypeOK, Parse, Replies
<1>1. TypeOK'
  BY <1>0 DEF TypeOK
<1>2. RequestsMakeSense'
  BY <1>0 DEF RequestsMakeSense
<1>3. FreshIsValid'
  BY <1>0 DEF FreshIsValid
<1>4. OnePast' /\ PastIsFirst'
  BY <1>0 DEF OnePast, PastIsFirst, Past
<1>5. AdmittedOnce' /\ UsedInPeriod'
  BY DEF AdmittedOnce, UsedInPeriod
<1> QED
  BY <1>1, <1>2, <1>3, <1>4, <1>5

LEMMA ReadingKeeps ==
  ASSUME IInv, NEW g \in Gates,
         GetTicketByID(g) \/ GetUpdatedTicket(g) \/ CreateAuditLog(g)
  PROVE  IInv'
<1> USE DEF IInv, GoTo, Respond
<1>1. CASE GetTicketByID(g)
  <2>1. /\ pc' \in [Gates -> {"idle", "read", "period", "mark", "reread", "audit", "commit"}]
        /\ pc'[g] \in {"idle", "period"}
        /\ pc'[g] = "period" => status[scanned[g]] = "valid"
        /\ \A h \in Gates \ {g} : pc'[h] = pc[h] /\ stale'[h] = stale[h]
        /\ reply' \in [Gates -> Replies] /\ stale' \in [Gates -> BOOLEAN]
    BY <1>1 DEF GetTicketByID, TypeOK, Replies
  <2>2. UNCHANGED <<clock, manager, scanned, now, status, usedAt, admitted>>
    BY <1>1 DEF GetTicketByID
  <2>3. scanned[g] \in Tickets
    BY <1>1 DEF GetTicketByID, RequestsMakeSense
  <2> QED
    BY <2>1, <2>2, <2>3, Proceeding DEF TypeOK
<1>2. CASE GetUpdatedTicket(g)
  BY <1>2, Proceeding DEF GetUpdatedTicket, TypeOK, Replies, RequestsMakeSense, Past
<1>3. CASE CreateAuditLog(g)
  BY <1>3, Proceeding DEF CreateAuditLog, TypeOK, Replies, RequestsMakeSense, Past
<1> QED
  BY <1>1, <1>2, <1>3

LEMMA PeriodKeeps ==
  ASSUME IInv, NEW g \in Gates, CheckPeriod(g)
  PROVE  IInv'
<1> USE DEF IInv, GoTo, Respond
<1> QED
  BY Proceeding DEF CheckPeriod, TypeOK, Replies, RequestsMakeSense, FreshIsValid

(* A request that gets past the update is the only one there, and the first. *)
LEMMA MarkInTransactionKeeps ==
  ASSUME IInv, NEW g \in Gates, pc[g] = "mark", MarkInTransaction(g)
  PROVE  IInv'
<1> USE DEF IInv, MarkInTransaction
<1> DEFINE t == scanned[g]
<1>0. t \in Tickets
  BY DEF RequestsMakeSense
<1>1. CASE /\ ~stale[g] /\ ~Locked(t) /\ GoTo(g, "reread")
           /\ UNCHANGED <<status, usedAt, now, stale>>
  <2>1. \A h \in Gates : ~Past(h, t)
    BY <1>1 DEF Locked, Holds, Past
  <2>2. status[t] = "valid" /\ admitted[t] = 0
    BY <1>0, <1>1 DEF FreshIsValid, AdmittedOnce, TypeOK
  <2>3. TypeOK'
    BY <1>1 DEF TypeOK, GoTo
  <2>4. RequestsMakeSense' /\ FreshIsValid'
    BY <1>1 DEF RequestsMakeSense, FreshIsValid, TypeOK, GoTo
  <2>5. OnePast' /\ PastIsFirst'
    BY <1>1, <2>1, <2>2 DEF OnePast, PastIsFirst, Past, TypeOK, GoTo
  <2>6. AdmittedOnce' /\ UsedInPeriod'
    BY <1>1 DEF AdmittedOnce, UsedInPeriod, GoTo
  <2> QED
    BY <2>3, <2>4, <2>5, <2>6
<1>2. CASE GoTo(g, "read") /\ UNCHANGED <<status, usedAt, now, stale>>
  BY <1>0, <1>2, Proceeding DEF TypeOK, GoTo
<1>3. CASE Respond(g, "internal") /\ UNCHANGED <<admitted, status, usedAt, now, stale>>
  BY <1>3, Proceeding DEF TypeOK, Replies, Respond
<1> QED
  BY <1>1, <1>2, <1>3

LEMMA MarkAloneKeeps ==
  ASSUME IInv, NEW g \in Gates, pc[g] = "mark", MarkAlone(g)
  PROVE  IInv'
<1> USE DEF IInv
<1> DEFINE t == scanned[g]
<1>0. t \in Tickets /\ now[g] \in ValidFrom[t] .. ValidUntil[t]
  BY DEF RequestsMakeSense
<1>m. manager = "noop"
  BY DEF MarkAlone
<1>1. CASE /\ status[t] = "valid" /\ Write(t, "used")
           /\ usedAt' = [usedAt EXCEPT ![t] = now[g]]
           /\ GoTo(g, "reread") \/ (Respond(g, "internal") /\ UNCHANGED admitted)
           /\ UNCHANGED now
  <2>1. (\A h \in Gates : ~Past(h, t)) /\ admitted[t] = 0
    BY <1>0, <1>m, <1>1 DEF PastIsFirst, AdmittedOnce, TypeOK
  <2>2. /\ pc' \in [Gates -> {"idle", "read", "period", "mark", "reread", "audit", "commit"}]
        /\ pc'[g] \in {"idle", "reread"}
        /\ \A h \in Gates \ {g} : pc'[h] = pc[h]
        /\ reply' \in [Gates -> Replies]
        /\ UNCHANGED <<clock, manager, scanned, now, admitted>>
    BY <1>1 DEF GoTo, Respond, TypeOK, Replies
  <2>3. now[g] \in Nat /\ now[g] # Never
    BY DEF TypeOK, Never
  <2>4. TypeOK'
    BY <1>0, <1>1, <2>2, <2>3 DEF TypeOK, Write, TicketStatus
  <2>5. RequestsMakeSense'
    BY <1>1, <2>2 DEF RequestsMakeSense, TypeOK
  <2>6. FreshIsValid'
    BY <1>1, <2>2 DEF FreshIsValid, TypeOK, Write, RequestsMakeSense
  <2>7. OnePast' /\ PastIsFirst'
    BY <1>0, <1>m, <1>1, <2>1, <2>2, <2>3 DEF OnePast, PastIsFirst, Past, TypeOK, Write
  <2>8. AdmittedOnce' /\ UsedInPeriod'
    BY <1>0, <1>1, <2>1, <2>2, <2>3 DEF AdmittedOnce, UsedInPeriod, TypeOK, Write
  <2> QED
    BY <2>4, <2>5, <2>6, <2>7, <2>8
<1>2. CASE /\ Respond(g, "shown") \/ Respond(g, "internal")
           /\ UNCHANGED <<status, usedAt, stale, admitted>> /\ UNCHANGED now
  <2>1. reply' \in [Gates -> Replies] /\ pc' = [pc EXCEPT ![g] = "idle"]
    BY <1>2 DEF TypeOK, Replies, Respond
  <2> QED
    BY <1>2, <2>1, Proceeding DEF TypeOK, Respond
<1> QED
  BY <1>1, <1>2 DEF MarkAlone

LEMMA CommitKeeps ==
  ASSUME IInv, NEW g \in Gates, Commit(g)
  PROVE  IInv'
<1> USE DEF IInv
<1> DEFINE t == scanned[g]
<1>0. /\ pc[g] = "commit" /\ t \in Tickets /\ Past(g, t)
      /\ now[g] \in ValidFrom[t] .. ValidUntil[t] /\ now[g] \in Nat /\ now[g] # Never
      /\ admitted[t] = 0
  BY DEF Commit, RequestsMakeSense, Past, PastIsFirst, TypeOK, Never
<1>1. CASE CommitFails(g) /\ UNCHANGED <<status, usedAt, stale>>
  <2>1. reply' \in [Gates -> Replies] /\ pc' = [pc EXCEPT ![g] = "idle"]
    BY <1>1 DEF TypeOK, Replies, CommitFails, Respond
  <2> QED
    BY <1>1, <2>1, Proceeding DEF TypeOK, CommitFails, Respond
<1>2. CASE /\ manager = "noop" /\ Admit(g) /\ UNCHANGED <<status, usedAt, stale>>
  <2>1. usedAt[t] # Never /\ status[t] \in {"used", "invalidated"}
    BY <1>0, <1>2 DEF PastIsFirst
  <2>2. TypeOK' /\ RequestsMakeSense' /\ FreshIsValid'
    BY <1>0, <1>2 DEF TypeOK, RequestsMakeSense, FreshIsValid, Admit, Respond, Replies
  <2>3. OnePast' /\ PastIsFirst'
    BY <1>0, <1>2 DEF OnePast, PastIsFirst, Past, TypeOK, Admit, Respond
  <2>4. AdmittedOnce' /\ UsedInPeriod'
    BY <1>0, <1>2, <2>1 DEF AdmittedOnce, UsedInPeriod, TypeOK, Admit, Respond
  <2> QED
    BY <2>2, <2>3, <2>4
<1>3. CASE /\ manager = "mongo" /\ Write(t, "used")
           /\ usedAt' = [usedAt EXCEPT ![t] = now[g]]
           /\ Admit(g) \/ CommitFails(g)
  <2>1. /\ pc' = [pc EXCEPT ![g] = "idle"] /\ reply' \in [Gates -> Replies]
        /\ UNCHANGED <<clock, manager, scanned, now>>
        /\ admitted' \in [Tickets -> Nat] /\ admitted'[t] \in {0, 1}
        /\ \A u \in Tickets \ {t} : admitted'[u] = admitted[u]
    BY <1>0, <1>3 DEF Admit, CommitFails, Respond, TypeOK, Replies
  <2>2. \A h \in Gates \ {g} : ~Past(h, t)
    BY <1>0 DEF OnePast
  <2>3. TypeOK' /\ RequestsMakeSense'
    BY <1>0, <1>3, <2>1 DEF TypeOK, RequestsMakeSense, Write, TicketStatus
  <2>4. FreshIsValid'
    BY <1>0, <1>3, <2>1 DEF FreshIsValid, TypeOK, Write, RequestsMakeSense
  <2>5. OnePast' /\ PastIsFirst'
    BY <1>0, <1>3, <2>1, <2>2 DEF OnePast, PastIsFirst, Past, TypeOK, Write
  <2>6. AdmittedOnce' /\ UsedInPeriod'
    BY <1>0, <1>3, <2>1 DEF AdmittedOnce, UsedInPeriod, TypeOK, Write
  <2> QED
    BY <2>3, <2>4, <2>5, <2>6
<1> QED
  BY <1>1, <1>2, <1>3 DEF Commit

LEMMA TickKeeps == IInv /\ Tick => IInv'
  BY CheckInAssumption
  DEF IInv, Tick, TypeOK, RequestsMakeSense, FreshIsValid, OnePast, PastIsFirst, Past,
      AdmittedOnce, UsedInPeriod

LEMMA StutterKeeps == IInv /\ UNCHANGED vars => IInv'
  BY DEF vars, IInv, TypeOK, RequestsMakeSense, FreshIsValid, OnePast, PastIsFirst, Past,
      AdmittedOnce, UsedInPeriod

LEMMA StepHolds == IInv /\ [Next]_vars => IInv'
<1> SUFFICES ASSUME IInv, [Next]_vars PROVE IInv'
  OBVIOUS
<1>1. CASE Tick
  BY <1>1, TickKeeps
<1>2. CASE \E t \in Tickets : ExpireTickets(t) \/ VoidTicket(t)
  BY <1>2, WriteFromOutside DEF ExpireTickets, VoidTicket
<1>3. CASE \E g \in Gates : CheckInTicket(g)
  BY <1>3, ReadingKeeps, PeriodKeeps, MarkInTransactionKeeps, MarkAloneKeeps, CommitKeeps
  DEF CheckInTicket, MarkTicketAsUsed
<1>4. CASE \E g \in Gates : \E t \in Tickets : Scan(g, t)
  BY <1>4, ScanKeeps
<1>5. CASE UNCHANGED vars
  BY <1>5, StutterKeeps
<1> QED
  BY <1>1, <1>2, <1>3, <1>4, <1>5 DEF Next

(* The inductive invariant of the check-in.                                 *)
THEOREM InvariantHolds == Spec => []IInv
  BY InitHolds, StepHolds, PTL DEF Spec

(* Columns, requests and answers keep their types.                          *)
THEOREM TypeCorrect == Spec => []TypeOK
  BY InvariantHolds, PTL DEF IInv

(* One gate is told to admit the holder of a ticket, and the use is on      *)
(* record: CheckInTicket under both managers, with every fault.             *)
THEOREM TicketAdmitsOnce == Spec => []AdmittedOnce
  BY InvariantHolds, PTL DEF IInv

(* The use on record lies in the period of the ticket.                      *)
THEOREM TicketIsUsedInPeriod == Spec => []UsedInPeriod
  BY InvariantHolds, PTL DEF IInv

-----------------------------------------------------------------------------
LEMMA StepMovesOn ==
  ASSUME IInv, [Next]_vars, NEW t \in Tickets
  PROVE  \/ status'[t] = status[t]
         \/ status[t] = "valid"
         \/ status[t] \in {"used", "expired"} /\ status'[t] = "invalidated"
<1> USE DEF IInv
<1>1. CASE Tick \/ UNCHANGED vars
  BY <1>1 DEF Tick, vars
<1>2. CASE \E u \in Tickets : ExpireTickets(u) \/ VoidTicket(u)
  BY <1>2 DEF ExpireTickets, VoidTicket, Write, TypeOK, TicketStatus
<1>3. ASSUME NEW g \in Gates, CheckInTicket(g) \/ \E u \in Tickets : Scan(g, u)
      PROVE  \/ status'[t] = status[t]
             \/ status[t] = "valid"
             \/ status[t] \in {"used", "expired"} /\ status'[t] = "invalidated"
  <2>1. CASE GetTicketByID(g) \/ CheckPeriod(g) \/ GetUpdatedTicket(g) \/ CreateAuditLog(g)
    BY <2>1 DEF GetTicketByID, CheckPeriod, GetUpdatedTicket, CreateAuditLog
  <2>2. CASE MarkTicketAsUsed(g)
    BY <2>2 DEF MarkTicketAsUsed, MarkInTransaction, MarkAlone, Write, TypeOK
  <2>3. CASE Commit(g)
    <3>1. scanned[g] \in Tickets /\ Past(g, scanned[g])
      BY <2>3 DEF Commit, RequestsMakeSense, Past
    <3>2. manager = "mongo" => status[scanned[g]] = "valid"
      BY <3>1 DEF PastIsFirst
    <3> QED
      BY <2>3, <3>1, <3>2 DEF Commit, Write, TypeOK
  <2>4. CASE \E u \in Tickets : Scan(g, u)
    BY <2>4 DEF Scan
  <2> QED
    BY <1>3, <2>1, <2>2, <2>3, <2>4 DEF CheckInTicket
<1> QED
  BY <1>1, <1>2, <1>3 DEF Next

(* A used, expired or voided ticket never becomes valid again, and only a   *)
(* refund touches a used or expired one: MarkTicketAsUsed, ExpireTickets    *)
(* and UpdateTicketStatus in any interleaving.                              *)
THEOREM StatusAlwaysMovesOn == Spec => StatusMovesOn
<1>1. IInv /\ [Next]_vars
        => [\A t \in Tickets :
              \/ status'[t] = status[t]
              \/ status[t] = "valid"
              \/ status[t] \in {"used", "expired"} /\ status'[t] = "invalidated"]_vars
  BY StepMovesOn
<1> QED
  BY <1>1, InvariantHolds, PTL DEF Spec, StatusMovesOn
=============================================================================
