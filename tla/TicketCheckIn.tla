---------------------------- MODULE TicketCheckIn ----------------------------
(***************************************************************************)
(* Admission of a ticket at the gates of a session: a gate sends the QR     *)
(* code it has scanned to the console service, which reads the ticket and   *)
(* marks it as used, while other gates scan the same ticket, the expirer    *)
(* runs, a refund voids the ticket and time passes.                         *)
(*                                                                         *)
(* The handler is modelled query by query, under both transaction managers. *)
(* With MongoDB's, a transaction reads a snapshot, its update conflicts     *)
(* with anything committed since or still open, and shows when it commits;  *)
(* with the no-op one of dev mode every query stands alone.                 *)
(***************************************************************************)
EXTENDS Integers

CONSTANTS
  Tickets,
  Gates,        \* check-in requests that may be under way at one time
  ValidFrom,    \* start and end of the session a ticket is for, which its
  ValidUntil,   \* QR code carries as nbf and exp
  Horizon,      \* bounds the clock
  Managers,     \* transaction managers a process may be built with
  Faults,       \* what may fail: see FaultKinds
  NoTicket

FaultKinds == {"read", "mark", "commit"}

ASSUME CheckInAssumption ==
  /\ ValidFrom \in [Tickets -> Nat]
  /\ ValidUntil \in [Tickets -> Nat]
  /\ Horizon \in Nat
  /\ Managers \subseteq {"mongo", "noop"}
  /\ Faults \subseteq FaultKinds
  /\ NoTicket \notin Tickets

VARIABLES
  clock,
  manager,    \* the manager of the running processes
  status,     \* columns of the tickets collection
  usedAt,
  pc,         \* where the request of a gate is
  scanned,    \* the ticket it is about
  now,        \* the time it has read
  stale,      \* the ticket was written after the request had read it
  reply,      \* the last answer a gate got
  admitted    \* how often a gate was told to let the holder of a ticket in

vars == <<clock, manager, status, usedAt, pc, scanned, now, stale, reply, admitted>>

TicketStatus == {"valid", "used", "expired", "invalidated"}

Never == -1

(* Answers: an error of the token, an internal error, a success that shows  *)
(* the ticket, one with a message, and checked_in_now with and without one. *)
Replies == {"none", "token_expired", "token_not_valid_yet", "internal",
            "shown", "outside_period", "checked_in", "checked_in_with_error"}

TypeOK ==
  /\ clock \in Nat
  /\ manager \in {"mongo", "noop"}
  /\ status \in [Tickets -> TicketStatus]
  /\ usedAt \in [Tickets -> Nat \union {Never}]
  /\ pc \in [Gates -> {"idle", "read", "period", "mark", "reread", "audit", "commit"}]
  /\ scanned \in [Gates -> Tickets \union {NoTicket}]
  /\ now \in [Gates -> Nat]
  /\ stale \in [Gates -> BOOLEAN]
  /\ reply \in [Gates -> Replies]
  /\ admitted \in [Tickets -> Nat]

Init ==
  /\ clock = 0
  /\ manager \in Managers
  /\ status = [t \in Tickets |-> "valid"]
  /\ usedAt = [t \in Tickets |-> Never]
  /\ pc = [g \in Gates |-> "idle"]
  /\ scanned = [g \in Gates |-> NoTicket]
  /\ now = [g \in Gates |-> 0]
  /\ stale = [g \in Gates |-> FALSE]
  /\ reply = [g \in Gates |-> "none"]
  /\ admitted = [t \in Tickets |-> 0]

-----------------------------------------------------------------------------
(* A request whose transaction has written the ticket and is still open.    *)
Holds(g, t) ==
  manager = "mongo" /\ scanned[g] = t /\ pc[g] \in {"reread", "audit", "commit"}

Locked(t) == \E g \in Gates : Holds(g, t)

(* A write that shows: whoever has read the ticket before is behind.        *)
Write(t, column) ==
  /\ status' = [status EXCEPT ![t] = column]
  /\ stale' = [g \in Gates |-> stale[g] \/ scanned[g] = t]

Respond(g, answer) ==
  /\ pc' = [pc EXCEPT ![g] = "idle"]
  /\ reply' = [reply EXCEPT ![g] = answer]
  /\ UNCHANGED <<clock, manager, scanned, now>>

GoTo(g, step) ==
  /\ pc' = [pc EXCEPT ![g] = step]
  /\ UNCHANGED <<clock, manager, scanned, reply, admitted>>

-----------------------------------------------------------------------------
(* jwt.Parse: a token is good from nbf on and before exp.                   *)
Parse(t) ==
  IF clock >= ValidUntil[t] THEN "token_expired"
  ELSE IF clock < ValidFrom[t] THEN "token_not_valid_yet"
  ELSE "good"

Scan(g, t) ==
  /\ pc[g] = "idle"
  /\ scanned' = [scanned EXCEPT ![g] = t]
  /\ IF Parse(t) = "good"
     THEN /\ pc' = [pc EXCEPT ![g] = "read"]
          /\ reply' = [reply EXCEPT ![g] = "none"]
     ELSE /\ reply' = [reply EXCEPT ![g] = Parse(t)]
          /\ UNCHANGED pc
  /\ UNCHANGED <<clock, manager, status, usedAt, now, stale, admitted>>

(* Any query may fail: the logic returns no ticket and the service answers  *)
(* with an internal error.                                                  *)
GetTicketByID(g) ==
  /\ pc[g] = "read"
  /\ stale' = [stale EXCEPT ![g] = FALSE]
  /\ \/ status[scanned[g]] = "valid" /\ GoTo(g, "period") /\ UNCHANGED now
     \/ status[scanned[g]] # "valid" /\ Respond(g, "shown") /\ UNCHANGED admitted
     \/ "read" \in Faults /\ Respond(g, "internal") /\ UNCHANGED admitted
  /\ UNCHANGED <<status, usedAt>>

(* Mutant: the validity period is left to the token. *)
Mutant_CheckPeriod(g) ==
  /\ pc[g] = "period"
  /\ now' = [now EXCEPT ![g] = clock]
  /\ GoTo(g, "mark")
  /\ UNCHANGED <<status, usedAt, stale>>

CheckPeriod(g) ==
  LET t == scanned[g]
  IN  /\ pc[g] = "period"
      /\ \/ /\ clock \in ValidFrom[t] .. ValidUntil[t]
            /\ now' = [now EXCEPT ![g] = clock]
            /\ GoTo(g, "mark")
         \/ /\ clock \notin ValidFrom[t] .. ValidUntil[t]
            /\ Respond(g, "outside_period")
            /\ UNCHANGED admitted
      /\ UNCHANGED <<status, usedAt, stale>>

(* The update of a transaction conflicts with what was committed since its  *)
(* snapshot and with other open ones: the driver runs the handler again or, *)
(* after a time, gives up.                                                  *)
MarkInTransaction(g) ==
  LET t == scanned[g]
  IN  /\ manager = "mongo"
      /\ \/ ~stale[g] /\ ~Locked(t) /\ GoTo(g, "reread")
         \/ (stale[g] \/ Locked(t)) /\ GoTo(g, "read")
         \/ "mark" \in Faults /\ Respond(g, "internal") /\ UNCHANGED admitted
      /\ UNCHANGED <<status, usedAt, now, stale>>

(* Mutant: the update selects the ticket by its id only. *)
Mutant_MarkAlone(g) ==
  LET t == scanned[g]
  IN  /\ manager = "noop"
      /\ Write(t, "used")
      /\ usedAt' = [usedAt EXCEPT ![t] = now[g]]
      /\ GoTo(g, "reread")
      /\ UNCHANGED now

(* Outside a transaction the update takes the ticket as it is: it matches a *)
(* valid one or none, and an error may hide that it has matched.            *)
MarkAlone(g) ==
  LET t == scanned[g]
  IN  /\ manager = "noop"
      /\ \/ /\ status[t] = "valid"
            /\ Write(t, "used")
            /\ usedAt' = [usedAt EXCEPT ![t] = now[g]]
            /\ \/ GoTo(g, "reread")
               \/ "mark" \in Faults /\ Respond(g, "internal") /\ UNCHANGED admitted
         \/ /\ status[t] # "valid" /\ Respond(g, "shown")
            /\ UNCHANGED <<status, usedAt, stale, admitted>>
         \/ /\ Faults \intersect {"mark", "read"} # {} /\ Respond(g, "internal")
            /\ UNCHANGED <<status, usedAt, stale, admitted>>
      /\ UNCHANGED now

MarkTicketAsUsed(g) ==
  pc[g] = "mark" /\ (MarkInTransaction(g) \/ MarkAlone(g))

GetUpdatedTicket(g) ==
  /\ pc[g] = "reread"
  /\ \/ GoTo(g, "audit") /\ UNCHANGED now
     \/ "read" \in Faults /\ Respond(g, "internal") /\ UNCHANGED admitted
  /\ UNCHANGED <<status, usedAt, stale>>

(* The insert of the log entry only logs its own failure and returns nil,   *)
(* so the caller never rolls back on it.                                    *)
CreateAuditLog(g) ==
  /\ pc[g] = "audit"
  /\ GoTo(g, "commit")
  /\ UNCHANGED <<now, status, usedAt, stale>>

Admit(g) ==
  /\ Respond(g, "checked_in")
  /\ admitted' = [admitted EXCEPT ![scanned[g]] = @ + 1]

(* A commit that fails, and may have gone through all the same, leaves the  *)
(* ticket and the flag of the closure in place: the service only treats an  *)
(* error without a ticket as fatal.                                         *)
CommitFails(g) == "commit" \in Faults /\ Respond(g, "checked_in_with_error") /\ UNCHANGED admitted

(* Mutant: the answer leaves before the transaction has committed. *)
Mutant_Commit(g) ==
  /\ pc[g] = "commit"
  /\ Admit(g)
  /\ \/ manager = "noop" /\ UNCHANGED <<status, usedAt, stale>>
     \/ /\ manager = "mongo"
        /\ Write(scanned[g], "used")
        /\ usedAt' = [usedAt EXCEPT ![scanned[g]] = now[g]]
     \/ "commit" \in Faults /\ UNCHANGED <<status, usedAt, stale>>

Commit(g) ==
  /\ pc[g] = "commit"
  /\ \/ manager = "noop" /\ Admit(g) /\ UNCHANGED <<status, usedAt, stale>>
     \/ /\ manager = "mongo"
        /\ Write(scanned[g], "used")
        /\ usedAt' = [usedAt EXCEPT ![scanned[g]] = now[g]]
        /\ Admit(g) \/ CommitFails(g)
     \/ manager = "mongo" /\ CommitFails(g) /\ UNCHANGED <<status, usedAt, stale>>

CheckInTicket(g) ==
  \/ GetTicketByID(g) \/ CheckPeriod(g) \/ MarkTicketAsUsed(g)
  \/ GetUpdatedTicket(g) \/ CreateAuditLog(g) \/ Commit(g)

-----------------------------------------------------------------------------
(* Mutant: a run only looks for what lapsed since the last one. *)
Mutant_ExpireLapsed(t) ==
  /\ ~Locked(t)
  /\ status[t] = "valid" /\ ValidUntil[t] = clock - 1
  /\ Write(t, "expired")
  /\ UNCHANGED <<clock, manager, usedAt, pc, scanned, now, reply, admitted>>

(* One ticket of the expirer's update, which runs outside a transaction and *)
(* waits for open ones.                                                     *)
ExpireTickets(t) ==
  /\ ~Locked(t)
  /\ status[t] = "valid" /\ ValidUntil[t] < clock
  /\ Write(t, "expired")
  /\ UNCHANGED <<clock, manager, usedAt, pc, scanned, now, reply, admitted>>

(* Mutant: the ticket gets the status of its bill. *)
Mutant_VoidTicket(t) ==
  /\ ~Locked(t)
  /\ status[t] # "refunded"
  /\ Write(t, "refunded")
  /\ UNCHANGED <<clock, manager, usedAt, pc, scanned, now, reply, admitted>>

(* A refund that went through voids the ticket whatever its status is.      *)
VoidTicket(t) ==
  /\ ~Locked(t)
  /\ status[t] # "invalidated"
  /\ Write(t, "invalidated")
  /\ UNCHANGED <<clock, manager, usedAt, pc, scanned, now, reply, admitted>>

Tick ==
  /\ clock < Horizon
  /\ clock' = clock + 1
  /\ UNCHANGED <<manager, status, usedAt, pc, scanned, now, stale, reply, admitted>>

-----------------------------------------------------------------------------
Next ==
  \/ Tick
  \/ \E t \in Tickets : ExpireTickets(t) \/ VoidTicket(t)
  \/ \E g \in Gates : CheckInTicket(g) \/ \E t \in Tickets : Scan(g, t)

Spec == Init /\ [][Next]_vars

(* The expirer's ticker fires again and again, and a request that was taken *)
(* is answered.                                                             *)
FairSpec ==
  /\ Spec
  /\ \A t \in Tickets : WF_vars(ExpireTickets(t))
  /\ \A g \in Gates : WF_vars(CheckInTicket(g))

-----------------------------------------------------------------------------
(* However many gates scan a ticket at once, whatever fails and whichever   *)
(* manager runs, only one of them is told, without an error, to let its     *)
(* holder in; and then the use is on record.                                *)
AdmittedOnce ==
  \A t \in Tickets :
    /\ admitted[t] <= 1
    /\ admitted[t] = 1 => usedAt[t] # Never /\ status[t] \in {"used", "invalidated"}

(* A ticket is used inside its period, though the time the request compares *)
(* is older than the update it makes.                                       *)
UsedInPeriod ==
  \A t \in Tickets : usedAt[t] # Never => usedAt[t] \in ValidFrom[t] .. ValidUntil[t]

(* A ticket is used or expires once, and only a refund still touches it     *)
(* then; a voided ticket stays void for a gate that has read it before.     *)
StatusMovesOn ==
  [][\A t \in Tickets :
       \/ status'[t] = status[t]
       \/ status[t] = "valid"
       \/ status[t] \in {"used", "expired"} /\ status'[t] = "invalidated"]_vars

(* A ticket nobody has used expires after its session, also when a check-in *)
(* held it at the last moment.                                              *)
OverdueTicketExpires ==
  \A t \in Tickets : clock > ValidUntil[t] ~> status[t] # "valid"

-----------------------------------------------------------------------------
(* "The client will use the checked_in_now and status fields": a gate that  *)
(* reads checked_in_now has used up the ticket.                             *)
CheckedInNowIsOnRecord ==
  \A g \in Gates :
    reply[g] \in {"checked_in", "checked_in_with_error"} => usedAt[scanned[g]] # Never
=============================================================================
