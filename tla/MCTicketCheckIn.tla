-------------------------- MODULE MCTicketCheckIn ---------------------------
(* One ticket whose session begins after the first tick and ends before the *)
(* last one, and two gates.                                                 *)
EXTENDS TicketCheckIn, TLC

CONSTANTS t1, g1, g2

MCValidFrom == t1 :> 1
MCValidUntil == t1 :> 3
=============================================================================
