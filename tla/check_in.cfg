SPECIFICATION FairSpec
CONSTANTS
  t1 = t1
  g1 = g1
  g2 = g2
  NoTicket = NoTicket
  Tickets = {t1}
  Gates = {g1, g2}
  ValidFrom <- MCValidFrom
  ValidUntil <- MCValidUntil
  Horizon = 5
  Managers = {"mongo", "noop"}
  Faults = {"read", "mark", "commit"}
INVARIANTS
  TypeOK
  AdmittedOnce
  UsedInPeriod
PROPERTIES
  StatusMovesOn
  OverdueTicketExpires
CHECK_DEADLOCK FALSE
