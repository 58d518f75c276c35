SPECIFICATION FairSpec
CONSTANTS
  p1 = p1
  p2 = p2
  m1 = m1
  payments = payments
  tickets = tickets
  NoPod = NoPod
  NoMessage = NoMessage
  Pods = {p1, p2}
  Messages = {m1}
  Queues = {payments, tickets}
  QueueOf <- MCQueueOf
  Registered <- MCRegistered
  MaxFaults = 2
INVARIANTS
  TypeOK
PROPERTIES
  ImplementsWorkQueue
  ShutdownCompletes
  EveryMessageSettled
