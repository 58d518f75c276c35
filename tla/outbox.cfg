SPECIFICATION Spec
CONSTANTS
  e1 = e1
  e2 = e2
  e3 = e3
  p1 = p1
  p2 = p2
  NoEvent = NoEvent
  Events = {e1, e2, e3}
  Processors = {p1, p2}
  CreatedAt <- MCCreatedAt
  BatchSize = 2
  MaxRetries = 1
  Faults = {"claim", "mark", "retry", "stop", "crash"}
SYMMETRY Symmetry
INVARIANTS
  OneHolder
  CopiesWithinRetries
PROPERTY ImplementsDelivery
CHECK_DEADLOCK FALSE
