SPECIFICATION FairSpec
CONSTANTS
  o1 = o1
  b1 = b1
  b2 = b2
  w1 = w1
  w2 = w2
  i1 = i1
  NoJob = NoJob
  Unit = 1
  Order = o1
  Items = {i1}
  Bills = {b1, b2}
  Amount <- MCAmount
  Workers = {w1, w2}
  Managers = {"mongo", "noop"}
  MaxCopies <- MCMaxCopies
  MaxSent <- MCMaxSent
  MaxFaults = 1
INVARIANTS
  PaidBillsAreCredited
PROPERTIES
  HandlersAreAtomic
  
CHECK_DEADLOCK FALSE
