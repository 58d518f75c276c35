SPECIFICATION Spec
CONSTANTS
  e1 = e1
  s1 = s1
  s2 = s2
  b1 = b1
  b2 = b2
  NoSession = NoSession
  NoCart = NoCart
  Events = {e1}
  Sessions = {s1, s2}
  Texts = {"ab", "AB", "cd", "xy"}
  SessionOf <- MCSessionOf
  TypeRequests <- MCTypeRequests
  Orders <- MCOrders
  Buyers = {b1, b2}
  WordModulus = 8
  MaxTypes = 2
  MaxStocks = 3
  MaxLine = 2
  Horizon = 2
SYMMETRY MCSymmetry
INVARIANTS
  TypeOK
  ReservedStockStays
  NeverOversold
  StockAccounts
  EverySessionHasStock
  OrderOfTypesStays
CHECK_DEADLOCK FALSE
