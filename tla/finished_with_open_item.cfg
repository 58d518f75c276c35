SPECIFICATION Spec
CONSTANTS
  o1 = o1
  i1 = i1
  i2 = i2
  s1 = s1
  b1 = b1
  b2 = b2
  b3 = b3
  b4 = b4
  v1 = v1
  NoItem = NoItem
  Unit = 1
  Orders = {o1}
  Items = {i1, i2}
  Stocks = {s1}
  Snapshots = {v1}
  Bills = {b1, b2, b3, b4}
  Amounts = {1, 2, 3}
  MissingSessions = {o1}
  InitialStock = 3
  MinQuantityPerOrder = 1
  MaxQuantityPerOrder = 2
  WordModulus = 8
  OrderOf <- MCOrderOf
  StockOf <- MCStockOf
  Price <- MCPrice
SYMMETRY Symmetry
INVARIANT FinishedOrderHasNoOpenItem
CHECK_DEADLOCK FALSE
