SPECIFICATION ListingSpec
CONSTANTS
  Orders <- MCOrders
  PageSize = 2
  Second = 2
  MaxAge = 2
  LastTick = 4
INVARIANTS
  CursorGoesDown
  CursorSkipsWithinSecond
  NumberedMissesNothing
CHECK_DEADLOCK FALSE
