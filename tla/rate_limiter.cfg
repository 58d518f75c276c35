SPECIFICATION LimiterSpec
CONSTANTS
  u1 = u1
  fast = fast
  slow = slow
  Users = {u1}
  Pods = {fast, slow}
  Skew <- MCSkew
  MaxSkew = 1
  Cost = 2
  PolicyLimit = 2
  Horizon = 20
INVARIANTS
  LimiterTypeOK
  SpentWithinLimit
  QuietUserHasFullBucket
CHECK_DEADLOCK FALSE
