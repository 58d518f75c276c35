SPECIFICATION Spec
CONSTANTS
  c1 = c1
  c2 = c2
  Calls = {c1}
  Writes = 1
  Managers = {"mongo"}
INVARIANT OwnershipIsVerified
CHECK_DEADLOCK FALSE
