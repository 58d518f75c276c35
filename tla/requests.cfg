SPECIFICATION FairSpec
CONSTANTS
  c1 = c1
  c2 = c2
  Calls = {c1, c2}
  Writes = 2
  Managers = {"mongo", "noop"}
INVARIANTS
  AnswerTellsTruth
  OwnOrdersOnly
PROPERTY EveryCallIsAnswered
CHECK_DEADLOCK FALSE
