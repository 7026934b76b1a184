SPECIFICATION BSpec
CONSTANTS
  TargetRounds = 2
  Quorum = 2
  Roots = {r1, r2}
  None = None
INVARIANTS RestoredSelfContained
CHECK_DEADLOCK FALSE
