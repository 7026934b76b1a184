SPECIFICATION BSpec
CONSTANTS
  Cells = {c1, c2}
  Live = {c1, c2}
  NumShards = 2
  Quorum = 2
  TargetRounds = 1
  MaxGen = 3
  MaxCrashes = 0
  MaxPauses = 0
  MaxActive = 2
  NoCell = NoCell
INVARIANTS ClaimMirrored
CHECK_DEADLOCK FALSE
