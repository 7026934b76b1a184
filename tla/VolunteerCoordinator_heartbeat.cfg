SPECIFICATION Spec
CONSTANTS
  Cells = {c1, c2}
  Live = {c1, c2}
  NumShards = 2
  Quorum = 2
  TargetRounds = 2
  MaxGen = 2
  MaxCrashes = 0
  MaxPauses = 0
  NoCell = NoCell
INVARIANTS LedgerVerifies
CHECK_DEADLOCK FALSE
