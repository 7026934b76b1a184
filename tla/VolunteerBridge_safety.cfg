SPECIFICATION BSpec
CONSTANTS
  Cells = {c1, c2}
  Live = {c1, c2}
  NumShards = 2
  Quorum = 2
  TargetRounds = 2
  MaxGen = 2
  MaxCrashes = 1
  MaxPauses = 0
  MaxActive = 2
  NoCell = NoCell
INVARIANTS LineagesAgree ReceiptsBacked DeliveredKnown ReceiptRecoverable
SYMMETRY CellSymmetry
CHECK_DEADLOCK FALSE
