SPECIFICATION Spec
CONSTANTS
  Cells = {c1, c2, c3}
  Live = {c1, c2, c3}
  NumShards = 2
  Quorum = 2
  TargetRounds = 2
  MaxGen = 2
  MaxCrashes = 1
  MaxPauses = 1
  NoCell = NoCell
INVARIANTS TypeOK RoundsQuorate LineageIntact AcceptedWasHeld GenerationsUnique
PROPERTIES CampaignDurable CampaignSpec
SYMMETRY CellSymmetry
CHECK_DEADLOCK FALSE
