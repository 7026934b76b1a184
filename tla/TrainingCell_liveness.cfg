SPECIFICATION TFairSpec
CONSTANTS
  Cells = {c1, c2, c3}
  Live = {c1, c2}
  NumShards = 2
  Quorum = 2
  TargetRounds = 1
  MaxGen = 1
  MaxCrashes = 1
  MaxPauses = 1
  MaxFaults = 1
  NoCell = NoCell
INVARIANTS CountsExact
PROPERTIES PendingEnds CampaignFinishes
CHECK_DEADLOCK FALSE
