SPECIFICATION SFairSpec
CONSTANTS
  Target = 2
  StepCounts = {0, 1}
  MaxUnits = 2
  MaxRestarts = 1
  BadResults = TRUE
  MaxFaults = 2
  MaxPauses = 1
  Owner = Owner
  None = None
INVARIANTS PayloadsInPlace AcceptedPayload
PROPERTIES ResultsKept TargetReached
CHECK_DEADLOCK FALSE
