SPECIFICATION Spec
CONSTANTS
  NumStages = 3
  Machines <- MCMachines
  Asks <- MCAsks
  Calls <- MCCalls
  OtherUses = {0, 3}
  MaxRequests = 2
INVARIANTS FailsOnlyIfImpossible FitsMachines BestUnlessCut
CHECK_DEADLOCK FALSE
