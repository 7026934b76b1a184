SPECIFICATION RFairSpec
CONSTANTS
  TargetRounds = 2
  Operators = {o1, o2}
  MaxFaults = 1
  None = None
INVARIANTS ExportCoherent FinalizeSucceeds
PROPERTIES Finalized
CHECK_DEADLOCK FALSE
