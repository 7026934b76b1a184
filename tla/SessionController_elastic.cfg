SPECIFICATION XSpec
CONSTANTS
  WorkIds = {w1, w2}
  Contributors = {c1, c2}
  Hashes = {h0, h1}
  h0 = h0
  Shards = {s1}
  Seeds <- MCSeeds
  StableSharded = FALSE
  MaxActive = 2
  MaxGen = 2
  MaxTime = 2
  MaxStep = 1
  None = None
INVARIANTS TypeOK StateReloads ActiveOnHead AcceptedOnce CheckpointsHaveReceipts ProjectionsFollowState ExportClosed
PROPERTIES HistoryImmutable LeasesOnlyExtended LedgerSpec
CONSTRAINT FewLeases
SYMMETRY Symmetries
CHECK_DEADLOCK FALSE
