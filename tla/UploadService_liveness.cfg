SPECIFICATION SFairSpec
CONSTANTS
  Cells = {c1, c2}
  Invited = {c1}
  Uploads = {c1}
  Senders = {c1}
  Codes = {k1}
  Nonces = {n1, n2}
  NumChunks = 2
  MaxPerCell = 1
  MaxRequests = 3
  MaxUpload = 2
  MaxFaults = 1
  NoCode = NoCode
PROPERTIES UploadsFinish
INVARIANTS ChunksBacked AppliedOnce
CHECK_DEADLOCK FALSE
