SPECIFICATION SyncSpec
CONSTANTS
  NConn = 1
  MaxSid = 4
  ChunkMax = 2
  MsgBytes = 1
  Limits = {1}
  OldEnough = 1
  MaxFaults = 2
  DieAfterStale = TRUE
INVARIANT
  AllInOrder
