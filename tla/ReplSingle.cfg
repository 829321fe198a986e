SPECIFICATION FairSpec
CONSTANTS
  NConn = 1
  MaxSid = 3
  ChunkMax = 2
  MaxSession = 2
  MaxFault = 1
  SaveMayFail = FALSE
INVARIANT
  NoGap
PROPERTY
  CatchesUp
CHECK_DEADLOCK FALSE
