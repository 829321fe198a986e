SPECIFICATION Spec
CONSTANTS
  NConn = 2
  MaxSid = 3
  ChunkMax = 1
  MaxSession = 1
  MaxFault = 0
  SaveMayFail = FALSE
INVARIANT
  NoGap
CHECK_DEADLOCK FALSE
