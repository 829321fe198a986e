SPECIFICATION Spec
CONSTANTS
  NConn = 2
  MaxSid = 3
  ChunkMax = 1
  MaxSession = 2
  MaxFault = 1
  SaveMayFail = TRUE
INVARIANTS
  TypeOK
  StreamContiguous
  RepliesMatch
  AckedIsStored
  NothingLostInSession
  NeverRefused
  WaitingBounded
CHECK_DEADLOCK FALSE
