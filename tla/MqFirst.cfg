SPECIFICATION Spec
CONSTANTS
  FlushNum = 1
  SkipMax = 1
  MaxRecv = 2
  MaxSid = 7
  MaxFail = 0
  FirstMayFail = FALSE
  Conns = {c1}
  Queues = {q}
  MaxOut = 1
  LogFlush = 1
  DiskMayFail = FALSE
INVARIANT
  NothingPassedOver
