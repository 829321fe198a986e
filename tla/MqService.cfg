SPECIFICATION FairSpec
CONSTANTS
  FlushNum = 1
  SkipMax = 2
  MaxRecv = 2
  MaxSid = 8
  MaxFail = 1
  FirstMayFail = FALSE
  Conns = {c1, c2}
  Queues = {q}
  MaxOut = 1
  LogFlush = 2
  DiskMayFail = TRUE
INVARIANTS
  TypeOK
  EachAtOnePlace
  NothingForgotten
  SidsAreNew
PROPERTY
  WaitersAreServed
