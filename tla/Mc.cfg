SPECIFICATION Spec
CONSTANTS
  NConn = 2
  MaxSid = 3
  ChunkMax = 2
  MsgBytes = 2
  Limits = {0, 1, 2}
  OldEnough = 0
  MaxFaults = 2
  DieAfterStale = FALSE
  Hosts = {h1}
  Clients = {c1}
  MaxId = 2
  MaxItems = 3
  HostSids = {1, 2}
  MaxTime = 3
  KeepTime = 1
  Sizes = {1, 2}
  MaxSize = 3
  Times = {2, 4, 5, 8}
  FileTime = 2
  FileSize = 2
  Day = 2
  ReserveDay = 1
  FlushNum = 2
  MaxRecords = 4
INVARIANTS
  AllInOrder
  QueueAccounted
  AnsweredOnce
PROPERTIES
  AllArrive
  OldestGoFirst
  FilesKept
CHECK_DEADLOCK FALSE
