SPECIFICATION FairSpec
CONSTANTS
  Cursors = {c1, c2}
  MaxSid = 4
  MaxFile = 3
  Cap = 2
  MaxFileNum = 1
  FlushNum = 1
  DelOut = TRUE
  DiskMayFail = FALSE
  Oversize = FALSE
INVARIANTS
  TypeOK
  MinSidIsOldest
  RestartAccepted
  NoCursorOutOfRange
  OlderFilesSynced
PROPERTIES
  NothingSkipped
  UnreadKept
  ImplementsMessageLog
  ReadersCatchUp
