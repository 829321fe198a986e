SPECIFICATION Spec
CONSTANTS
  Cursors = {c1}
  MaxSid = 3
  MaxFile = 3
  Cap = 2
  MaxFileNum = 1
  FlushNum = 1
  DelOut = TRUE
  DiskMayFail = TRUE
  Oversize = TRUE
INVARIANTS
  SidsAscend
  MaxSidIsNewest
  SeekFinds
CHECK_DEADLOCK FALSE
