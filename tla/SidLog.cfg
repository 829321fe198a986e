SPECIFICATION Spec
CONSTANTS
  MaxSid = 3
  FlushRecord = 2
  SwitchNum = 2
  StdioLines = 3
  MaxLines = 4
  CallsMayFail = TRUE
  Harsh = {FALSE, TRUE}
INVARIANT
  TypeOK
PROPERTIES
  PositionStays
  FlushedStays
  ImplementsPositionLog
