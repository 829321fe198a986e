SPECIFICATION Spec
CONSTANTS
  MaxSid = 3
  Lens = {1, 2}
  FullSize = 7
  CacheNum = 2
  Block = 3
  Word = 64
  RecordMayFail = TRUE
  IndexMayFail = TRUE
  MachineDies = TRUE
  Half = 4
  Strings = {"", "x"}
  Numbers = {0, 1, 6}
  Null = Null
INVARIANTS
  LookupsFind
  KeptAreWhole
  CursorReads
  RoundTrip
CHECK_DEADLOCK FALSE
