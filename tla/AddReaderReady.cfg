SPECIFICATION TaskSpec
CONSTANTS
  HoldMax = 2
  RepeatSync = TRUE
  Balky = TRUE
  InitBuf = 1
  MaxOutBuf = 3
  WriteSizes = {1, 2}
  MaxTokens = 3
  U64 = 4
INVARIANTS
  AddReaderComplete
PROPERTIES
  AddReaderReturnsOnReadySink
CHECK_DEADLOCK FALSE
