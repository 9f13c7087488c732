SPECIFICATION TaskSpec
CONSTANTS
  HoldMax = 2
  RepeatSync = FALSE
  Balky = FALSE
  InitBuf = 2
  MaxOutBuf = 2
  WriteSizes = {1, 2}
  MaxTokens = 3
  U64 = 4
PROPERTIES
  AddReaderReturns
CHECK_DEADLOCK FALSE
