SPECIFICATION TaskSpec
CONSTANTS
  HoldMax = 2
  RepeatSync = TRUE
  Balky = FALSE
  InitBuf = 2
  MaxOutBuf = 2
  WriteSizes = {1, 2}
  MaxTokens = 2
  U64 = 4
PROPERTIES
  AddReaderReturns
CHECK_DEADLOCK FALSE
