SPECIFICATION Spec
CONSTANTS
  HoldMax = 2
  RepeatSync = TRUE
  Balky = FALSE
  InitBuf = 1
  MaxOutBuf = 3
  WriteSizes = {1, 2}
  MaxTokens = 4
  U64 = 4
PROPERTIES
  FlushLeavesNothing
