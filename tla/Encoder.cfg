SPECIFICATION FairSpec
CONSTANTS
  HoldMax = 2
  RepeatSync = TRUE
  Balky = TRUE
  InitBuf = 1
  MaxOutBuf = 3
  WriteSizes = {1, 2}
  MaxTokens = 4
  U64 = 4
INVARIANTS
  EncoderTypeOK
  StreamFaithful
  FinishedIsComplete
  WrittenMatchesSink
PROPERTIES
  EveryPollReturns
  ImplementsStream
