SPECIFICATION FairSpec
CONSTANTS
  None = None
  NumLayers = 2
  InitialCapacity = 2
  MaxSeqCapacity = 16
  PromptLen = 2
  MaxSeqLen = 6
  MaxNewTokens = 6
  Heads = 3
  MaxCalls = 2
  MaxFailures = 2
PROPERTIES CallReturns
CHECK_DEADLOCK FALSE
