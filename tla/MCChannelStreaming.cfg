SPECIFICATION FairSpec
CONSTANTS
  TotalChunks = 3
  MaxDrives = 2
INVARIANTS InOrder OneChunkAfterCancel CountNotBehind
PROPERTIES StreamEnds
CHECK_DEADLOCK FALSE
