SPECIFICATION Spec
CONSTANTS
  Classes = 3
  ClassSize <- Sizes
  MaxPerClass = 2
  MaxPooledBytes = 21
  Requests <- FewRequests
  OwnReclaim = FALSE
  MaxCalls = 4
PROPERTY NotRecycledWhileHeld
CHECK_DEADLOCK FALSE
