SPECIFICATION Spec
CONSTANTS
  Classes = 3
  ClassSize <- Sizes
  MaxPerClass = 2
  MaxPooledBytes = 21
  Requests <- BoundaryRequests
  OwnReclaim = TRUE
  MaxCalls = 4
INVARIANTS HeldOnce LargeEnough WithinBudget
CHECK_DEADLOCK FALSE
