SPECIFICATION Spec
CONSTANTS
  Calls <- StepCalls
  Failures = {}
  MaxLazy = 1
  ArenaSlots = 1
  ExplicitSlots = 1
  PoolSlots = 1
  PlannedRanges = 1
  MaxTensors = 3
  MaxSlabs = 2
  MaxBatches = 3
  MaxGeneration = 1
INVARIANT ReadbackReturnsOwnData
PROPERTY StandaloneStayValid
CHECK_DEADLOCK FALSE
