SPECIFICATION Spec
CONSTANTS
  Calls <- ExplicitCalls
  Failures = {}
  MaxLazy = 2
  ArenaSlots = 2
  ExplicitSlots = 2
  PoolSlots = 0
  PlannedRanges = 0
  MaxTensors = 2
  MaxSlabs = 2
  MaxBatches = 3
  MaxGeneration = 0
INVARIANT ExplicitNeverStale
CHECK_DEADLOCK FALSE
