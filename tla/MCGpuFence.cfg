SPECIFICATION Spec
CONSTANTS
  Calls <- FenceCalls
  Failures = {}
  MaxLazy = 2
  ArenaSlots = 2
  ExplicitSlots = 0
  PoolSlots = 0
  PlannedRanges = 0
  MaxTensors = 2
  MaxSlabs = 2
  MaxBatches = 3
  MaxGeneration = 0
INVARIANT FlushCompletesAll
CHECK_DEADLOCK FALSE
