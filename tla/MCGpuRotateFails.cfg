SPECIFICATION Spec
CONSTANTS
  Calls = {"flush"}
  Failures = {"gpuError"}
  MaxLazy = 1
  ArenaSlots = 2
  ExplicitSlots = 0
  PoolSlots = 0
  PlannedRanges = 0
  MaxTensors = 2
  MaxSlabs = 2
  MaxBatches = 3
  MaxGeneration = 0
INVARIANT CountResetOnFlush
CHECK_DEADLOCK FALSE
