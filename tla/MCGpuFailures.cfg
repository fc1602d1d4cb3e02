SPECIFICATION FairSpec
CONSTANTS
  Calls <- FailureCalls
  Failures = {"gpuError", "timeout"}
  MaxLazy = 1
  ArenaSlots = 2
  ExplicitSlots = 0
  PoolSlots = 0
  PlannedRanges = 0
  MaxTensors = 3
  MaxSlabs = 1
  MaxBatches = 3
  MaxGeneration = 0
INVARIANTS Accounted CorruptionWasReported
PROPERTIES DiscardedFinishFirst CallsReturn
CHECK_DEADLOCK FALSE
