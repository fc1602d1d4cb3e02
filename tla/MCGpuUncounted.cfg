SPECIFICATION Spec
CONSTANTS
  Calls = {"normalize"}
  Failures = {}
  MaxLazy = 2
  ArenaSlots = 2
  ExplicitSlots = 0
  PoolSlots = 0
  PlannedRanges = 0
  MaxTensors = 3
  MaxSlabs = 2
  MaxBatches = 3
  MaxGeneration = 0
INVARIANT BatchBounded
CHECK_DEADLOCK FALSE
