SPECIFICATION PlannedSpec
CONSTANTS
  Sizes = {1, 3, 10}
  EnsureSizes = {4}
  InitCapacity = 4
  Align = 2
  MaxViews = 3
  MaxSlabs = 3
  MaxGeneration = 1
  MaxCheckpoints = 2
  Plans = {}
INVARIANTS PeakCoversLive
CHECK_DEADLOCK FALSE
