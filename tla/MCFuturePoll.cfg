SPECIFICATION Spec
CONSTANTS
  Callbacks = {c1, c2}
  None = None
INVARIANT PolledMeansCompleted
CHECK_DEADLOCK FALSE
