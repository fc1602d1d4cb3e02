SPECIFICATION Spec
CONSTANTS
  None = None
  NumSteps = 3
  MaxRuns = 2
  Plans <- SmallPlans
  OutputChoices <- LastOnly
INVARIANTS ResultsKept
CHECK_DEADLOCK FALSE
