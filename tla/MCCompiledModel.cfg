SPECIFICATION Spec
CONSTANTS
  None = None
  NumSteps = 5
  MaxRuns = 2
  Plans <- SmallPlans
  OutputChoices <- LastAndAnother
INVARIANTS NoLiveOverlap ReadsOwnData ResultsIntact
CHECK_DEADLOCK FALSE
