SPECIFICATION FairSpec
CONSTANTS
  Callbacks = {c1, c2, c3}
  None = None
INVARIANTS TypeOK ToldOnceRightly NoneLeftBehind
PROPERTIES ImplementsNotice CallReturns
CHECK_DEADLOCK FALSE
