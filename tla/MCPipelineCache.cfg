SPECIFICATION Spec
CONSTANTS
  Threads = {t1, t2}
  Sources <- Two
  Flavours = {FALSE, TRUE}
  Hash <- OwnHashTwo
  Entry <- EntryTwo
  Specialized = {"bs"}
  Precompiled = {"b"}
  MaxEntries = 2
  SharedMax = 2
INVARIANTS ReturnsOwnPipeline HoldsLatestUsed BuiltOncePerThread
SYMMETRY ThreadSymmetry
CHECK_DEADLOCK FALSE
