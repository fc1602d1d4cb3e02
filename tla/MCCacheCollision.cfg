SPECIFICATION Spec
CONSTANTS
  Threads = {t1, t2}
  Sources <- ABC
  Flavours = {FALSE}
  Hash <- SameHash
  Entry <- EntryABC
  Specialized = {}
  Precompiled = {"a"}
  MaxEntries = 2
  SharedMax = 2
INVARIANT ReturnsOwnPipeline
CHECK_DEADLOCK FALSE
