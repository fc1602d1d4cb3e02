SPECIFICATION PagedSpec
CONSTANTS
  Absent = Absent
  SeqIds = {s1, s2}
  CacheLayers = {l1, l2}
  Pages = {p1, p2, p3, p4}
  PageSize = 2
  Tokens = {a, b}
  MaxTokens = 5
SYMMETRY Symmetry
INVARIANTS EveryPageOnce
PROPERTIES ImplementsStore
CHECK_DEADLOCK FALSE
