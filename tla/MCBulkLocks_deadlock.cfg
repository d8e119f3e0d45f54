\* Two uploads of the same slugs in different orders.
CONSTANTS
  Bulks = {b1, b2}
  Slugs = {"A", "B", "C"}
  Datas = {0, 1}
  Chunks <- MCChunks
  MaxId = 4
SPECIFICATION Spec
INVARIANT NoDeadlock
CHECK_DEADLOCK FALSE
