\* A request without id and slug passes Validate and kills the process.
CONSTANTS
  Slugs = {"alpha", "alnum", "bad"}
  PortSlugs = {"alpha", "alnum"}
  PathSlugs = {"alpha"}
  Cols <- MCCols
  Vals = {0, 1, 2}
  InRange = {0, 1}
  None = None
  Keep = Keep
  MaxId = 2
  Calls = {c1}
  Requests <- AllRequests
SPECIFICATION Spec
INVARIANT NeverPanics
CHECK_DEADLOCK FALSE
