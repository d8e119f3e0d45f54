\* A port with a digit in its slug is stored and cannot be named by it.
CONSTANTS
  Slugs = {"alpha", "alnum", "bad"}
  PortSlugs = {"alpha", "alnum"}
  PathSlugs = {"alpha"}
  Cols <- MCCols
  Vals = {0, 1, 2}
  InRange = {0, 1}
  None = None
  Keep = Keep
  MaxId = 2
  Calls = {c1}
  Requests <- AllRequests
SPECIFICATION Spec
INVARIANT EveryPortAddressable
CHECK_DEADLOCK FALSE
