\* Another call writes between the Fetch and the Save of an UpdatePort.
CONSTANTS
  Slugs = {"alpha", "alnum", "bad"}
  PortSlugs = {"alpha", "alnum"}
  PathSlugs = {"alpha"}
  Cols <- MCCols
  Vals = {0, 1, 2}
  InRange = {0, 1}
  None = None
  Keep = Keep
  MaxId = 2
  Calls = {c1, c2}
  Requests <- KeyedRequests
SPECIFICATION Spec
PROPERTY PartialUpdate
CHECK_DEADLOCK FALSE
