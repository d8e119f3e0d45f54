\* Two overlapping calls, every mix of requests.
CONSTANTS
  Slugs = {"alpha", "alnum", "bad"}
  PortSlugs = {"alpha", "alnum"}
  PathSlugs = {"alpha"}
  Cols <- MCCols
  Vals = {0, 1, 2}
  InRange = {0, 1}
  None = None
  Keep = Keep
  MaxId = 4
  Calls = {c1, c2}
  Requests <- AllRequests
SPECIFICATION Spec
INVARIANTS TypeOK KeysUnique OnlyValidStored SaveHitsFetchedPort
PROPERTIES BulkAllOrNothing OnlyDeleteRemoves ImplementsPortRegistry
CHECK_DEADLOCK FALSE
