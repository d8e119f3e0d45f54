\* Two bulks over overlapping chunks in every order, failures and deletes.
CONSTANTS
  Bulks = {b1, b2}
  Slugs = {"A", "B", "C"}
  Datas = {0, 1}
  Chunks <- MCChunks
  MaxId = 4
SPECIFICATION FairSpec
INVARIANTS TypeOK DecisionsHold WaitsResolve
PROPERTIES ImplementsBulkAtomic BulksEnd
CHECK_DEADLOCK FALSE
