\* The first Read fails: ParseFile never returns.
CONSTANTS
  Slugs = {"a", "b", "x"}
  StorableSlugs = {"a", "b"}
  ChunkSize = 2
  BufPieces = 2
  Bodies <- PortBodies
  MaxMembers = 1
  Files <- MCFiles
SPECIFICATION FairSpec
PROPERTIES ReaderLearnsEnd
CHECK_DEADLOCK FALSE
