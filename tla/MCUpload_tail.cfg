\* The members that do not fill a chunk are dropped and the answer is a 200.
CONSTANTS
  Slugs = {"a", "b", "x"}
  StorableSlugs = {"a", "b"}
  ChunkSize = 2
  BufPieces = 2
  Bodies <- PortBodies
  MaxMembers = 3
  Files <- MCFiles
SPECIFICATION Spec
INVARIANT WholeFileStored
CHECK_DEADLOCK FALSE
