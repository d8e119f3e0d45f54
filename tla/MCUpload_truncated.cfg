\* A file cut between two members is answered with a 200.
CONSTANTS
  Slugs = {"a", "b", "x"}
  StorableSlugs = {"a", "b"}
  ChunkSize = 2
  BufPieces = 2
  Bodies <- PortBodies
  MaxMembers = 3
  Files <- MCFiles
SPECIFICATION Spec
INVARIANT OkOnlyForWholeObject
CHECK_DEADLOCK FALSE
