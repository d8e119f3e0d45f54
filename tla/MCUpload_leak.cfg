\* An early answer leaves the writer blocked with its buffer.
CONSTANTS
  Slugs = {"a", "b", "x"}
  StorableSlugs = {"a", "b"}
  ChunkSize = 2
  BufPieces = 2
  Bodies <- PortBodies
  MaxMembers = 1
  Files <- MCFiles
SPECIFICATION FairSpec
PROPERTIES BufferReleased
CHECK_DEADLOCK FALSE
