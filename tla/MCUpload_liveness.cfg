\* The handler always answers, and a clean upload leaves no goroutine.
CONSTANTS
  Slugs = {"a", "b", "x"}
  StorableSlugs = {"a", "b"}
  ChunkSize = 2
  BufPieces = 2
  Bodies <- AllBodies
  MaxMembers = 2
  Files <- MCFiles
SPECIFICATION FairSpec
PROPERTIES HandlerAnswers CleanUploadEnds
CHECK_DEADLOCK FALSE
