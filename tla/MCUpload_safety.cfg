\* Every short file, with and without a read error, through every interleaving
\* of the writer, the parser, the handler and the service.
CONSTANTS
  Slugs = {"a", "b", "x"}
  StorableSlugs = {"a", "b"}
  ChunkSize = 2
  BufPieces = 2
  Bodies <- AllBodies
  MaxMembers = 4
  Files <- MCFiles
SPECIFICATION Spec
INVARIANTS TypeOK InFileOrder OkAllButTail OkMeansClean NobodyWaitsInVain
PROPERTY ImplementsUploadSpec
CHECK_DEADLOCK FALSE
