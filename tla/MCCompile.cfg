SPECIFICATION BuildSpec
CONSTANTS
  x = x
  y = y
  own = own
  shared = shared
  SourceFiles <- MCFiles
  NoFile = NoFile
  Names <- MCNames
  NotAString = NotAString
  Places = 2
  Resolves <- MCResolves
  SourceLists <- MCSourceLists
  Descriptors <- MCDescriptors
  MaxChanges = 2
  ChunkSize = 8
  NewAlign = 4
  Sizes <- MCSizes
  Aligns <- MCAligns
  Addresses <- MCAddresses
  MaxBlocks = 2
INVARIANTS
  Accounted
  FirstFound
  AllTried
  CleanExit
  BlocksSafe
  BuildInOrder
PROPERTIES
  BuffersStay
  CompileEnds
\* partio exits.
CHECK_DEADLOCK FALSE
