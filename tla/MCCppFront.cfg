SPECIFICATION Spec
CONSTANTS
  NoDecl = NoDecl
  Identifiers = {"f", "g"}
  Files <- MCFiles
INVARIANTS
  TypeOK
  WellFormedAccepted
  DeclarationsFound
  SpinsOnlyAfterDirective
PROPERTIES
  FileEnds
\* The compilation of the file ends.
CHECK_DEADLOCK FALSE
