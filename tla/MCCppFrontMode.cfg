SPECIFICATION Spec
CONSTANTS
  NoDecl = NoDecl
  Identifiers = {"f", "g"}
  Files <- MCFiles
INVARIANTS
  ModeEndsWithLine
\* The compilation of the file ends.
CHECK_DEADLOCK FALSE
