SPECIFICATION Spec
CONSTANTS
  none = none
  x = x
  y = y
  word = word
  other = other
  long = long
  Strings <- MCStrings
  NoString = NoString
  Length <- MCLength
  Hash <- MCHash
  NoId = NoId
  InitialSize = 2
  Capacity = 16
  ChunkIds = 6
  MaxChunks = 6
INVARIANTS
  RecordsApart
  StoredOnce
  IInv
PROPERTIES
  InternsRight
  InternReturns
\* Nothing is interned any more once a record was written past its chunk.
CHECK_DEADLOCK FALSE
