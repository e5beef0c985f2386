SPECIFICATION Spec
CONSTANTS
  a = a
  b = b
  c = c
  text = text
  Targets <- MCTargets
  Values <- MCValues
  MapOrder <- MCMapOrder
  DependLists <- MCDependLists
INVARIANTS
  TypeOK
  TraceIsCycle
  IInv
PROPERTIES
  DecidesRight
  Terminates
\* hasCycles returns.
CHECK_DEADLOCK FALSE
