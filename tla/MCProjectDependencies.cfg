SPECIFICATION Spec
CONSTANTS
  a = a
  b = b
  c = c
  main = main
  lib = lib
  Text = Text
  NoTarget = NoTarget
  Names <- MCNames
  Files <- MCFiles
  MainFile = main
  Declares <- MCDeclares
  Goal = c
  MaxFrames = 3
  MaxDepends <- MCMaxDepends
INVARIANTS
  DependenciesFirst
CHECK_DEADLOCK FALSE
