SPECIFICATION Spec
CONSTANTS
  main = main
  lib = lib
  util = util
  dep = dep
  repo = repo
  l = l
  u = u
  d = d
  t = t
  Files <- MCFiles
  MainFile = main
  NoFile = NoFile
  Remotes <- MCRemotes
  Holds <- MCHolds
  Scripts <- MCProjects
  Body <- MCBody
  MaxDepth = 7
  MaxRuns = 2
INVARIANTS
  RunningAlive
  EndsWell
  CompleteUnlessSpoiled
PROPERTIES
  LoadEnds
\* partio exits.
CHECK_DEADLOCK FALSE
