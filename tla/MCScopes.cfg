SPECIFICATION Spec
CONSTANTS
  x = x
  n = n
  f = f
  t = t
  v = v
  w = w
  exe = exe
  own = own
  lib = lib
  Ids = {x}
  Namespaces = {n}
  Functions = {f}
  Targets = {t}
  Plain = {v, w}
  Assigned = {v, w}
  Contexts = {own, lib}
  Home = own
  Predefined <- MCPredefined
  Offered <- MCOffered
  NoTarget = NoTarget
  NotFound = NotFound
  MaxStack = 3
  MaxLoop = 2
INVARIANTS
  TypeOK
  PlaceRight
PROPERTIES
  OuterVariablesStay
  TargetIsolated
  ParameterIsRead
