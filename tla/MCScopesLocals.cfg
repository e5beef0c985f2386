SPECIFICATION Spec
CONSTANTS
  x = x
  n = n
  f = f
  t = t
  v = v
  w = w
  exe = exe
  own = own
  lib = lib
  Ids = {x}
  Namespaces = {n}
  Functions = {f}
  Targets = {t}
  Plain = {v, w}
  Assigned = {v, w}
  Contexts = {own, lib}
  Home = own
  Predefined <- MCPredefined
  Offered <- MCOffered
  NoTarget = NoTarget
  NotFound = NotFound
  MaxStack = 2
  MaxLoop = 2
PROPERTIES
  LocalsStayLocal
