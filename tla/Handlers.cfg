\* two handlers, each with scopes and a future to wait on
CONSTANTS
  Promises = {p1, p2}
  States = {s1, s2}
  Getters = {g1, g2}
  Values = {v1}
  Null = null
  Root = root
  KeyTables = {k1, k2}
  MaxDepth = 3
SPECIFICATION HandlersFairSpec
INVARIANTS
  GetIsFaithful
  NotBrokenEarly
  StackIsScopes
  TraceKept
  DetachRestores
PROPERTIES
  GetReturns
