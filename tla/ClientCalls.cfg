\* two callers that share the route table
CONSTANTS
  Callers = {c1, c2}
  Peers = {p1, p2}
  MaxCalls = 2
  None = none
SPECIFICATION FairSpec
INVARIANTS
  ExecutedOnce
PROPERTIES
  CallReturns
