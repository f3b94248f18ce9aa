SPECIFICATION FairSpec
CONSTANTS
  Nodes = {n1, n2}
  Ops <- SameName
  MaxElections = 2
  MaxCrashes = 1
  None = None
  Root = 0
INVARIANTS
  CaughtUpAgree
PROPERTIES
  ImplementsOpLog
  TaskAnswered
