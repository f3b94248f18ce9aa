SPECIFICATION Spec
CONSTANTS
  Nodes = {n1, n2, n3}
  Ops <- TreeOps
  MaxElections = 2
  MaxCrashes = 0
  None = None
  Root = 0
SYMMETRY NodeSymmetry
INVARIANTS
  AppliedOnce
  AckedVisible
  CaughtUpAgree
