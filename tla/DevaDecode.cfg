SPECIFICATION Spec
CONSTANTS
  Nodes = {n1, n2, n3}
  Ops <- DirOps
  MaxElections = 1
  MaxCrashes = 0
  None = None
  Root = 0
SYMMETRY NodeSymmetry
INVARIANTS
  NoUnknownOp
