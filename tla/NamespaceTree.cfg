\* two callers over directories two deep, with names used again
CONSTANTS
  Root = root
  Callers = {c1, c2}
  Names = {a, b}
  Inodes = {i1, i2, i3, i4}
  MaxDepth = 3
SYMMETRY NamespaceSymmetry
SPECIFICATION Spec
INVARIANTS
  LookupFollowsTree
