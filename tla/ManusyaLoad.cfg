\* a restart over files
CONSTANTS
  Uuids = {1}
  Calls = {c1, c2}
  StoreKinds = {"local"}
  Offsets = {0}
  Ranges = {}
  Modulus = 4
  MaxCrashes = 1
  Torn = torn
  Nobody = nobody
SYMMETRY CallSymmetry
SPECIFICATION Spec
PROPERTIES
  LoadServesFiles
