\* both stores: create, appends, seal, removal and reads around a crash; the
\* last range ends behind Modulus
CONSTANTS
  Uuids = {1}
  Calls = {c1, c2, c3, c4, c5}
  StoreKinds = {"local", "memory"}
  Offsets = {0, 1, 2}
  Ranges <- SmallRanges
  Modulus = 8
  MaxCrashes = 1
  Torn = torn
  Nobody = nobody
SYMMETRY CallSymmetry
SPECIFICATION Spec
INVARIANTS
  ServedHasFile
  AckedDurable
  ToldLengthFinal
  ReadExact
  StoredAtOffset
  NoTornServed
