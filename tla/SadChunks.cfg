\* three commands with lost and late requests and answers, both stores, a crash
CONSTANTS
  Uuids = {1}
  Calls = {c1, c2, c3}
  StoreKinds = {"local", "memory"}
  Offsets = {0, 1}
  Ranges <- SmallRanges
  Modulus = 4
  MaxCrashes = 1
  Torn = torn
  Nobody = nobody
SYMMETRY Symmetry
SPECIFICATION ChunksSpec
INVARIANTS
  ShownIsDone
  UnknownUnanswered
