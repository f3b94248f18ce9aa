\* two commands and a call of another client on two servers, around a crash,
\* checkpoints and recoveries
CONSTANTS
  Calls = {c1, c2, c3}
  Commands = {c1, c2}
  Ids = {u1, u2}
  Entries <- AsuraEntries
  MaxCrashes = 1
  Absent = absent
  Closed = closed
SYMMETRY Symmetry
SPECIFICATION TopologySpec
INVARIANTS
  KeptOnDisk
  RollbackPossible
  RegisteredIsListed
  RefusedNotStored
PROPERTIES
  RecoverAllOrNothing
