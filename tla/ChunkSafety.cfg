\* three appends and two seals in every order; lengths 0 and 2 make a
\* write that moves nothing and one that jumps over a queued request
CONSTANTS
  Reqs = {r1, r2, r3}
  Sealers = {s1, s2}
  Queriers = {}
  Offsets = {0, 1, 2}
  Lengths = {0, 1, 2}
  Nobody = nobody
SYMMETRY ReqSymmetry
SPECIFICATION Spec
INVARIANTS
  SizeIsFileLength
  QueueAhead
  AckedInPlace
  FileIsItsAppends
  SealLengthFinal
  ReplyCoversAppend
  RequestAlive
PROPERTIES
  AnsweredOnce
  ImplementsLog
