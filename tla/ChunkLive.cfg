\* appends, a seal and a query under the fairness of the scheduler and of the timers
CONSTANTS
  Reqs = {r1, r2, r3}
  Sealers = {s1}
  Queriers = {q1}
  Offsets = {0, 1, 2}
  Lengths = {1}
  Nobody = nobody
SPECIFICATION FairSpec
PROPERTIES
  EveryAppendAnswered
  QueryAfterSealExact
