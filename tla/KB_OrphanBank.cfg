\* No fault is needed: a Delete overtakes a worker.
SPECIFICATION Spec
CONSTANTS
  Docs = {d1}
  Calls = {c1}
  KBs = {k1}
  Builds = {b1,b2}
  Workers = {w1}
  Requests = {r1,r2}
  QueueSize = 1
  NoDoc = NoDoc
  NoKB = NoKB
  NoBuild = NoBuild
  Faults = {}
SYMMETRY Symmetric
INVARIANTS DeletedKBLeavesNoBank
CHECK_DEADLOCK FALSE
