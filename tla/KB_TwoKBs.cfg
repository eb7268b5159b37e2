\* No fault, two knowledge bases: their builds must not mix.
SPECIFICATION Spec
CONSTANTS
  Docs = {d1}
  Calls = {c1}
  KBs = {k1,k2}
  Builds = {b1,b2}
  Workers = {w1}
  Requests = {r1,r2}
  QueueSize = 1
  NoDoc = NoDoc
  NoKB = NoKB
  NoBuild = NoBuild
  Faults = {}
SYMMETRY Symmetric
INVARIANTS SearchAsksOwnReadyBank
PROPERTIES ImplementsSnapshotService
CHECK_DEADLOCK FALSE
