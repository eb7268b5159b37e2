\* Contexts may end while the queue is full.
SPECIFICATION Spec
CONSTANTS
  Docs = {d1}
  Calls = {c1}
  KBs = {k1}
  Builds = {b1,b2}
  Workers = {w1}
  Requests = {r1,r2}
  QueueSize = 1
  NoDoc = NoDoc
  NoKB = NoKB
  NoBuild = NoBuild
  Faults = {"cancel"}
SYMMETRY Symmetric
INVARIANTS NotStuckPending
CHECK_DEADLOCK FALSE
