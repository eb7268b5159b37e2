\* Every fault, a crash included; two requests and two workers on one document.
SPECIFICATION Spec
CONSTANTS
  Docs = {d1}
  Calls = {c1}
  KBs = {k1}
  Builds = {b1,b2}
  Workers = {w1,w2}
  Requests = {r1,r2}
  QueueSize = 1
  NoDoc = NoDoc
  NoKB = NoKB
  NoBuild = NoBuild
  Faults = {"cancel", "db", "s3", "rag", "crash"}
SYMMETRY Symmetric
INVARIANTS IInv ActiveBuildReady ExclusiveProcessing
PROPERTIES StatusFollowsLifecycle SnapshotsFrozen
CHECK_DEADLOCK FALSE
