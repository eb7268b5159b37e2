\* Answers against requests that are cut or overtaken, failing calls and
\* crashes.
SPECIFICATION HttpSpec
CONSTANTS
  Docs = {d1}
  Calls = {c1}
  KBs = {k1}
  Builds = {b1,b2}
  Workers = {w1}
  Requests = {r1,r2}
  QueueSize = 1
  NoDoc = NoDoc
  NoKB = NoKB
  NoBuild = NoBuild
  Unknown = Unknown
  Faults = {"cancel", "db", "s3", "rag", "crash"}
SYMMETRY Symmetric
INVARIANTS HttpIInv AcknowledgedIsKept LastWordHolds RefusedForAReason
PROPERTIES ReadyBuildsStayWhole
CHECK_DEADLOCK FALSE
