\* Errors of the indexer and the object store.  Liveness: no symmetry, one
\* worker behind a queue of one.
SPECIFICATION FairBuilds
CONSTANTS
  Docs = {d1}
  Calls = {c1}
  KBs = {k1}
  Builds = {b1,b2}
  Workers = {w1}
  Requests = {r1,r2}
  QueueSize = 1
  NoDoc = NoDoc
  NoKB = NoKB
  NoBuild = NoBuild
  Faults = {"rag", "s3"}
INVARIANTS UnsettledBuildIsOwned ReadyBankExists
PROPERTIES EveryBuildSettles
CHECK_DEADLOCK FALSE
