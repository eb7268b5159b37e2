\* Every environment; more builds than a queue of one and its workers hold.
\* Liveness, so no symmetry.
SPECIFICATION FairInstance
CONSTANTS
  Builds = {b1, b2, b3}
  Workers = {w1, w2}
  Numbers = {0, 1}
  Names = {n1}
  Unset = Unset
  Malformed = Malformed
  Idle = idle
  Gone = gone
INVARIANTS IInv NoHalfBuildAtExit ServesOnlyGuarded CleanExitCutsNobody
PROPERTIES SignalLeadsToExit BuildsGetTheirTurn
CHECK_DEADLOCK FALSE
