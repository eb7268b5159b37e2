\* Failing calls, a bank to enable, disable and delete, three reviewers, two requests.
SPECIFICATION Spec
CONSTANTS
  Reviewers = {v1, v2, v3}
  Texts = {t1, none}
  NoText = none
  Original = original
  NoMemory = nomemory
  Experiences = {e1}
  Banks = {b1}
  NoBank = nobank
  Requests = {r1, r2}
  CallsFail = TRUE
INVARIANTS IInv OnlyConsensusIsApplied RecordedMeansCurated QuietConsensusIsApplied FeedbackDiesWithKB
SYMMETRY Symmetric
CHECK_DEADLOCK FALSE
