\* Liveness, with a Hindsight that need not.
SPECIFICATION ClientSpec
CONSTANTS
  MaxFiles = 1
  MaxOps = 2
  PageLimit = 2
  CallsFail = FALSE
PROPERTIES BoundedByDeadline
CHECK_DEADLOCK FALSE
