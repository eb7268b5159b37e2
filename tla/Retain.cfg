\* Every operation of the bank fits one page; calls may fail.
SPECIFICATION FairSpec
CONSTANTS
  MaxFiles = 2
  MaxOps = 5
  PageLimit = 5
  CallsFail = TRUE
INVARIANTS IInv RetainMeansLanded
PROPERTIES RetainReturns ImplementsRetainCall
CHECK_DEADLOCK FALSE
