SPECIFICATION FairSpec
CONSTANTS
  Cpus = {c1, c2}
  IrqCpus = {c1}
  NPages = 6
  Reserved = 1
  Span = 4
  PoolSize = 2
  PageBytes = 2
  Sizes <- AllSizes
INVARIANTS OwnedOnce Accounted NoErrorPath
PROPERTY LockReleased
CHECK_DEADLOCK FALSE
