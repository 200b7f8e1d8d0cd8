SPECIFICATION Spec
CONSTANTS
  Workers = {w1, w2}
  Master = Master
  nBatchSize = 2
  MaxChecks = 4
INVARIANTS
  VerdictExact
  ChecksDoNotOutliveControl
  IdleBetweenBlocks
  IdleAccounting
PROPERTY
  MasterReturns
