SPECIFICATION Spec
CONSTANTS
  g = g
  a1 = a1
  a2 = a2
  b1 = b1
  b2 = b2
  Genesis = g
  Blocks <- ForkBlocks
  Parent <- ForkParent
  nChainWork <- EqualWork
  Verdicts <- AtMostOneBad
  Addresses <- OneOrder
  MaxSequenceId = 9
  Operations = {"invalidate", "reconsider"}
INVARIANTS CheckBlockIndex ActiveChainValid BestChainActive
PROPERTY ActivationTerminates
