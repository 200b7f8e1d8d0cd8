SPECIFICATION DiskSpec
CONSTANTS
  g = g
  a1 = a1
  a2 = a2
  b1 = b1
  Genesis = g
  Blocks <- ChainBlocks
  Parent <- ChainParent
  nChainWork <- EqualWork
  Verdicts <- AnyOneBad
  Addresses <- TwoOrders
  MaxSequenceId = 8
  Operations = {"crash", "crashInvalidate", "invalidate", "reconsiderAny", "rewind"}
INVARIANTS  StartsAgain
CHECK_DEADLOCK FALSE
