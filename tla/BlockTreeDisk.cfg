SPECIFICATION DiskSpec
CONSTANTS
  g = g
  a1 = a1
  a2 = a2
  b1 = b1
  Genesis = g
  Blocks <- SmallBlocks
  Parent <- SmallParent
  nChainWork <- EqualWork
  Verdicts <- AtMostOneBad
  Addresses <- TwoOrders
  MaxSequenceId = 8
  Operations = {"crash", "invalidate"}
INVARIANTS CheckBlockIndex BestChainActive DiskDescribesTip
