SPECIFICATION Spec
CONSTANTS
  g = g
  a1 = a1
  a2 = a2
  b1 = b1
  None = None
  Peers = {p1, p2}
  Preferred = {p1}
  Blocks <- PairBlocks
  Parent <- PairParent
  Genesis = g
  BLOCK_DOWNLOAD_WINDOW = 1
  MAX_BLOCKS_IN_TRANSIT_PER_PEER = 2
  MaxLeft = 1
PROPERTY SkippedWasProcessed
