SPECIFICATION Spec
CONSTANTS
  g0 = g0 k = k a = a b = b c = c d = d x = x y = y s = s z = z
  w = w
  p1 = p1 p2 = p2
  G = G A1 = A1 A2 = A2 B1 = B1 B2 = B2 B3 = B3
  Txs <- MCTxs
  Coinbases = {k}
  Vin <- MCVin
  VoutSize <- MCVoutSize
  Fee <- MCFee
  LockTime <- MCLockTime
  Verdict <- MCVerdict
  Blocks <- MCBlocks
  Genesis = G
  Parent <- MCParent
  Vtx <- MCVtx
  BadBlocks = {B2}
  Peers = {p1, p2}
  Relays <- MCRelays
  MaxMempool = 4
  MaxVisit = 1
  AncestorLimit = 3
  DescendantLimit = 4
  Maturity = 2
  MaxOrphans = 2
  MaxInvalidate = 1
INVARIANTS InputsAvailable DescendantTotalsExact AssertionsHold  WithinBounds OrphanIndexExact
PROPERTY OrphansAreResolved
