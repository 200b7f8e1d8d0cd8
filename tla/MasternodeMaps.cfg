SPECIFICATION Spec
CONSTANTS
  g = g
  a1 = a1
  a2 = a2
  a3 = a3
  a4 = a4
  a5 = a5
  a6 = a6
  b4 = b4
  b5 = b5
  c1 = c1
  c2 = c2
  c3 = c3
  c4 = c4
  c5 = c5
  c6 = c6
  c7 = c7
  c8 = c8
  s1 = s1
  s2 = s2
  s3 = s3
  s4 = s4
  s5 = s5
  s6 = s6
  NoScript = NoScript
  Genesis = g
  Blocks <- TheBlocks
  Parent <- TheParent
  vtx <- TheVtx
  nValue <- TheValue
  Script <- TheScript
  PaidPayee <- ThePayee
  GetMasternodeNodeCollateral <- TheAmount
  nBlocksPerWeek = 2
  MaxReorgDepth = 2
INVARIANTS CollateralsPresent NoSpentCollateral PaidPayeesExact
