SPECIFICATION Spec
CONSTANTS
  low = low
  high = high
  Labels = {low, high}
  Target <- TwoTargets
  GetBlockSubsidy <- Static
  nFeatureStartHeight = 1
  nRewardAdjustmentInterval = 2
  MaxHeight = 4
  MaxUnder = 1
INVARIANT InitFindsBlocks
