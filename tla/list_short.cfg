CONSTANTS
  Direct = 3
  BPC = 4
  EntsPerBlk = 6
  ShortSize = 8
  MaxCluster = 12
  Gap = 4
SPECIFICATION Spec
INVARIANTS GetsListed
