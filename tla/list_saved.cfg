CONSTANTS
  Direct = 2
  BPC = 4
  EntsPerBlk = 6
  ShortSize = 64
  MaxCluster = 20
  Gap = 2
SPECIFICATION Spec
INVARIANTS GetsListed
