SPECIFICATION Spec
CONSTANTS
  NC = 5
  BPC = 2
  NF = 4
  Direct = 1
  MaxClrs = 5
  MaxSaved = 5
  BlkUnits = 8
  EntUnits = 2
  HdrUnits = 1
  ByteBits = 5
  MaxGen = 1
  MaxBlocks = 4
  MaxOpen = 1
CHECK_DEADLOCK FALSE
INVARIANTS SeqTruth NumsDense ClustersListed ClrsCoherent NoLeak ClaimedAccounted
