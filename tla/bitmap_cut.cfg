SPECIFICATION Spec
CONSTANTS
  NC = 5
  BPC = 2
  NF = 3
  Direct = 1
  MaxClrs = 4
  MaxSaved = 4
  BlkUnits = 8
  EntUnits = 2
  HdrUnits = 1
  ByteBits = 2
  MaxGen = 1
  MaxBlocks = 4
  MaxOpen = 2
CHECK_DEADLOCK FALSE
INVARIANTS
  FreeClusterNotFull
