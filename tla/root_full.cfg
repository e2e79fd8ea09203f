SPECIFICATION Spec
CONSTANTS
  NC = 4
  BPC = 3
  NF = 4
  Direct = 1
  MaxClrs = 4
  MaxSaved = 4
  BlkUnits = 4
  EntUnits = 4
  HdrUnits = 1
  ByteBits = 2
  MaxGen = 1
  MaxBlocks = 4
  MaxOpen = 2
CHECK_DEADLOCK FALSE
INVARIANTS
  WriteDirReturns
