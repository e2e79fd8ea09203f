SPECIFICATION Spec
CONSTANTS
  NC = 4
  BPC = 2
  NF = 4
  Direct = 1
  MaxClrs = 2
  MaxSaved = 2
  BlkUnits = 4
  EntUnits = 3
  HdrUnits = 1
  ByteBits = 2
  MaxGen = 2
  MaxBlocks = 4
  MaxOpen = 2
CHECK_DEADLOCK FALSE
INVARIANTS TypeOK BitmapAgrees SecondLevelApart RootIntact LossExplained
PROPERTIES NoSteal
