SPECIFICATION Spec
CONSTANTS
  NC = 3
  BPC = 2
  NF = 3
  ByteBits = 3
  PerBlock = 2
  Junk = {0}
  MaxBlocks = 3
  MaxCreates = 4
  MaxCrash = 1
CHECK_DEADLOCK FALSE
INVARIANT FreeClusterNotFull
