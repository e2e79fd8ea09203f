SPECIFICATION Spec
CONSTANTS
  NC = 2
  BPC = 3
  NF = 4
  ByteBits = 1
  PerBlock = 1
  Junk = {0, 1, 2, 3}
  MaxBlocks = 2
  MaxCreates = 3
  MaxCrash = 1
CHECK_DEADLOCK FALSE
PROPERTIES OthersKept
