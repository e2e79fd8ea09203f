SPECIFICATION Spec
CONSTANTS
  NC = 3
  BPC = 2
  NF = 2
  ByteBits = 3
  PerBlock = 2
  Junk = {0}
  MaxBlocks = 4
  MaxCreates = 3
  MaxCrash = 3
CHECK_DEADLOCK FALSE
INVARIANTS TypeOK BitsPerCrash SizeCoversData
