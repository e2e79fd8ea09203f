SPECIFICATION Spec
CONSTANTS
  NC = 4
  BPC = 2
  NF = 3
  ByteBits = 3
  PerBlock = 2
  Junk = {0}
  MaxBlocks = 2
  MaxCreates = 4
  MaxCrash = 1
CHECK_DEADLOCK FALSE
INVARIANTS EntriesAllocated UnhitWhole BitsPerCrash SizeCoversData
PROPERTIES OthersKept
