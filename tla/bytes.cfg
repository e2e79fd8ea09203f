SPECIFICATION Spec
CONSTANTS
  NB = 6
  NR = 2
  NF = 3
  BlkUnits = 2
  Byte = {0, 1, 2, 3, 4, 7, 8, 9}
  Junk = {9}
  MaxLen = 4
  Data <- WriteData
INVARIANTS EntriesOwnBlocks SizeCovered ReadAnswers
PROPERTIES ImplementsByteFile
