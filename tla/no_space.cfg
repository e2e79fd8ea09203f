SPECIFICATION Spec
CONSTANTS
  NC = 5
  BPC = 2
  ByteBits = 2
  MaxCount = 4
CHECK_DEADLOCK FALSE
INVARIANTS
  AnswersCluster
