CONSTANTS
  Thread = {t1}
  NC = 4
  BPC = 2
  NFiles = 2
  Pay = {p, q}
  Nothing = none
  MaxLen = 3
  ByteBits = 3
SPECIFICATION Spec
INVARIANTS ListsMatchTables SavedAgrees
PROPERTIES ImplementsStore Answered
