CONSTANTS
  Thread = {t1, t2}
  NC = 4
  BPC = 2
  NFiles = 2
  Pay = {p, q}
  Nothing = none
  MaxLen = 2
  ByteBits = 3
SPECIFICATION Spec
CONSTRAINT Orderly
INVARIANTS ListsMatchTables SavedAgrees
PROPERTIES ImplementsStore
