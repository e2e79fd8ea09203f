SPECIFICATION Spec
CONSTANTS
  NC = 5
  BPC = 2
  ByteBits = 2
  MaxCount = 4
INVARIANTS ScanFindsFirst SearchFinds EndsAsOutcome
PROPERTIES SearchEnds
