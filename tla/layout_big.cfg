CONSTANTS
  SecSize = 1
  TableBytes = 9
  IntLimit = 128
  HeadLen = 1
  MinSec = 33
  MaxSec = 330
SPECIFICATION LayoutSpec
INVARIANTS BlockOfNumberRead
