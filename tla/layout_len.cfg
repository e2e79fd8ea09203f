CONSTANTS
  SecSize = 1
  TableBytes = 9
  IntLimit = 2048
  HeadLen = 1
  MinSec = 33
  MaxSec = 60
SPECIFICATION LayoutSpec
INVARIANTS WriteAnswers
