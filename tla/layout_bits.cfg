CONSTANTS
  SecSize = 1
  TableBytes = 9
  IntLimit = 2048
  HeadLen = 1
  MinSec = 160
  MaxSec = 330
SPECIFICATION LayoutSpec
INVARIANTS EveryClusterHasBit
