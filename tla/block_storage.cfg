SPECIFICATION Spec
CONSTANTS
  b1 = b1
  b2 = b2
  Blocks = {b1, b2}
  BlkSize <- MCBlkSize
  RevSize <- MCRevSize
  MetaSize = 1
  MaxBytes = 5
  MaxFile = 1
  None = none
INVARIANTS TypeOK StartsAgain IndexedIsWritten
