SPECIFICATION RemoveSpec
CONSTANTS
  K = 3
  Keys <- MCKeys
  First5 <- MCFirst5
  MaxNodes = 7
  MaxRemoves = 2
INVARIANTS RemoveKeepsOrder
