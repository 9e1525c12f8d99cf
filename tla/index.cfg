SPECIFICATION Spec
CONSTANTS
  K = 2
  Keys <- MCKeys
  First5 <- MCFirst5
  MaxNodes = 7
  MaxRemoves = 2
INVARIANTS TypeOK SearchTree RestartFinds
PROPERTIES MapSpec
