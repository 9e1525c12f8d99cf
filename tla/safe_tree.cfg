SPECIFICATION SafeSpec
CONSTANTS
  K = 2
  Keys <- MCKeys
  First5 <- MCFirst5
  MaxNodes = 8
  MaxRemoves = 1
  NoSession = none
  MaxSessions = 1
  Removable <- MCRemovable
INVARIANTS SafeTypeOK SearchTrees
PROPERTIES SafeMapSpec
