SPECIFICATION SafeRemoveSpec
CONSTANTS
  K = 3
  Keys <- MCKeys
  First5 <- MCFirst5
  MaxNodes = 4
  MaxRemoves = 1
  NoSession = none
  MaxSessions = 1
  Removable <- MCKeys
INVARIANTS FlagsFollow
