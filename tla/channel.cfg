SPECIFICATION FairSpec
CONSTANTS
  Clients = {c1, c2, c3, c4}
  Capacity = 2
  NoClient = none
INVARIANTS TypeOK OneInFlight NeverAllAsleep
PROPERTIES RemoteSpec EveryCallExecuted
