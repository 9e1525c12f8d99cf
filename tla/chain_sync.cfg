SPECIFICATION FairSpec
CONSTANTS
  g1 = g1
  g2 = g2
  a1 = a1
  a2 = a2
  b1 = b1
  zero = zero
  NoHeader = null
  Headers <- MCHeaders
  Absent = {zero}
  Prev <- MCPrev
  Stored = {g1, g2}
  Tip = g2
  Objectives = {a2}
  Lifetime = 2
  Timeout = 1
  Decrements = 2
  Retransmissions = 1
  MaxVector = 1
INVARIANTS TypeOK Connected Maximal FinishedHasStopped
PROPERTIES ForwardEnds
CHECK_DEADLOCK FALSE
