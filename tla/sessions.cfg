SPECIFICATION Spec
CONSTANTS
  Keys = {k1, k2}
  Values = {v1, v2}
  Registries = {r1, r2}
  Normal = normal
  MaxRecords = 2
  NoValue = noValue
  NoSession = noSession
SYMMETRY Symmetry
INVARIANTS TypeOK SessionsFresh
PROPERTIES CommitInstalls SessionsIsolated
