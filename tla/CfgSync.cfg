SPECIFICATION Spec
CONSTANTS
  r1 = r1
  r2 = r2
  p1 = p1
  p2 = p2
  Malformed = Malformed
  NoDoc = NoDoc
  Lookup = Lookup
  Rules = {r1, r2}
  Publisher = {p1, p2}
  Attempts = 2
  Setups <- MCSetups
CHECK_DEADLOCK FALSE
INVARIANTS
  TypeOK
  AppendReported
  ReadyMeansApplied
PROPERTIES
  ImplementsConfigStore
  Converges
