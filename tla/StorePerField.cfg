SPECIFICATION Spec
CONSTANTS
  b1 = b1
  b2 = b2
  NoDoc = NoDoc
  Batch = {b1, b2}
  Records <- MCRecords
  Type <- MCType
  Ts <- MCTs
  Data <- MCData
  Workloads <- MCTwoSets
  Earlier = {"before"}
  MaxAttempts = 2
  Faults = FALSE
INVARIANTS
  PerFieldNewest
