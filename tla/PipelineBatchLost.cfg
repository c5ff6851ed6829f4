SPECIFICATION Spec
CONSTANTS
  NLines = 3
  NWorkers = 2
  Class <- MCClass
  User <- MCUser
  Affinity <- MCAffinity
  SourceCap = 1
  ChanCap = 1
  MinBatch = 1
  BaseBatch = 2
  MaxBatch = 2
  DeadLetterCap = 2
  Follow = TRUE
  DBFaults = FALSE
INVARIANTS
  NoBatchLost
