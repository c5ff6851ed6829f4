SPECIFICATION Spec
CONSTANTS
  NLines = 3
  NWorkers = 2
  Class <- MCUserClass
  User <- MCOneUser
  Affinity <- MCAffinity
  SourceCap = 1
  ChanCap = 1
  MinBatch = 1
  BaseBatch = 2
  MaxBatch = 2
  DeadLetterCap = 2
  Follow = FALSE
  DBFaults = FALSE
INVARIANTS
  NewestWins
