SPECIFICATION Spec
CONSTANTS
  NLines = 3
  NWorkers = 2
  Class <- MCClass
  User <- MCUser
  Affinity <- MCAffinity
  SourceCap = 1
  ChanCap = 1
  MinBatch = 1
  BaseBatch = 2
  MaxBatch = 2
  DeadLetterCap = 1
  Follow = FALSE
  DBFaults = FALSE
INVARIANTS
  TypeOK
  NoLineVanishes
  NoLineTwice
  CompleteReturn
PROPERTIES
  ImplementsUpload
  RunReturns
