SPECIFICATION Spec
CONSTANTS
  Setups <- MCSetups
CHECK_DEADLOCK FALSE
INVARIANTS
  IndexedFirst
  ConnectionLifetime
  AnsweredBeforeExit
PROPERTIES
  GatedIngest
  StopEnds
  GateOpens
