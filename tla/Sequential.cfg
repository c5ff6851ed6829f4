SPECIFICATION Spec
CONSTANTS
  Setups <- MCSetups
CHECK_DEADLOCK FALSE
INVARIANTS
  AnswerIsTrue
  LossIsCounted
  CountersAddUp
PROPERTIES
  VerdictFromLiveFilter
  RunReturns
