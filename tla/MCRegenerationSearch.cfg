SPECIFICATION Spec
CONSTANTS
  Facts <- MCFacts
  Residual <- MCResidual
  TransitionIds <- MCTransitionIds
  Sensors <- MCSensors
  SensorOf <- MCSensorOf
  Cases <- MCCases
  MaxReachableStates = 4
INVARIANTS
  AnswerIsExact
  VerifiedNeverRegenerates
PROPERTY SearchReturns
CHECK_DEADLOCK FALSE
