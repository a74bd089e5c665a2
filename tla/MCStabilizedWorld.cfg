SPECIFICATION SpecWorld
CONSTANTS
  Facts <- MCFacts
  Residual <- MCResidual
  TransitionIds <- MCTransitionIds
  Sensors <- MCSensors
  SensorOf <- MCSensorOf
  Controls <- MCControls
  Problems <- MCProblems
  MaxExactControls = 3
  Envelopes <- MCEnvelopes
INVARIANTS
  CutIsExact
  InstalledPlanHolds
  CutIsNeeded
CHECK_DEADLOCK FALSE
