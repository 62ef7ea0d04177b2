CONSTANTS
  Mini = 15
  Max = 100
  Delta = 20
  StopInterval = 5
  Limits <- MCLimits
SPECIFICATION Spec
INVARIANTS
  ThresholdIsTight
PROPERTIES
  EveryRoundProgresses
