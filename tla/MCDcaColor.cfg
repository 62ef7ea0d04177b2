CONSTANTS
  N = 4
  Mini = 15
  Max = 100
  Delta = 20
  StopInterval = 5
  LevelSets = {{0, 60}, {60, 130}}
  RssiMatrices <- MCRssi
  Kinds <- SomeKinds
  Orders <- TwoOrders
SPECIFICATION FairSpec
INVARIANTS
  NeighboursDiffer
  VerdictIsExact
PROPERTIES
  ImplementsSearch
  CalculationEnds
