CONSTANTS
  N = 2
  MaxRuns = 2
  MaxSlaveRuns = 2
SPECIFICATION Spec
INVARIANTS AnswersWereAsked
PROPERTIES MasterEnds SlaveEnds  ImplementsBarrier
CHECK_DEADLOCK FALSE
