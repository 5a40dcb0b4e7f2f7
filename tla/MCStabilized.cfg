SPECIFICATION FairSpec
CONSTANTS
  MaxIndex = 6
  LastFile = 7
  NSteps = 6
  MaxEvaluations = 2
INVARIANTS
  AcceptedBelongsToWindow
  WindowMeasured
  FirstEvaluationOverWindow
PROPERTIES
  ImplementsMarch
  SolveReturns
CHECK_DEADLOCK FALSE
