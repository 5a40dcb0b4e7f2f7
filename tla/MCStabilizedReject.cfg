SPECIFICATION Spec
CONSTANTS
  MaxIndex = 2
  LastFile = 3
  NSteps = 3
  MaxEvaluations = 0
INVARIANTS
  RejectedKeepsPrevious
CHECK_DEADLOCK FALSE
