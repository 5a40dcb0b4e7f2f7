SPECIFICATION FairSpec
CONSTANTS
  MaxIt = 4
  MinStep = 2
  MaxStep = 17
  DesiredIters = 3
  InitialArcs = {2, 5, 9, 16}
  Parameters = {"temperature"}
  MaxSolves = 3
  RestartBound = 6
INVARIANTS
  AttemptsStartAlike
  ArcLengthInRange
  GaveUpOnlyAtMinStep
  RestartsBounded
PROPERTIES
  SolveReturns
