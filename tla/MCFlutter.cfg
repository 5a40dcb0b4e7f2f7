SPECIFICATION FairSpec
CONSTANTS
  Solvers = {"time domain", "UG"}
  NDivs = 2
  Spacing = 4
  Modes = {1, 2}
  Dampings <- MCDampings
  Speeds = {1}
  GTol = 0
  MaxG = 2
  MaxIters = 2
  LowestIsZero = TRUE
INVARIANTS
  BracketKeepsSignChange
  CriticalIsFirstInstability
PROPERTIES
  KeepsLedger
  SearchReturns
CHECK_DEADLOCK FALSE
