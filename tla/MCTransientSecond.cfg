SPECIFICATION Spec
CONSTANTS
  Order = 2
  NStore = 3
  MaxSteps = 6
  MaxStart = 14
  Marches = {"primary"}
  ReuseSolver = TRUE
INVARIANTS
  PrimaryHistoryAligned
