SPECIFICATION Spec
CONSTANTS
  Order = 1
  NStore = 3
  MaxSteps = 6
  MaxStart = 7
  Marches = {"primary", "sensitivity", "coupled"}
  ReuseSolver = FALSE
INVARIANTS
  TypeOK
  PrimaryHistoryAligned
  SensitivityHistoryAligned
  FilesHoldTheirLevel
