SPECIFICATION Spec
CONSTANTS
  Prime = 101
  Start <- MCStart
  Other <- MCOther
  Probe <- MCProbe
  NLayers = 3
  SideNormal <- MCSideNormal
  Toward <- MCToward
  Entering <- MCEntering
  Tau <- MCTau
  Capture <- MCCapture
  Base = 4
  Elsewhere <- StructureProbe
  StressNorm = 3
  WeightNorm = 2
  Rho = 5
  Allowable = 83
  ExpLimit = 100
  Dt = 9
  Beta = 13
  Gamma = 19
  RhoInf = 6
  Before <- MCBefore
INVARIANTS
  CardDerivativesExact
  ElementSensitivitiesExact
  ElementTangentsExact
  CardsConsistent
  StressesDoTheWork
  FluxesConsistent
