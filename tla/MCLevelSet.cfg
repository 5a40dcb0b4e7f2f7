SPECIFICATION Spec
CONSTANTS
  Designs = {d1, d2}
  Modes = {m1, m2}
  MaxNewton = 2
  MaxRefine = 1
  Big = big
  NoDesign = nodesign
  Problems <- OneOfBoth
INVARIANTS
  AbortsWithoutEigenpairs
PROPERTIES
  KeepsContract
  ModesOfDesign
