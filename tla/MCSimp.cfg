SPECIFICATION Spec
CONSTANTS
  Designs = {d1, d2}
  Modes = {"solve", "stress"}
  MaxNewton = 2
  NVars = 3
  Big = big
  NoDesign = nodesign
INVARIANTS
  Released
PROPERTY KeepsContract
