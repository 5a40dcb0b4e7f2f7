SPECIFICATION FairSpec
CONSTANTS
  Zero = z
  Start = s
  Designs = {z, s, a, b}
  InBounds = {s, a, b}
  Big = big
  NoDesign = nodesign
  Objectives = {0, 1}
  MaxIters = 4
  InnMax = 1
  RelIters = 3
  Underflow = 2
INVARIANTS
  SubproblemAboutX
  AcceptedNotPoor
  EarlyStopSettled
PROPERTIES
  OptimizeReturns
