SPECIFICATION FactoredSpec
CONSTANTS
    Prime = 3
    Elements = {"a", "b", "c"}
    Factored = {"a", "b"}
    NodesOf <- Mesh
    VoidNodes = {8, 9}
    Stiffnesses <- SomeStiffnesses
    Loads <- SomeLoads
    Fraction <- Fractions
    Starts = {2}
    MaxIterations = 2
INVARIANTS
    StepSolvesFullSystem
    TrialResidualExact
\* The linear solver may fail, and the iterations are bounded.
CHECK_DEADLOCK FALSE
