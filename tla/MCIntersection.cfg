SPECIFICATION Spec
CONSTANTS
    Corner <- Skewed
    Cells = 4
    Values <- FarAndNear
    Tol = 2
    MaxElems = 4
INVARIANTS
    Partition
    InterfaceMatches
    SignsRight
\* init may abort.
CHECK_DEADLOCK FALSE
