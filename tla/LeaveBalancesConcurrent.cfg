SPECIFICATION Spec
CONSTANTS
    c1 = c1
    c2 = c2
    Callers = {c1, c2}
    Operations <- RaisingOperations
    LegacyDefault = 2
    TypeDefault = 2
    Days = {1, 2}
    Allocations = {1, 3}
    CarryOvers = {0, 2}
    MaxDays = 4
    MayCrash = TRUE
INVARIANT NeverOverdrawn
