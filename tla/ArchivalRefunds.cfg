SPECIFICATION Spec
CONSTANTS
    Rows = {1, 2, 9, 10, 11, 12}
    Table <- MCTable
    Order <- MCOrder
    Year <- MCYear
    Refs <- MCRefs
    Runs = {w1, w2}
    w1 = w1
    w2 = w2
    NoRun = NoRun
    BatchSize = 2
    FirstYear = 2025
    LastYear = 2026
    MaxFaults = 1
    MaxVersion = 1
    LateWrites = FALSE
    MidRunNewYear = FALSE
INVARIANT
    NeverBlocked
CHECK_DEADLOCK FALSE
