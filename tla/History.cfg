SPECIFICATION HistorySpec
CONSTANTS
    Rows = {1, 2, 3, 10, 11, 13, 14, 15}
    Table <- MCTable
    Order <- MCOrder
    Year <- MCYear
    Refs <- MCRefs
    Stamp <- MCStamp
    YearStart <- MCYearStart
    Asked <- MCAsked
    Runs = {w1, w2}
    w1 = w1
    w2 = w2
    NoRun = NoRun
    BatchSize = 2
    FirstYear = 2025
    LastYear = 2026
    MaxFaults = 1
    MaxVersion = 1
    LateWrites = FALSE
    MidRunNewYear = FALSE
    MicrosPerMilli = 2
    MaxLimit = 2
    DefaultLimit = 1
INVARIANTS
    IInv
    NeverBlocked
    ListsExact
    OrderFound
PROPERTIES
    NothingLeft
    MovesRows
CHECK_DEADLOCK FALSE
