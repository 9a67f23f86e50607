SPECIFICATION Spec
CONSTANTS
    None = None
    r1 = r1  r2 = r2  r3 = r3
    k1 = k1
    Requests = {r1, r2, r3}
    Key <- MCKey
    Body <- MCBody
    Header = {r1, r2}
    Movers = {m1}
    m1 = m1
    Callers <- MCCallers
    Pieces = 2
    Attempts = 2
    MaxFaults = 2
INVARIANTS
    AnswersTrue
    RetriesPlaceOnce
    LiveOrdersReserved
    AnnouncedStatus
PROPERTY
    RequestsEnd
CHECK_DEADLOCK FALSE
