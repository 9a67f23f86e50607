SPECIFICATION FairSpec
CONSTANTS
    Events = {e1, e2, e3}
    Drains = {t1, t2}
    e1 = e1
    e2 = e2
    e3 = e3
    t1 = t1
    t2 = t2
    BatchSize = 2
    MaxFaults = 1
INVARIANTS
    IInv
    DuplicatesPaidFor
PROPERTIES
    NoOvertaking
    DeliversAtLeastOnce
CHECK_DEADLOCK FALSE
