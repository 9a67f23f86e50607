SPECIFICATION Spec
CONSTANTS
    None = None
    a = a
    Readers = {a}
    Views = {"branch", "perms"}
    MaxChanges = 2
    MaxFaults = 2
INVARIANT
    InvalidationsWork
PROPERTY
    EventuallyFresh
CHECK_DEADLOCK FALSE
