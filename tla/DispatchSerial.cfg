SPECIFICATION Spec
CONSTANTS
    Requests = {r1}
    Orders = {o1, o2}
    Agents = {a1, a2}
    r1 = r1
    o1 = o1
    o2 = o2
    a1 = a1
    a2 = a2
    MaxAttempts = 2
    MaxDeliveries = 3
    Failures = FALSE
SYMMETRY Symmetry
INVARIANTS
    OneActiveDeliveryPerOrder
    OrderMatchesDelivery
    SettledOncePerOrder
    NoPhantomBusy
    ChainsBounded
CHECK_DEADLOCK FALSE
