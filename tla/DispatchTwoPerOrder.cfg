SPECIFICATION Spec
CONSTANTS
    Requests = {r1, r2}
    Orders = {o1}
    Agents = {a1, a2}
    r1 = r1
    r2 = r2
    o1 = o1
    a1 = a1
    a2 = a2
    MaxAttempts = 2
    MaxDeliveries = 2
    Failures = FALSE
SYMMETRY Symmetry
INVARIANTS
    OneActiveDeliveryPerOrder
CHECK_DEADLOCK FALSE
