SPECIFICATION Spec
CONSTANTS
    Requests = {r1, r2}
    Orders = {o1}
    Agents = {a1}
    r1 = r1
    r2 = r2
    o1 = o1
    a1 = a1
    MaxAttempts = 2
    MaxDeliveries = 2
    Failures = TRUE
SYMMETRY Symmetry
INVARIANTS
    IInv
    DeliveryColumnsInOrder
    OrderStatusIsBacked
CHECK_DEADLOCK FALSE
