SPECIFICATION Spec
CONSTANTS
    None = None
    o1 = o1  o2 = o2
    i1 = i1  i2 = i2
    f1 = f1  f2 = f2  f3 = f3
    w1 = w1  w2 = w2  w3 = w3  w4 = w4  w5 = w5
    c1 = c1  c2 = c2  c3 = c3
    Orders = {o1}
    InitRequests = {i1}
    RefundRequests = {}
    Webhooks = {w1, w2}
    Movers = {}
    Charges = {c1, c2}
    CodCharges = {}
    OrderOf <- OneOrder
    InitOrder <- InitOne
    ChargeOf <- NoRefunds
    RefundTx <- NoRefunds
    EventOf <- AgainEvents
    MaxFaults = 0
INVARIANTS
    RetriedPaymentIsRecorded
CHECK_DEADLOCK FALSE
