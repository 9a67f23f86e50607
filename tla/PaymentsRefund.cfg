SPECIFICATION FairSpec
CONSTANTS
    None = None
    o1 = o1  o2 = o2
    i1 = i1  i2 = i2
    f1 = f1  f2 = f2  f3 = f3
    w1 = w1  w2 = w2  w3 = w3  w4 = w4  w5 = w5
    c1 = c1  c2 = c2  c3 = c3
    Orders = {o1, o2}
    InitRequests = {i1}
    RefundRequests = {f1, f2, f3}
    Webhooks = {w1, w2, w3}
    Movers = {}
    Charges = {c1, c3}
    CodCharges = {c3}
    OrderOf <- RefundOrders
    InitOrder <- InitOne
    ChargeOf <- RefundChargeOf
    RefundTx <- SharedReference
    EventOf <- SharedEvents
    MaxFaults = 1
INVARIANTS
    RefundsBackedByProvider
    IInv
PROPERTIES
    EventsAreRecorded
    ConfirmedRefundsSettle
CHECK_DEADLOCK FALSE
