SPECIFICATION FairSpec
CONSTANTS
    s1 = s1  s2 = s2  s3 = s3  p1 = p1  p2 = p2  p3 = p3
    d1 = d1  d2 = d2  o1 = o1
    egp = egp  usd = usd  k1 = k1  k2 = k2
    Deliveries = {d1, d2}
    BpsValues <- BpsChoices
    DeliveryOf <- SharedDeliveryOf
    OrderOf <- SharedOrderOf
    AccountOf <- SharedAccountOf
    Subtotal <- SharedSubtotal
    PayoutAccount <- SharedPayoutAccount
    PayoutKey <- SharedPayoutKey
    PayoutAmount <- SharedPayoutAmount
    OpeningBalance <- SharedOpening
    SettleRequests = {s1, s2, s3}
    PayoutRequests = {p1, p2, p3}
    Orders = {o1}
    Accounts = {egp, usd}
    PayoutKeys = {k1, k2}
    CodOrders = {o1}
    MaxInt = 10
INVARIANTS
    SettledOnceAndWhole
    IInv
    BalanceInRange
    BalanceMatchesRows
    PayoutAnswerIsTrue
PROPERTIES
    EveryRequestAnswered
    LedgerSpec
CHECK_DEADLOCK FALSE
