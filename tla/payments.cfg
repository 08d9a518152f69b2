SPECIFICATION MoneySpec
CONSTANTS
    Orders = {o1}
    Intents = {i1, i2}
    CashPayments = {c1}
    OrderOf <- OneOrder
    Total = 2
    CaptureKinds = {"SUCCEEDED", "MISMATCHED"}
    Tills = {t1}
    Cancellers = {k1}
    Sweepers = {s1}
    Processors = {p1, p2}
    Managers = {m1, m2}
    LastDay = 1
    None = None
SYMMETRY Symmetric
INVARIANTS PaidExactlyOnce NoCaptureForgotten RefundsBalance
PROPERTIES SettledMoneyStays ImplementsLedger
CHECK_DEADLOCK FALSE
