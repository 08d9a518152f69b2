CONSTANTS
    Orders = {o1}
    Intents = {i1}
    CashPayments = {q1}
    OrderOf <- OneOrder
    Total = 1
    CaptureKinds = {"SUCCEEDED", "MISMATCHED"}
    Tills = {t1}
    Cancellers = {k1}
    Sweepers = {s1}
    Processors = {p1}
    Managers = {}
    LastDay = 1
    None = None
SPECIFICATION FairSpec
PROPERTIES PendingIsResolved CaptureIsHandled
CHECK_DEADLOCK FALSE
