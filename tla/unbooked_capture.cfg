CONSTANTS
    Orders = {o1}
    Intents = {i1}
    CashPayments = {c1}
    OrderOf <- OneOrder
    Total = 1
    CaptureKinds = {"SUCCEEDED"}
    Tills = {t1}
    Cancellers = {}
    Sweepers = {}
    Processors = {p1}
    Managers = {}
    LastDay = 1
    None = None
SPECIFICATION Spec
INVARIANT FinishedCaptureIsBooked
CHECK_DEADLOCK FALSE
