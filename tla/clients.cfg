SPECIFICATION ClientsSpec
CONSTANTS
    Attempts = {a1, a2, a3}
    Keys = {k1, k2}
    Bodies = {b1, b2}
    None = None
    Ids = {1, 2, 3}
    Totals = {5, 6}
    Limit = 1
    PerMilli = 2
    MaxTime = 1
    Orders = {1}
    Jobs = {j1, j2}
    MaxTickets = 1
    MaxFailures = 1
    Devices = {d1}
    Tablets = {t1, t2}
    Edits = {e1, e2}
SYMMETRY Symmetric
INVARIANTS WorkedOnce ReplayIsOwn WalkIsExact NothingFalse
PROPERTIES LiveIsPaired
CHECK_DEADLOCK FALSE
