SPECIFICATION ProgressSpec
CONSTANTS
    Entries = {e1, e2, e3, x1}
    Stuck = {x1}
    MAX_PER_TICK = 2
    Sweeps = {s1, s2}
    MaxDeaths = 1
    Attempts = {a1, a2}
    Keys = {h1}
    Bodies = {b1}
    None = None
    Kiosks = {m1}
    Writers = {w1}
    MaxRevision = 2
    MaxVersion = 3
    LostBumps = 0
    ColdStarts = 0
    Orders = {1}
    Jobs = {j1, j2}
    MaxTickets = 1
    MaxFailures = 1
    r1 = r1
    r2 = r2
    r3 = r3
    k1 = k1
    k2 = k2
    PoolMax = 2
PROPERTIES WaitingIsTaken EveryAttemptIsAnswered KioskCatchesUp ScreensCatchUp EveryRequestEnds
CHECK_DEADLOCK FALSE
