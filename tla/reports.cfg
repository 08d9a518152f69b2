SPECIFICATION ReportsSpec
CONSTANTS
    LastDay = 5
    Instances = {i1, i2}
    CatchUpDays = 3
    RerollDays = 1
    LateDays = 1
    MaxChanges = 2
    MaxMissed = 1
    MaxFails = 1
    None = None
    p1 = p1
    p2 = p2
    p3 = p3
    e1 = e1
    e2 = e2
    e3 = e3
    Payments <- MCPayments
    DayPayments <- MCDayPayments
    Events <- MCEvents
    EventOf <- MCEventOf
    Mismatched <- MCMismatched
    NoPayment = NoPayment
    latte = latte
    mocha = mocha
    Quantities = {1, 2}
    MaxSales = 3
    MaxRenames = 1
    OldEvents = {v1, v2, v3, v4, v5}
    Refused = {v1, v2, v3}
    Runs = {i1, i2}
    BatchSize = 2
    MaxBatches = 2
    MaxNights = 1
    SoldOrders = {o1, o2}
    DayHours = 5
    StartHour = 2
    LastHour = 13
    Processes = {i1, i2}
    Devices = {d1}
    Minute = 2
    Latency = 1
    MaxClock = 10
    MaxLost = 1
    MaxInFlight = 2
    Reads = {g1, g2}
    PoolMax = 2
    AcquireTimeout = 3
    CheckTimeout = 4
    DefaultDeadline = 4
    ReadinessDeadline = 6
SYMMETRY Symmetric
INVARIANTS FinalIsRight EveryDayIsRolled NoFalseDelta RankingIsRight
    BucketsInOrder NightLeavesNothing ConnectedIsFresh DownIsZero
CHECK_DEADLOCK FALSE
