SPECIFICATION CatalogSpec
CONSTANTS
    Kiosks = {k1, k2}
    Writers = {w1, w2}
    MaxRevision = 2
    MaxVersion = 3
    LostBumps = 1
    ColdStarts = 0
    Instances = {a, b}
    Digests = {d1, d2}
    Attempts = 2
    Elsewhere = Elsewhere
    MaxFaults = 2
    MaxRestarts = 1
    Attachable = {g1, g2, g3}
    Puts = {p1, p2, p3}
    Bodies = {{}, {g1}, {g1, g2}, {g2, g3}}
    Unset = Unset
    latte = latte
    cake = cake
    ghost = ghost
    size = size
    small = small
    large = large
    Pictured = {latte}
    Items <- MCItems
    Groups <- MCGroups
    Options <- MCOptions
    GroupOf <- MCGroupOf
    Deltas <- MCDeltas
    Bounds <- MCBounds
    Baskets <- MCBaskets
    FirstCatalog <- MCFirstCatalog
    Prices = {0, 65, 120}
    MaxEdits = 2
    None = None
    Orders = {o1, o2, o3}
    Intents = {}
    CashPayments = {}
    OrderOf <- NoPayments
    Total = 1
    CaptureKinds = {"SUCCEEDED"}
    Tills = {}
    Cancellers = {c1}
    Sweepers = {}
    Processors = {}
    Managers = {}
    LastDay = 2
    Runs = {1, 2, 3}
    Plan <- MCPlan
    Kind <- MCKind
    Parents <- MCParents
SYMMETRY Symmetric
INVARIANTS FreshAfterBump LinkedIsStored NumbersGapless
PROPERTIES ReplacesWholeSet SeedTakesOnce RefusalNamesItsCause
CHECK_DEADLOCK FALSE
