SPECIFICATION AccountsSpec
CONSTANTS
    Tokens = {t1, t2, t3}
    Families = {f1, f2}
    Requests = {r1, r2}
    None = None
    N = 3
    Changes = {c1, c2}
    Unset = Unset
    Addresses = {a1}
    SignIns = {q1, q2, q3, q4, q5}
    Latency = 1
    Limit = 2
    Ttl = 2
    BlockDuration = 2
    MaxFailures = 2
    Window = 3
    MaxOutages = 1
    i1 = i1
    i2 = i2
    user = user
    jti = jti
    s1 = s1
    s2 = s2
    StaffIds <- MCStaffIds
    Jtis <- MCJtis
    Sockets <- MCSockets
    Instances <- MCInstances
    Owner <- MCOwner
    Home <- MCHome
    TTL = 2
    SignLatency = 1
    MaxTime = 4
    MaxRevocations = 2
    MaxRestarts = 1
INVARIANTS OneChain RenewedOnceAtMost DemotionsLeaveAnAdmin FailuresBounded AccessEndsWithToken
PROPERTIES NoReturnAfterCut
CHECK_DEADLOCK FALSE
