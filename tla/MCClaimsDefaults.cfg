SPECIFICATION ClaimsSpec
CONSTANTS
    a = a
    b = b
    m = m
    n = n
    None = None
    Calls = {a, b, m, n}
    DueAt <- EtcdTicks
    Runs = 1
    Watchers = {w}
    fa = fa
    fb = fb
    fd = fd
    fm = fm
    Nobody = Nobody
    Acquires = {fa, fb, fd, fm}
    TickOf <- LockTicks
    Limit = 1
    Per = 1
    Instants = {0, 1, 2}
    ClaimExpiry = 30
    RenewEvery = 5
    RenewBound = 4
    StopBound = 10
    DecisionBound = 5
    MarginFloor = 2
    Effects = 1
    Late = 0
    MaxNow = 33
CHECK_DEADLOCK FALSE
CONSTRAINT StillGathering
INVARIANTS
    OverBeforeLapse
