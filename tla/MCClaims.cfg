SPECIFICATION ClaimsSpec
CONSTANTS
    a = a
    b = b
    m = m
    n = n
    None = None
    Calls = {a, b, m, n}
    DueAt <- EtcdTicks
    Runs = 1
    Watchers = {w}
    fa = fa
    fb = fb
    fd = fd
    fm = fm
    Nobody = Nobody
    Acquires = {fa, fb, fd, fm}
    TickOf <- LockTicks
    Limit = 1
    Per = 1
    Instants = {0, 1, 2}
    ClaimExpiry = 7
    RenewEvery = 3
    RenewBound = 2
    StopBound = 1
    DecisionBound = 1
    MarginFloor = 1
    Effects = 2
    Late = 1
    MaxNow = 12
CHECK_DEADLOCK FALSE
CONSTRAINT Explored
INVARIANTS
    HeldIsCurrent
    SlotOfItsOwn
    NoMissedRelease
    WindowHolds
    DecidesInTime
    LapseOverrunBounded
    LossStopsTheRun
    NoEffectAfterLoss
PROPERTIES
    KeepsTheContract
    AbandonedClaimEnds
    LockKeepsTheContract
    LockComesFree
