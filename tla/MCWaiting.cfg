SPECIFICATION FairSpec
CONSTANTS
    drift = drift
    p1 = p1
    p2 = p2
    r1 = r1
    Processes = {p1, p2}
    Reconcilers = {r1}
    Playbooks = {drift}
    BookOf <- OneBook
    Unreadable = {}
    Tick = Tick
    None = None
    MaxEdits = 1
    MaxFaults = 1
CONSTRAINT Explored
INVARIANTS
    OneWaiterPerPlaybook
    RunXorRefusal
    LiveWaitNotDropped
    RunsTheClaimedFile
PROPERTIES
    WaitEndsOnce
    WaitEventuallyEnds
