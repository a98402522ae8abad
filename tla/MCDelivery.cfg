SPECIFICATION Spec
CONSTANTS
    None = None
    Requests = {r1, r2, r3}
    Processes = {s1, s2, s3}
    Playbooks = {p, q}
    Bound <- AllBound
    Window = 1
    Instants = {0, 1}
    MaxFailures = 1
CHECK_DEADLOCK FALSE
CONSTRAINT Explored
SYMMETRY Symmetric
INVARIANTS
    DecidedOnce
    HandedOffIsDecided
    AcceptedIsRecorded
PROPERTIES
    OnePerWindow
