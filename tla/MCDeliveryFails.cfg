SPECIFICATION FairSpec
CONSTANTS
    None = None
    Requests = {r1}
    Processes = {s1}
    Playbooks = {p, q}
    Bound <- AllBound
    Window = 1
    Instants = {0}
    MaxFailures = 1
CHECK_DEADLOCK FALSE
PROPERTIES
    HandedToEach
