CONSTANTS
    MaxEvents = 3
    perPage = 2
    maxPages = 1
    MaxClosings = 1
    MaxRuns = 2
    Setups <- AllSetups
SPECIFICATION Spec
CHECK_DEADLOCK FALSE
INVARIANTS
    AcceptedIsBound
    DeliveredIsChecked
    CreatedIsCapped
PROPERTY RunEnds
