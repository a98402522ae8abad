CONSTANTS
    a = a
    b = b
    never = never
    Playbooks = {a, b}
    Occurs <- TwoSchedules
    CatchUpLimit = 2
    MaxNow = 4
    MaxStarts = 1
    MaxJumps = 1
    MaxOverflow = 4
SPECIFICATION FairSpec
CHECK_DEADLOCK FALSE
INVARIANTS EachAccountedFor
PROPERTIES FiredOnceInOrder DueIsTakenUp
