CONSTANTS
    a = a
    b = b
    never = never
    Playbooks = {a, never}
    Occurs <- WithNever
    CatchUpLimit = 2
    MaxJumps = 0
    MaxNow = 2
    MaxStarts = 1
    MaxOverflow = 4
SPECIFICATION FairSpec
CHECK_DEADLOCK FALSE
PROPERTY DueIsTakenUp
