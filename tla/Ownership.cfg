CONSTANTS
    o1 = o1
    o2 = o2
    c1 = c1
    c2 = c2
    p1 = p1
    p2 = p2
    NoOne = NoOne
    Owners <- MCOwners
    Callers <- MCCallers
    Procs <- MCProcs
    MaxFaults = 1

SPECIFICATION Spec

CHECK_DEADLOCK FALSE

INVARIANTS
    NetworkIsRecorded
    StoppedIsGone

PROPERTIES
    DeletesOwnNetwork
    CallsEnd
