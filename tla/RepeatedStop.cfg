CONSTANTS
    o1 = o1
    o2 = o2
    c1 = c1
    c2 = c2
    p1 = p1
    p2 = p2
    NoOne = NoOne
    Owners <- OneOwner
    Callers <- MCCallers
    Procs <- MCProcs
    MaxFaults = 0

SPECIFICATION Spec

CHECK_DEADLOCK FALSE

PROPERTY
    RepeatedStopIdempotent
