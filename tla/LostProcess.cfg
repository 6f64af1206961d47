CONSTANTS
    o1 = o1
    o2 = o2
    c1 = c1
    c2 = c2
    p1 = p1
    p2 = p2
    NoOne = NoOne
    Owners <- OneOwner
    Callers <- OneCaller
    Procs <- TwoProcs
    MaxFaults = 0

SPECIFICATION Spec

CHECK_DEADLOCK FALSE

INVARIANT
    RecordOwnsProcesses
