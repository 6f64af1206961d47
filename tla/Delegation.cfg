CONSTANTS
    r1 = r1
    r2 = r2
    Documents <- MCDocuments
    Hash <- MCHash
    Slug <- MCSlug
    Request <- MCRequest
    MaxDpid = 4
    MaxSuffix = 2
    MaxFaults = 1
SPECIFICATION FairSpec
INVARIANTS
    PlanIsConsistent
    ExhaustionIsReal
    PlanIsExecutable
    Accounted
PROPERTIES
    RequestsEnd
CHECK_DEADLOCK FALSE
