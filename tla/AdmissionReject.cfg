CONSTANTS
    i1 = i1
    i2 = i2
    i3 = i3
    r1 = r1
    r2 = r2
    k1 = k1
    s1 = s1
    s2 = s2
    Policy = "reject"
    Invocation <- MCInvocation
    Request <- MCRequest
    RequestOf <- MCRequestOf
    PriorityOf <- MCPriorityOf
    StateKey <- MCStateKey
    Target <- MCTarget
    Effect <- MCEffect
    Decision <- MCDecision
SPECIFICATION FairSpec
INVARIANTS
    VerdictStands
    RequestHistoryConflictFree
    NoLostWakeup
CHECK_DEADLOCK FALSE
