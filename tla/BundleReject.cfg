CONSTANTS
    i1 = i1
    i2 = i2
    r1 = r1
    s1 = s1
    s2 = s2
    route = route
    backup = backup
    run = run
    NoResponse = NoResponse
    StateKey <- MCStateKey
    Target <- MCTarget
    Effect <- MCEffect
    Namespace <- MCNamespace
    NamespaceOf <- MCNamespaceOf
    Limit <- MCLimit
    MaxVersion = 4
    Invocation <- MCInvocation
    Request <- MCRequest
    RequestOf <- MCRequestOf
    PriorityOf <- MCPriorityOf
    Response <- MCResponse
    Policy = "reject"
SPECIFICATION Spec
INVARIANT
    BundleStops
CHECK_DEADLOCK FALSE
