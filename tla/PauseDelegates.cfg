CONSTANTS
    router = router
    monitor = monitor
    tick1 = tick1
    tick2 = tick2
    link1 = link1
    link2 = link2
    ticks = ticks
    network = network
    NoAgent = NoAgent
    Agent <- MCAgent
    Event <- MCPair
    Source <- MCSource
    SourceOf <- MCSourceOf
    SequenceOf <- MCSequenceOf
    Interval <- MCInterval
    TargetsOf <- MCRouterOnly
    Filtered <- MCFiltered
    KeyOf <- MCKeyOf
    Bounded <- MCBounded
    DelegateOf <- MCDelegates
    Overflow <- MCOldest
    QueueCapacity <- MCQueueCapacity
    Concurrency <- MCNarrow
    MaxAttempts <- MCMaxAttempts
    Pausable <- MCAgent
    MaxQueued = 1
    MaxConcurrent = 1
SPECIFICATION Spec
PROPERTY
    PauseCoversDelegates
CHECK_DEADLOCK FALSE
