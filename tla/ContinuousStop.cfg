CONSTANTS
    router = router
    monitor = monitor
    tick1 = tick1
    tick2 = tick2
    link1 = link1
    link2 = link2
    ticks = ticks
    network = network
    NoAgent = NoAgent
    Agent <- MCAgent
    Event <- MCLinks
    Source <- MCSource
    SourceOf <- MCSourceOf
    SequenceOf <- MCSequenceOf
    Interval <- MCInterval
    TargetsOf <- MCRouterOnly
    Filtered <- MCFiltered
    KeyOf <- MCKeyOf
    Bounded <- MCBounded
    DelegateOf <- MCDelegates
    Overflow <- MCCoalesce
    QueueCapacity <- MCQueueCapacity
    Concurrency <- MCNarrow
    MaxAttempts <- MCMaxAttempts
    Pausable <- MCPausable
    MaxQueued = 2
    MaxConcurrent = 1
SPECIFICATION FairSpec
INVARIANTS
    DrainDropsNothing
    WithinBudget
PROPERTIES
    StopEnds
CHECK_DEADLOCK FALSE
