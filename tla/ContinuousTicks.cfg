CONSTANTS
    router = router
    monitor = monitor
    tick1 = tick1
    tick2 = tick2
    link1 = link1
    link2 = link2
    ticks = ticks
    network = network
    NoAgent = NoAgent
    Agent <- MCAgent
    Event <- MCTicks
    Source <- MCSource
    SourceOf <- MCSourceOf
    SequenceOf <- MCSequenceOf
    Interval <- MCInterval
    TargetsOf <- MCLinkBoth
    Filtered <- MCFiltered
    KeyOf <- MCKeyOf
    Bounded <- MCBounded
    DelegateOf <- MCDelegates
    Overflow <- MCOldest
    QueueCapacity <- MCQueueCapacity
    Concurrency <- MCWide
    MaxAttempts <- MCNoRestarts
    Pausable <- MCNone
    MaxQueued = 1
    MaxConcurrent = 2
SPECIFICATION Spec
INVARIANTS
    StoppedIsQuiet
    OneBoundedTick
CHECK_DEADLOCK FALSE
