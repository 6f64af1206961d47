CONSTANTS
    router = router
    monitor = monitor
    j1 = j1
    j2 = j2
    j3 = j3
    tick = tick
    Agent <- MCAgent
    Job <- MCJob
    AgentOf <- MCAgentOf
    MaxAttempts <- MCMaxAttempts
    Tolerant <- MCTolerant
SPECIFICATION Spec
INVARIANTS
    RestartOwned
    RestartBudget
PROPERTY
    NoResurrection
CHECK_DEADLOCK FALSE
