SPECIFICATION EQSpec
CONSTANTS
    cleanup = cleanup
    response1 = response1
    response2 = response2
    refresh = refresh
    Events <- MCEvents
    Priority <- MCPriority
    MaxCycle = 3
    MaxDelay = 2
    MaxSteps = 2
INVARIANTS
    NextIsEarliest
PROPERTIES
    TimeAdvances
    ImplementsTimedEvents
CHECK_DEADLOCK FALSE
