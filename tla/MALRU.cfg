SPECIFICATION MALRUSpec
CONSTANTS
    a1 = a1
    a2 = a2
    a3 = a3
    a4 = a4
    Tags <- MCTags
    Other = Other
    assoc = 3
    SAMPLING_INTERVAL = 2
    InitialStacks <- MCInitialStacks
    InitialCounts = {5}
    MaxAccesses = 5
    MSHRs = 2
    MaxInvalidations = 1
INVARIANTS
    OneCopy
    InvalidEvictedFirst
    RecencyOrder
    ResponseExpected
    SamplesInOrder
    DistanceExact
    HistogramMatchesSamples
SYMMETRY MCSymmetry
CHECK_DEADLOCK FALSE
