SPECIFICATION FairSpec
CONSTANTS
    NumFrames = 2
    NumChannels = 3
    PromotionChannel = 0
    QueueSize = 2
    MaxRequests = 4
INVARIANTS
    NoRequestLost
    NoOverwriteBeforeRead
    ChannelsBalanced
    SwapInv
PROPERTIES
    DoneIsFinal
    ImplementsSwap
    MigrationEnds
CHECK_DEADLOCK FALSE
