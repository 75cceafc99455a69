SPECIFICATION MQSpec
CONSTANTS
    NumFrames = 2
    NumChannels = 2
    PromotionChannel = 0
    QueueSize = 2
    MaxRequests = 6
    QueueNum = 2
    LifeTime = 3
    ThresholdQueue = 1
PROPERTIES
    VictimUnused
    ImplementsRanking
    PromotedWhenHot
CHECK_DEADLOCK FALSE
