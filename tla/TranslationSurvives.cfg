SPECIFICATION CheckpointSpec
CONSTANTS
    NumFrames = 2
    NumChannels = 2
    PromotionChannel = 0
    QueueSize = 2
    MaxRequests = 2
INVARIANTS
    TranslationSurvives
CHECK_DEADLOCK FALSE
