SPECIFICATION RankingSpec
CONSTANTS
    d1 = d1
    d2 = d2
    s1 = s1
    Pages <- MCPages
    DRAMPages <- MCDRAMPages
    QueueNum = 3
    LifeTime = 1
    MaxTime = 11
INVARIANTS
    OneEntryPerPage
    FrontExpiresFirst
    CountMatchesLevel
PROPERTIES
    ForgottenOnlyWhenExpired
CHECK_DEADLOCK FALSE
