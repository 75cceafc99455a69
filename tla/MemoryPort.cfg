SPECIFICATION FairSpec
CONSTANTS
    r1 = r1
    r2 = r2
    w1 = w1
    b1 = b1
    o1 = o1
    i1 = i1
    NoPacket = NoPacket
    Reads = {r1, r2}
    Writes = {w1}
    Writebacks = {b1}
    Others = {o1}
    Inhibited = {}
    QueueSize = 2
    MaxMigrations = 1
INVARIANTS
    AnsweredOnce
    RetryIsComing
    ClockRuns
    ResponseScheduled
PROPERTIES
    AllAnswered
    SenderGoesOn
