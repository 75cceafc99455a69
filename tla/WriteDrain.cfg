SPECIFICATION WDFairSpec
CONSTANTS
    BANKS = 2
    x = x
    y = y
    r1 = r1
    r2 = r2
    w1 = w1
    w2 = w2
    w3 = w3
    NoRow = NoRow
    NoRequest = NoRequest
    Rows <- MCRows
    Requests <- MCRequests
    BankOf <- MCBankOf
    RowOf <- MCRowOf
    IsRead <- MCIsRead
    Queues <- MCQueues
    StarvationThreshold = 1
    DelayedRefreshThreshold = 1
    MaxCancellations = 2
    Parameters <- MCParameters
    ReadQueueSize = 2
    WriteQueueSize = 2
    HighConfigured = 2
    LowConfigured = 0
INVARIANTS
    NoWriteInterrupted
PROPERTIES
    ReadsAnswered
    DrainedOutsideDrain
CHECK_DEADLOCK FALSE
