SPECIFICATION FRFairSpec
CONSTANTS
    BANKS = 2
    x = x
    y = y
    r1 = r1
    w1 = w1
    r2 = r2
    r3 = r3
    NoRow = NoRow
    NoRequest = NoRequest
    Rows <- MCRows
    Requests <- MCRequests
    BankOf <- MCBankOf
    RowOf <- MCRowOf
    IsRead <- MCIsRead
    Queues <- MCQueues
    StarvationThreshold = 1
    DelayedRefreshThreshold = 1
    MaxCancellations = 2
    Parameters <- MCParameters
    QueueSize = 2
    MaxPulses = 1
INVARIANTS
    BeliefMatchesBanks
    RefreshFlagsMatch
    OnePlace
PROPERTIES
    RequestsAnswered
CHECK_DEADLOCK FALSE
