SPECIFICATION BankSpec
CONSTANTS
    r1 = r1
    r2 = r2
    w1 = w1
    w2 = w2
    Rows = {r1, r2}
    NoRow = NoRow
    Writes = {w1, w2}
    NoWrite = NoWrite
    MaxCancellations = 2
    CycleWidth = 16
    Parameters <- MCParameters
INVARIANTS OneCompletion WriteTimeCovered
PROPERTIES ImplementsRowBuffer
