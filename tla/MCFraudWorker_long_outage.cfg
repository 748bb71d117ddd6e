SPECIFICATION FairSpec
CONSTANTS
    t1 = t1  d1 = d1  d2 = d2
    Nobody = Nobody
    Worker = {w1}
    Partition = {p1}
    Transaction = {t1}
    Data = {d1, d2}
    Verdict = {v1}
    Log <- LogSingle
    HighWatermark = 1
    MaxUnexpected = 1
    BackoffLimit = 2
    MaxFaults = 3
    MaxSurprises = 0
    MaxChurn = 0
PROPERTIES RetriesForever
CHECK_DEADLOCK FALSE
