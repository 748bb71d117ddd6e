SPECIFICATION FairSpec
CONSTANTS
    t1 = t1  d1 = d1  d2 = d2
    Nobody = Nobody
    Worker = {w1, w2}
    Partition = {p1}
    Transaction = {t1}
    Data = {d1, d2}
    Verdict = {v1}
    Log <- LogGarbage
    HighWatermark = 1
    MaxUnexpected = 2
    BackoffLimit = 4
    MaxFaults = 1
    MaxSurprises = 2
    MaxChurn = 1
INVARIANTS OutageNeverDeadLetters
PROPERTIES EveryMessageHandled
CHECK_DEADLOCK FALSE
