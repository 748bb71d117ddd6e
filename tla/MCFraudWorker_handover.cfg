SPECIFICATION Spec
CONSTANTS
    t1 = t1  d1 = d1  d2 = d2
    Nobody = Nobody
    Worker = {w1, w2}
    Partition = {p1}
    Transaction = {t1}
    Data = {d1, d2}
    Verdict = {v1}
    Log <- LogConflict
    HighWatermark = 1
    MaxUnexpected = 1
    BackoffLimit = 1
    MaxFaults = 1
    MaxSurprises = 1
    MaxChurn = 2
SYMMETRY WorkerSymmetry
INVARIANTS TypeOK NoLoss InOrder NoStuckPause BacklogBounded AuditExact PermanentNotRecorded
PROPERTIES CommitNeverBackward ImplementsContract FirstDecisionWins
CHECK_DEADLOCK FALSE
