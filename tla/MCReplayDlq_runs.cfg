SPECIFICATION Spec
CONSTANTS
    k1 = k1  k2 = k2
    NoHeader = NoHeader
    Task = {k1, k2}
    Letters <- MCLetters
    QueueSize = 1
    MaxTries <- MCTries
    Foreign = 1
    MaxBatch = 2
    MaxRuns = 2
INVARIANTS TypeOK ReturnedStored NothingPassedOver OrderKept ReplayInSourceOrder
CHECK_DEADLOCK FALSE
