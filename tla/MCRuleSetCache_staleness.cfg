SPECIFICATION Spec
CONSTANTS
    pod1 = pod1
    Pod = {pod1}
    Reader = {r1, r2}
    PodOf <- OnePod
    Publisher = {q1, q2}
    LocalTTL = 1
    RedisTTL = 2
    OpDelay = 0
    MaxVersion = 2
    MaxTime = 4
SYMMETRY CacheSymmetry
INVARIANTS TypeOK StalenessBound VersionHistory
