SPECIFICATION Spec
CONSTANTS
    pod1 = pod1
    Pod = {pod1}
    Reader = {r1, r2}
    PodOf <- OnePod
    Publisher = {q1}
    LocalTTL = 1
    RedisTTL = 4
    OpDelay = 1
    MaxVersion = 2
    MaxTime = 6
SYMMETRY CacheSymmetry
INVARIANTS PromptSwitch
