SPECIFICATION ReadersSpec
CONSTANTS
    Decision = {x1, x2}
    Day = 3
    Skew = 1
    Window = 5
    OpenTime = 1
    RunTime = 1
    Lateness = 1
    MaxReports = 2
    MaxTime = 7
    Time = {1, 2}
    Id = {1, 2, 3, 4}
    Limit = 2
    MaxVersion = 4
    MaxPages = 4
SYMMETRY DecisionSymmetry
INVARIANTS TypeOK NothingBetweenRuns BreakdownCoversTotal PageTypeOK CompleteWalk CompleteVersionWalk
CHECK_DEADLOCK FALSE
