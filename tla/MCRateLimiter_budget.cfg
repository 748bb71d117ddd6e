SPECIFICATION Spec
CONSTANTS
    a1 = a1  a2 = a2
    Request = {q1, q2, q3}
    Subject = {s1, s2}
    Replica = {a1, a2}
    Offset <- MCOffset
    Spread = 1
    FlightTime = 2
    MaxRequests = 1
    WindowSeconds = 2
    KeySlack = 1
    MaxTime = 4
SYMMETRY LimiterSymmetry
INVARIANTS TypeOK BudgetHolds WindowBudget LimitDeserved
CHECK_DEADLOCK FALSE
