SPECIFICATION Spec
CONSTANTS
    a1 = a1  a2 = a2
    Request = {q1, q2, q3}
    Subject = {s1}
    Replica = {a1}
    Offset <- SameClock
    Spread = 0
    FlightTime = 4
    MaxRequests = 1
    WindowSeconds = 4
    KeySlack = 2
    MaxTime = 7
SYMMETRY LimiterSymmetry
INVARIANTS TwoBudgets
CHECK_DEADLOCK FALSE
