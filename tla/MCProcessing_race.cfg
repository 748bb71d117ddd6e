SPECIFICATION Spec
CONSTANTS
    p1 = p1  p2 = p2  t1 = t1  t2 = t2  t3 = t3
    d1 = d1  d2 = d2  d3 = d3  d4 = d4  u1 = u1  u2 = u2  r1 = r1  r2 = r2
    Nobody = Nobody
    Partition = {p1, p2}
    Transaction = {t1, t2, t3}
    Data = {d1, d2, d3, d4}
    Log <- MCLog
    Session = {s1, s2}
    RuleSet = {r1, r2}
    UserOf <- MCUserOf
    OccurredAt <- MCOccurredAt
    Window <- MCWindow
    MaxGiveUps = 1
SYMMETRY SessionSymmetry
INVARIANTS TypeOK ExistingFound ResultTrue VelocityExact
PROPERTIES ImplementsContract
