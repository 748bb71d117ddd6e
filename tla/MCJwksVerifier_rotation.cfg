SPECIFICATION Spec
CONSTANTS
    Nobody = Nobody
    Thread = {h1, h2}
    Kid = {k1, k2}
    MinInterval = 2
    FetchTime = 1
    MaxTime = 4
SYMMETRY JwksSymmetry
INVARIANTS TypeOK RotationNoticed SuccessThrottles
