SPECIFICATION Spec
CONSTANTS
    Clients = {k1, k2}
    None = none
    Unit = 2
    Rate = 1
    Burst = 5
    Cutoff = 2
INVARIANTS
    TypeOK
    WindowBound
PROPERTY
    IsTokenBucket
