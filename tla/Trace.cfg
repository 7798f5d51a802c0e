SPECIFICATION FairSpec
CONSTANTS
    Root = a
    V4 = {a, b}
    V6 = {s}
    Private = {x}
    Nameservers = {n1, n2}
    None = none
    MaxNS = 2
    MaxTraceSteps = 3
INVARIANTS
    TypeOK
    ChainOfReferrals
    PublicOnly
    StopsForAReason
PROPERTY
    TraceEnds
CHECK_DEADLOCK FALSE
