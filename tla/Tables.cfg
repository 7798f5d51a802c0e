SPECIFICATION FairSpec
CONSTANTS
    Requests = {r1, r2}
    Scripts = 2
    MaxStarts = 2
    MaxIds <- MCMaxIds
    MaxLimit = 2
    DefaultLimit = 1
    MaxTime = 1
INVARIANTS
    TypeOK
    GraceKept
    ServedReady
    AckedKept
    RevivedOnlyByOverlap
    ColumnsAgree
    PagedAll
PROPERTY StopReturns
CHECK_DEADLOCK FALSE
