SPECIFICATION FairSpec
CONSTANTS
    N = 3
    PerResolverConcurrency = 2
    ResultCap = 1
INVARIANTS
    TypeOK
    PersistedComplete
    NoSendAfterClose
    DoneAfterEveryResult
PROPERTY
    IsStreamedCheck
    ReleasedUnlessStalled
CHECK_DEADLOCK FALSE
