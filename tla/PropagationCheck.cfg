SPECIFICATION FairSpec
CONSTANTS
    Posts = {p}
    Monitors = {m}
    r1 = r1
    a = a
    b = b
    Known <- MCKnown
    NoId = noId
    Addresses <- MCAddresses
    NoAddress = noAddress
    Builtin <- MCBuiltin
    File <- MCFile
    Customs <- MCCustoms
    Names = {n}
    Slots = 2
    MaxResolvers = 3
    Retry = 1
    TTL = 1
    Size = 1
INVARIANTS
    TypeOK
    OwnAnswers
    CachedIsRecent
    MonitorsLive
PROPERTY
    EveryCheckReturns
