SPECIFICATION Spec
CONSTANTS
    Posts = {p}
    Monitors = {m}
    r1 = r1
    a = a
    b = b
    Known <- MCKnown
    NoId = noId
    Addresses <- MCAddresses
    NoAddress = noAddress
    Builtin <- MCBuiltin
    File <- MCFileRepeats
    Customs <- MCCustoms
    Names = {n}
    Slots = 1
    MaxResolvers = 2
    Retry = 1
    TTL = 1
    Size = 1
INVARIANT
    AnswersByAddress
