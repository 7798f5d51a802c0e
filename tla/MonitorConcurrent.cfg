SPECIFICATION HSpec
CONSTANTS
    Requests = {c1, c2}
    Ids = {m1}
    Ops = {"create", "update", "run", "delete"}
    ValueLists = {none, a, b}
    NoValues = none
    Resolvers = {r1, r2}
    Bindings = {TRUE}
    MaxRequests = 4
    MaxFaults = 1
INVARIANTS
    TypeOK
    PropagationHasExpected
    NotifiedWasSent
    ChangeAlertsOnce
    DeletedStays
    BaselineRecorded
CHECK_DEADLOCK FALSE
