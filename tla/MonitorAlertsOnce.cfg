SPECIFICATION Spec
CONSTANTS
    Requests = {c1, c2}
    Ids = {m1}
    Ops = {"create", "run"}
    ValueLists = {none, a, b}
    NoValues = none
    Resolvers = {r1, r2}
    Bindings = {TRUE}
    MaxRequests = 3
    MaxFaults = 0
INVARIANT
    AlertsOnce
CHECK_DEADLOCK FALSE
