SPECIFICATION Spec
CONSTANTS
    Requests = {c1, c2}
    Ids = {m1}
    Ops = {"create", "run", "delete"}
    ValueLists = {none, a, b}
    NoValues = none
    Resolvers = {r1, r2}
    Bindings = {TRUE}
    MaxRequests = 3
    MaxFaults = 0
INVARIANT
    DeletedForGood
CHECK_DEADLOCK FALSE
