SPECIFICATION Spec
CONSTANTS
    Requests = {c1, c2}
    Users = {u1}
    BarNames = {}
    Passwords = {p1}
    Rests = {r0}
    DefaultRest = r0
    Empty = empty
    MaxSecrets = 2
INVARIANT
    SecretKept
CHECK_DEADLOCK FALSE
