SPECIFICATION Spec
CONSTANTS
    Requests = {c1, c2}
    Users = {u1, u2}
    BarNames = {u2}
    Passwords = {p1}
    Rests = {r0}
    DefaultRest = r0
    Empty = empty
    MaxSecrets = 2
INVARIANTS
    TypeOK
    EnabledHasCredentials
    SessionsHold
PROPERTY
    LoginKeepsSettings
SYMMETRY Symmetry
CHECK_DEADLOCK FALSE
