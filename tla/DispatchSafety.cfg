\* The administrator's operations and the request are bounded, so all may be done.
CHECK_DEADLOCK FALSE
SPECIFICATION FairSpec
CONSTANTS
    Users = {u1}
    Sessions = {1, 2}
    Requests = {r1}
    RealKeys = {a, b}
    CustomKeys = {c}
    Models = {m1}
    Asked = {a, c}
    Lists = {{}, {1, 3}}
    None = None
    MaxIds = 4
    MaxRows = 5
    MaxEdits = 2
    DbFaults = TRUE
INVARIANTS
    SentWhereAllowed
    SentAsNamed
    PriceKept
PROPERTIES
    RequestsEnd
