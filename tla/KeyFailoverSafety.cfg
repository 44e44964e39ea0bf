\* Two requests race with each other and with one administrator.
SPECIFICATION Spec
CONSTANTS
    r1 = r1  r2 = r2  a1 = a1  a2 = a2  s1 = s1  s2 = s2  old = old
    none = none
    Requests = {r1, r2}
    Admins = {a1}
    Secrets = {s1, s2}
    Unreadable = {}
    NoSecret = none
    Outcomes = {"answer", "auth", "neterr"}
    MaxId = 2
    MaxRestarts = 0
SYMMETRY Symmetric
INVARIANTS
    TypeOK
    NoBodyForgotten
    SpreadStarts
    RefusedStaysOut
    DeactivatesRefusedKey
PROPERTY ImplementsContract
