\* Two administrators, one restart, and every answer an upstream may give.
SPECIFICATION FairSpec
CONSTANTS
    r1 = r1  r2 = r2  a1 = a1  a2 = a2  s1 = s1  s2 = s2  old = old
    none = none
    Requests = {r1}
    Admins = {a1, a2}
    Secrets = {s1, old}
    Unreadable = {old}
    NoSecret = none
    Outcomes = {"answer", "busy", "auth", "neterr"}
    MaxId = 2
    MaxRestarts = 1
PROPERTIES
    RemovalLeavesAKey
    EveryRequestEnds
