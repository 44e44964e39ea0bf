\* Two administrators remove one key each.
SPECIFICATION Spec
CONSTANTS
    r1 = r1  r2 = r2  a1 = a1  a2 = a2  s1 = s1  s2 = s2  old = old
    none = none
    Requests = {r1}
    Admins = {a1, a2}
    Secrets = {s1}
    Unreadable = {}
    NoSecret = none
    Outcomes = {"answer"}
    MaxId = 2
    MaxRestarts = 0
INVARIANT PoolKeepsAKey
