\* A refused key is deleted, and a second request arrives.
SPECIFICATION Spec
CONSTANTS
    r1 = r1  r2 = r2  a1 = a1  a2 = a2  s1 = s1  s2 = s2  old = old
    none = none
    Requests = {r1, r2}
    Admins = {a1}
    Secrets = {s1}
    Unreadable = {}
    NoSecret = none
    Outcomes = {"auth"}
    MaxId = 1
    MaxRestarts = 0
PROPERTY RefusedNotFallback
