\* Two clients and two accounts, or one with reset codes or a second factor.
SPECIFICATION FairSpec
CONSTANTS
    u1 = u1  u2 = u2  c1 = c1  c2 = c2  s1 = s1  s2 = s2  k1 = k1  x1 = x1  x2 = x2
    p1 = p1  p2 = p2  wrong = wrong  none = none
    Users = {u1, u2}
    Populations <- People
    Clients = {c1, c2}
    Passwords = {p1}
    Secrets = {s1, s2}
    Codes = {k1}
    ResetCodes = {x1, x2}
    Wrong = wrong
    None = none
    DbFaults = TRUE
INVARIANTS
    AnAdminRemains
    LatecomersAreUsers
    RecoveryCodeOnce
    FactorIsUsable
PROPERTIES
    ResetOnce
    DemotionTakesEffect
\* Every account may be gone, when administrators delete each other at once.
CHECK_DEADLOCK FALSE
