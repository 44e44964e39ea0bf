\* Three requests under both limits.
SPECIFICATION FairSpec
CONSTANTS
    r1 = r1  r2 = r2  r3 = r3 
    Requests = {r1, r2, r3}
    RateLimitRPM = 2
    TotalTokenLimit = 2
    Amounts = {0, 2}
    DbFaults = TRUE
INVARIANTS
    OvershootBounded
    NeverOvercharged
PROPERTY EventuallyConsistent
