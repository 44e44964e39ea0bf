\* One request reads the log while another writes it.
SPECIFICATION Spec
CONSTANTS
    r1 = r1  r2 = r2  r3 = r3 
    Requests = {r1, r2, r3}
    RateLimitRPM = 0
    TotalTokenLimit = 2
    Amounts = {2}
    DbFaults = FALSE
INVARIANT JudgedOnKnownUsage
