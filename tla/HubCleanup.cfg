\* Two connections of one user, one broadcaster.
SPECIFICATION FairSpec
CONSTANTS
    c1 = c1  c2 = c2  u1 = u1  u2 = u2  handler = handler  stats = stats
    none = none
    Conns = {c1, c2}
    Users = {u1}
    Casters = {handler}
    Handlers = {handler}
    BufferSize = 1
    MaxEvents = 2
    Nobody = none
PROPERTY DoneIsCleanedUp
\* A panic stops the process, and connections are not opened again.
CHECK_DEADLOCK FALSE
