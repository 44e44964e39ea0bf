\* One slow connection.
SPECIFICATION Spec
CONSTANTS
    c1 = c1  c2 = c2  u1 = u1  u2 = u2  handler = handler  stats = stats
    none = none
    Conns = {c1}
    Users = {u1}
    Casters = {handler, stats}
    Handlers = {handler}
    BufferSize = 1
    MaxEvents = 3
    Nobody = none
INVARIANT NoPanic
\* A panic stops the process, and connections are not opened again.
CHECK_DEADLOCK FALSE
