\* Two connections, each opened by either of two users, a handler and a
\* statistics goroutine.
SPECIFICATION Spec
CONSTANTS
    c1 = c1  c2 = c2  u1 = u1  u2 = u2  handler = handler  stats = stats
    none = none
    Conns = {c1, c2}
    Users = {u1, u2}
    Casters = {handler, stats}
    Handlers = {handler}
    BufferSize = 1
    MaxEvents = 2
    Nobody = none
SYMMETRY Symmetric
INVARIANTS
    UnbrokenStream
    NothingMissed
\* A panic stops the process, and connections are not opened again.
CHECK_DEADLOCK FALSE
