\* Every chunking of every body, both handlers, with and without tools.
SPECIFICATION Spec
CONSTANTS
    Streams  <- AnyBody
    Adapters <- AnyAdapter
    MaxPings = 2
INVARIANTS NothingLost PingSplitsNoLine LeakReplaced LoggedAsSeen Terminated
