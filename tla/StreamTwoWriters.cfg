\* A keepalive tick meets an error body or the handler's return.
SPECIFICATION Spec
CONSTANTS
    Streams  <- ChatBodies
    Adapters <- AnyAdapter
    MaxPings = 1
INVARIANT OneAtTheWriter
