\* A failure found after the header is out.
SPECIFICATION Spec
CONSTANTS
    Streams  <- ChatBodies
    Adapters <- AnyAdapter
    MaxPings = 1
INVARIANT InterruptionIs503
