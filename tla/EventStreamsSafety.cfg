\* The handler returns when the body has ended: the system may stop there.
CHECK_DEADLOCK FALSE
SPECIFICATION Spec
CONSTANTS
    MaxLines = 5
    MaxInRead = 2
    MaxCalls = 2
INVARIANTS
    ItemsFollow
    DeltasAddUp
    AllDelivered
    RefusedClean
    MessageShape
    Charged
