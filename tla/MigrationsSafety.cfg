\* The processes are started a bounded number of times, so all may be off.
CHECK_DEADLOCK FALSE
SPECIFICATION Spec
CONSTANTS
    Processes = {p1, p2}
    NewId = new
    None = None
    MaxStarts = 3
INVARIANTS
    Resumable
    KeysCarriedOnce
    NothingLost
PROPERTY ServedUntouched
