SPECIFICATION Spec
CONSTANTS
    Threads = {p1, p2}
    NoThread = none
    Channels = {c1}
    Requests <- SlowAndInstant
    MaxGeneration = 2
    MaxNow = 2
CHECK_DEADLOCK FALSE
INVARIANT WorkNotStranded
