SPECIFICATION FairSpec
CONSTANTS
    Threads = {p1, p2}
    NoThread = none
    Channels = {c1}
    Requests <- SlowAndInstant
    MaxGeneration = 3
    MaxNow = 2
CHECK_DEADLOCK FALSE
INVARIANTS
    TypeOK
    SingleDeliverer
    QueuedHasFinalizer
    PendingShowsTarget
    OutputSettles
PROPERTIES
    EndsOnce
    ReadbackMonotone
    DueFadeIsQueued
    QueuedIsDrained
