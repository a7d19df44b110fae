SPECIFICATION FairSpec
CONSTANTS
    Tasks = {t1, t2}
    Natives = {n}
    Isr = isr
    NoThread = none
    NumSlots = 1
    MaxGeneration = 1
    MaxNesting = 0
    WeakOrder = FALSE
INVARIANTS
    NothingStranded
PROPERTIES
    PendingIsDelivered
