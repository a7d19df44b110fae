SPECIFICATION Spec
CONSTANTS
    Tasks = {t1, t2}
    Natives = {n}
    Isr = isr
    NoThread = none
    NumSlots = 1
    MaxGeneration = 2
    MaxNesting = 1
    WeakOrder = TRUE
SYMMETRY TaskSymmetry
INVARIANTS
    TypeOK
    OneTaskExecutes
    NestingDescribesTask
    HandlerIsLive
    NoStaleDelivery
    NothingLost
