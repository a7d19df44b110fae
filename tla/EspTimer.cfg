SPECIFICATION Spec
CONSTANTS
    Tasks = {t1, t2}
    Natives = {n}
    FirstTask = t1
    DriverTasks = {t2}
    Raisers = {n}
    DriverSources = {gpio}
    DriverRequests <- SharedHandlers
    Filters = {bit}
    NumVectors = 2
    NumRecords = 2
    MaxVectorEpoch = 2
    MaxSlotGeneration = 2
    MaxRecordEpoch = 1
    TimerTasks = {t1}
    Deliverers = {n}
    NoContext = none
    TimerSource = timer
    MaxGeneration = 2
INVARIANTS
    TypeOK
    MatchedIsServed
    EnablementAgrees
    AssertsOwnVector
    AlarmsAccountedFor
    CompareNotLost
PROPERTIES
    ServedOnce
    ImplementsOneShotTimer
