SPECIFICATION FairSpec
CONSTANTS
    Natives = {n}
    Task = task
    Isr = isr
    AutoMode = TRUE
    MaxUptime = 2
    Boot = 1
    MaxNow = 2
    Amounts = {1}
INVARIANTS
    ReadsMonotone
    UptimeIsAccountedFor
PROPERTIES
    IsrReadReturns
