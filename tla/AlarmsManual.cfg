SPECIFICATION Spec
CONSTANTS
    Callers = {c1, c2}
    Worker = w
    AutoSync = FALSE
    NanosPerMicro = 2
    MaxTimeAhead = 1
    MaxUptime = 5
    MaxAlarmId = 3
    HostOrigin = 0
    MaxHost = 0
    Deadlines = {1, 2, 3}
    Durations = {1, 2}
    Lags = {1}
SYMMETRY CallerSymmetry
INVARIANTS
    TypeOK
    SingleOwner
    IndexConsistent
    ClaimedIsDueAndGone
    DelayReachesTarget
PROPERTIES
    DelaysAddUp
    ImplementsAlarmService
