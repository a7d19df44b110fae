SPECIFICATION Spec
CONSTANTS
    Callers = {c1}
    Worker = w
    AutoSync = TRUE
    NanosPerMicro = 1
    MaxTimeAhead = 1
    MaxUptime = 3
    MaxAlarmId = 2
    HostOrigin = 1
    MaxHost = 2
    Deadlines <- PastAndAhead
    Durations = {2}
    Lags = {1}
PROPERTIES
    ImplementsAlarmService
