SPECIFICATION FairSpec
CONSTANTS
    Callers = {c1}
    Worker = w
    AutoSync = TRUE
    NanosPerMicro = 1
    MaxTimeAhead = 1
    MaxUptime = 3
    MaxAlarmId = 1
    HostOrigin = 0
    MaxHost = 2
    Deadlines = {1}
    Durations = {}
    Lags = {}
PROPERTIES
    AutoAlarmsLeaveTheQueue
