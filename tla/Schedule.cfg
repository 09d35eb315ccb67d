SPECIFICATION ScheduleFairSpec
CONSTANTS
    MaxCalls = 2
    Horizon = 2
    Intervals = {1}
    MaxDelay = 1
    InitialLogs <- Logs
    MaxActivity = 2
    MaxTroubles = 1
INVARIANTS
    ScheduleTypeOK
    RemindersHold
PROPERTIES
    GoesOut
CHECK_DEADLOCK FALSE
