SPECIFICATION Spec
CONSTANTS
    MaxRounds = 2
    MaxChanges = 3
    MaxDisturbances = 0
    UpstreamHooks = TRUE
INVARIANT RoundsReplay
CHECK_DEADLOCK FALSE
