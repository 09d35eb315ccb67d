SPECIFICATION FairSpec
CONSTANTS
    MaxRounds = 2
    MaxChanges = 3
    MaxDisturbances = 2
    UpstreamHooks = FALSE
INVARIANTS
    TypeOK
PROPERTIES
    RoundsAreCurrent
    KeepsGoing
CHECK_DEADLOCK FALSE
