SPECIFICATION FairSpec
CONSTANTS
    Messages = {m1, m2}
    LastTurn = 1
    MaxSteps = 2
INVARIANTS
    TypeOK
    LogWellFormed
    OnePlace
PROPERTIES
    StopsAreKept
    Converges
CHECK_DEADLOCK FALSE
