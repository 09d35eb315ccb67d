SPECIFICATION FairSpec
CONSTANTS
    Jobs = {j1, j2}
    Owners = {o1}
    Nobody = nobody
    Waits = {w1, w2}
    Limit = 1
INVARIANTS
    TypeOK
    ToldOnce
    WorkAccounted
PROPERTIES
    TeardownIsFinal
    DisposalsEnd
CHECK_DEADLOCK FALSE
