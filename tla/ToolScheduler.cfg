SPECIFICATION FairSpec
CONSTANTS
    N = 4
    MaxParallel = 2
INVARIANTS
    TypeOK
PROPERTIES
    GroupsHold
    ImplementsOrderedCalls
    Settles
CHECK_DEADLOCK FALSE
