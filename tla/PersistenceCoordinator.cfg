SPECIFICATION FairSpec
CONSTANTS
    Callers = {c1, c2}
    Calls = {"prepare", "load", "inspect", "append"}
    MaxEvents = 1
    MaxTroubles = 1
INVARIANTS
    TypeOK
    HoldersOwnTheLog
PROPERTIES
    AnswersMatchStorage
    CallsEnd
CHECK_DEADLOCK FALSE
