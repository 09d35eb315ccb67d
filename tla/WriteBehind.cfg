SPECIFICATION WriteFairSpec
CONSTANTS
    Callers = {c1, c2}
    MaxEvents = 4
INVARIANTS
    WriteStateOK
PROPERTIES
    WritePathHolds
    ImplementsDurableLog
    Drains
