SPECIFICATION Spec
CONSTANTS
    Processes = {p1, p2}
    NoProcess = NoProcess
    MaxEvents = 3
INVARIANTS
    TypeOK
    LogSurvives
PROPERTIES
    NeverClobbered
SYMMETRY Symmetry
CONSTRAINT RacesBeforeDamage
