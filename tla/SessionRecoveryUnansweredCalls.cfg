SPECIFICATION Spec
CONSTANTS
    MaxTurns = 1
    MaxSteps = 1
    MaxCalls = 1
    MaxCrashes = 1
INVARIANTS
    UnansweredCallsClosed
CHECK_DEADLOCK FALSE
