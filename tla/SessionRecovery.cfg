SPECIFICATION FairSpec
CONSTANTS
    MaxTurns = 2
    MaxSteps = 1
    MaxCalls = 2
    MaxCrashes = 2
INVARIANTS
    TypeOK
    EffectsSurvive
    TranscriptHolds
PROPERTIES
    RecoveryConverges
CHECK_DEADLOCK FALSE
