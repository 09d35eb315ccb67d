SPECIFICATION FairSpec
CONSTANTS
    Agents = {a1}
    Calls = {c1, c2}
    MaxAsks = 2
    MaxAttempts = 3
    Policies <- SmallPolicies
INVARIANTS
    TypeOK
    RetriesNumbered
PROPERTIES
    QuietAfterEnd
    AnswersInPlace
    Settles
