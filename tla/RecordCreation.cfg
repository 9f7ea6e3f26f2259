CONSTANTS
    Creators <- MCCreators
    Captures <- MCCaptures
    MaxCommits = 1
SPECIFICATION Spec
INVARIANTS
    CreatedIsKept
    NothingIsStranded
PROPERTIES
    AcceptedIsInitialized
CHECK_DEADLOCK FALSE
