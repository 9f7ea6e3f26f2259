CONSTANTS
    Creators <- MCCreators
    Captures <- MCCaptures
    MaxCommits = 1
SPECIFICATION Spec
PROPERTIES
    CleanCommitIsTheSource
CHECK_DEADLOCK FALSE
