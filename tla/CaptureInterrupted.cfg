CONSTANTS
    Commands <- MCTwo
    RowCount = 1
    Concurrent = FALSE
SPECIFICATION Spec
INVARIANT
    LabelCanBeRetried
CHECK_DEADLOCK FALSE
