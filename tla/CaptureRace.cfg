CONSTANTS
    Commands <- MCTwo
    RowCount = 1
    Concurrent = TRUE
SPECIFICATION Spec
INVARIANT
    WrittenIsKept
CHECK_DEADLOCK FALSE
