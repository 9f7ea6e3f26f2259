CONSTANTS
    Commands <- MCThree
    RowCount = 2
    Concurrent = FALSE
SPECIFICATION FairSpec
INVARIANTS
    ManifestCommitsCapture
    WrittenIsKept
    NothingIsStranded
    OutputsHoldEveryRow
    DeviceIsReleased
PROPERTIES
    ExecutionsEnd
CHECK_DEADLOCK FALSE
