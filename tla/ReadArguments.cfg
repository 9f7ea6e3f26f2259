CONSTANTS
    UintMax = 65535
    MillisecondUs = 1000
    AvrUintMax = 1023
    References <- MCReferences
    Thresholds <- MCThresholds
    AdcBits = 4
    CPrecision = 5
    PythonPrecision = 7
    MaxExponent = 14
SPECIFICATION MCSpec
INVARIANTS
    WaitsAreExact
    OnlyUnrepresentableIsRefused
    WithinOneCode
    CWindowIsInside
CHECK_DEADLOCK FALSE
