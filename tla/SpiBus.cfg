CONSTANTS
    RawCodes <- MCRawCodes
    RawStatuses <- MCRawStatuses
    Transmissions <- MCTransmissions
    MaxLog = 3
    Contexts = {c1, c2}
    CpuFrequency = 1000
    Requested <- MCRequested
    MaxBegun = 3
    MaxLength = 2
SPECIFICATION Spec
INVARIANTS
    SelectedToTransfer
    BoundBusIsBegun
    ReportedClockIsReal
PROPERTIES
    ImplementsRegisterBus
