CONSTANTS
    Configs <- MCConfigs
    Sensors <- MCSensors
SPECIFICATION FairSpec
INVARIANTS
    TypeOK
    DriverOwnedRegisters
    ProtocolIsAccepted
    FlagMatchesStatus
PROPERTIES
    ImplementsAcquisitionDevice
    NothingIsPremature
    ReadLeavesBiasOff
    OriginalErrorSurvives
    ReadTerminates
    BiasRecovers
