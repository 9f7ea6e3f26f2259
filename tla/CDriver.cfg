CONSTANTS
    Configs <- MCConfigs
    Sensors <- MCSensors
    Capacities <- MCCapacities
SPECIFICATION FairSpec
INVARIANTS
    StorageContract
PROPERTIES
    ImplementsPythonDriver
    StorageIsModifiedLast
    BiasRecovers
