CONSTANTS
    Connections <- MCConnections
    Requests <- MCRequests
    MaxClock = 5
SPECIFICATION FairSpec
INVARIANTS
    DriverTransactionsAreCompatible
    ClosedIsReleased
PROPERTIES
    FailedOpenReleases
    InsistingReleases
    ImplementsSpiConnection
CHECK_DEADLOCK FALSE
