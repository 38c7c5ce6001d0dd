\* One start of the daemon with up to three settings, or three starts with few.
SPECIFICATION Spec
CONSTANTS
    Instances = {1, 2, 3}
    Scenarios <- MCScenarios
INVARIANTS
    TypeOK
    ConfigIsResolved
    ServesItsSocket
    StaleSocketIsNoObstacle
    FilesOutliveOnlyCrashes
    PanicIsAskedFor
CHECK_DEADLOCK FALSE
