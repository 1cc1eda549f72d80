SPECIFICATION Spec
CONSTANTS
    MaxEvents = 3
    MaxFaults = 1
    MaxMounts = 1
    Buffer = 1
    ReplayLimit = 2
    Keep = 1
    Batch = 1
INVARIANTS EventTypeOK BoundaryHolds
PROPERTIES ResyncCovers EventsReachTheView
CHECK_DEADLOCK FALSE
