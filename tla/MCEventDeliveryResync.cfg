SPECIFICATION Spec
CONSTANTS
    MaxEvents = 3
    MaxFaults = 0
    MaxMounts = 1
    Buffer = 1
    ReplayLimit = 3
    Keep = 1
    Batch = 1
PROPERTY ResyncEnds
CHECK_DEADLOCK FALSE
