SPECIFICATION Spec
CONSTANTS
    None = None
    MaxMessages = 3
    MaxRounds = 2
    MaxFaults = 1
INVARIANTS ChatTypeOK QueueServed
PROPERTIES TurnsInOrder EveryMessageTurns
CHECK_DEADLOCK FALSE
