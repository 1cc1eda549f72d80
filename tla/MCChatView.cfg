SPECIFICATION ViewSpec
CONSTANTS
    None = None
    MaxMessages = 2
    MaxRounds = 1
    MaxFaults = 0
    MaxPresses = 0
PROPERTY AnswersShown
CHECK_DEADLOCK FALSE
