SPECIFICATION FairSpec
CONSTANTS
    InitialBackoff = 1
    MaxBackoff = 2
    Multiplier = 2
    MaxRestarts = 2
    Window = 3
    Faults = {}
    MaxOrphans = 1
PROPERTY EndsAreAnswered
CHECK_DEADLOCK FALSE
