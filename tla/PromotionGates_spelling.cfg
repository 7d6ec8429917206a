SPECIFICATION GatesSpec
CONSTANTS
    Algos = {"PPO"}
    Configured = "PPO"
    Spellings = {"backslashed", "absolute"}
    MinWeeks = 1
    MaxWeeks = 1
    MaxCopies = 1
    Nothing = Nothing
INVARIANT FailedIsAcknowledged
CHECK_DEADLOCK FALSE
