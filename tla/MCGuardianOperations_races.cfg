SPECIFICATION OpsSpec
CONSTANTS
    None = None
    MaxOrders = 1
    RateWindow = 3
    DayLength = 4
    ReminderInterval = 1
    MinHold = 1
    MaxFraction = 50
    LossPct = 20
    DrawdownPct = 20
    StartingEquity = 10
    Fractions <- TargetFractions
    Equities <- ReportedEquities
    Costs <- ProposedCosts
    Drawdowns <- ReportedDrawdowns
    EntryPoints <- LoopOnly
    MaxInFlight = 0
    DiskOutcomes <- Reliable
    MaxTime = 1
    MaxTick = 3
    Workers = {w1, w2}
    MaxResets = 2
    MaxRestarts = 1
INVARIANTS DriftIsFailSafe HaltNotLost
SYMMETRY WorkerSymmetry
CHECK_DEADLOCK FALSE
