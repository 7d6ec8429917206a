SPECIFICATION OrdersSpec
CONSTANTS
    \* RiskGuardian
    None = None
    MaxOrders = 2
    RateWindow = 3
    DayLength = 4
    ReminderInterval = 2
    MinHold = 2
    MaxFraction = 50
    LossPct = 20
    DrawdownPct = 20
    StartingEquity = 10
    Fractions <- TargetFractions
    Equities <- EquitiesAroundTheLimit
    Costs <- ProposedCosts
    Drawdowns = {0}
    EntryPoints <- EveryCaller
    MaxInFlight = 1
    DiskOutcomes <- Reliable
    MaxTime = 3
    MaxTick = 4
    \* LiveExchangeBridge
    NoPrice = NoPrice
    InitialBase = 0
    InitialCash = 2
    Prices = {1, 2}
    Fees = {1}
    Targets <- WholeHalfShort
    Deposits = {1}
    Faults <- Unreliable
    MaxSubmits = 2
    MaxDeposits = 1
INVARIANTS RateLimit DriftHasACause
PROPERTY EventuallyAgrees
CHECK_DEADLOCK FALSE
