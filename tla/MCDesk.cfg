CONSTANTS
    \* DepthFeed
    Levels = {p, q}
    Clients = {"live", "collector"}
    RestLag = 1
    MaxResyncs = 1
    MaxUpdates = 4
    MaxBreaks = 1
    MaxRestFails = 1
    \* TradeDesk
    FeedKinds = {"real", "synthetic"}
    Sleeves = 2
    Interval <- SameInterval
    PositionLimit <- SameLimit
    Whole = 3
    ExposureLimit = 3
    WarmUp = 1
    CheckEvery = 2
    MaxQueued = 1
    MaxRaises = 1
    MaxOperations = 1
    \* CapitalAllocation
    Instruments = 3
    Scores = {0, 1}
    FullScore = 1
    MinObservations = 1
    MinDwell = 2
    Pool = 7
    Kelly = 7
    MaxUnreadable = 1
    NoInstrument = NoInstrument
    \* OrderComposition
    Modes = {"paper"}
    Callers = {"library"}
    WholeEquity = 2
    SizeLimit = 2
    Proposals = {0, 2}
    Equities = {2, 3}
    Seed = 3
    LossLimit = 1
    Ttl = 2
    LossStreak = 1
    \* ControlPanel
    MaxStarts = 2
    \* CommandChannel
    Commands = {c1, c2}
    Handled = {c1}
    MaxIssues = 2
    MaxCrashes = 1
    \* ProcessSupervisor
    InitialBackoff = 1
    MaxBackoff = 2
    Multiplier = 2
    MaxRestarts = 2
    Window = 3
    Faults = {"killed"}
    MaxOrphans = 1
    \* ExchangeCalls
    Venues = {"binance", "oanda"}
    BanFloor = 2
    HeartbeatLife = 2
    Every = 1
    MaxTime = 3
    MaxBans = 1
    MaxProcesses = 2
    \* PromotionGates
    Algos = {"PPO", "SAC"}
    Configured = "PPO"
    Spellings = {"relative", "absolute"}
    MinWeeks = 1
    MaxWeeks = 2
    MaxCopies = 2
    Nothing = Nothing
SPECIFICATION DeskGroupSpec
INVARIANT BookIsExact
INVARIANT ToxicityWithinTtl
INVARIANT SleevesHearAlike
INVARIANT CapitalWithinPool
INVARIANT OrphansHaveACause
INVARIANT CrashLoopBounded
INVARIANT FailedNeverTrades
INVARIANT LiveAfterTestnet
PROPERTY HaltsArrive
PROPERTY RolesAreHeld
PROPERTY StopsAreHeard
PROPERTY OnePollIsEnough
PROPERTY BanStopsCalls
PROPERTY CrashesAreAnswered
PROPERTY StopsWhenTold
CHECK_DEADLOCK FALSE
