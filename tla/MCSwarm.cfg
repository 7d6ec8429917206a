CONSTANTS
    \* EscrowBridge
    Children = {a, b}
    Offers = {1}
    Trades = {t1, t2}
    StartBalance = 1
    NoOne = NoOne
    Operator = Operator
    PathKinds = {"exact"}
    \* ChildLedger
    Amounts = {1}
    MaxTaxes = 2
    MaxSteps = 3
    MaxEpisodes = 2
    MaxFlushFails = 1
    \* WardenAudit
    SwarmSize = 1
    Files = {f1}
    Strikes = 2
    MaxEvents = 2
    Rows = {"broke", "top"}
    Docker = TRUE
    MaxApiAudits = 1
    NoTier = NoTier
    \* LobEpisode
    FileRows <- ThreeFiles
    Kept = 2
    SeqLen = 2
    MaxPrefetch = 1
    MaxResets = 2
    MaxEnvs = 2
    \* ReplayMemory
    Capacities = {2}
    MaxPushes = 5
    MaxRestarts = 2
    \* TradePipeline
    Workers = {"trainer", "daemon"}
    Engines = {"cudf", "polars"}
    BucketSize = 1
    MaxDay = 2
    MaxTrades = 2
    MaxStops = 1
    MaxCycles = 2
    MaxEvictions = 1
    \* TrainingTable
    Legs = {crypto, fx}
    Days = 2
    DayLength = 3
    Frequencies = {1, 2}
    MaxStaleness = 1
    Lookback = 1
    Horizon = 1
    Splits = 2
    Embargoes = {None, 0, 1}
    None = None
    RowsPerFold = 1
    MaxUnreadableFiles = 1
    \* SovereignChild
    ModelNames = {"PPO-DilatedCNN", "Momentum-Baseline", "Gone"}
    ChildEquities = {2, 4, 10, 11, 12, 22}
    ChildCashes = {4, 10, 21}
    TagStep = 2
    LoopSteps = 3
SPECIFICATION SwarmSpec
INVARIANT ChargedWhatItRead
INVARIANT DeadLettersEarned
INVARIANT TimeMovesForward
INVARIANT KeepsTheLatest
INVARIANT CapturedOnce
INVARIANT RowsOnce
INVARIANT StaleMeansOld
INVARIANT FoldsDoNotTouch
INVARIANT PeaksAreTagged
PROPERTY ImplementsMarket
PROPERTY LockedIsAnswered
PROPERTY RestrictionsReachTheChild
PROPERTY OldThreadsEnd
CHECK_DEADLOCK FALSE
