SPECIFICATION ServerSpec
CONSTANTS
    \* RiskGuardian
    None = None
    MaxOrders = 2
    RateWindow = 3
    DayLength = 4
    ReminderInterval = 2
    MinHold = 2
    MaxFraction = 50
    LossPct = 20
    DrawdownPct = 20
    StartingEquity = None
    Fractions <- TargetFractions
    Equities <- ReportedEquities
    Costs <- ProposedCosts
    Drawdowns <- ReportedDrawdowns
    EntryPoints <- LoopOnly
    MaxInFlight = 0
    DiskOutcomes <- Reliable
    MaxTime = 6
    MaxTick = 6
    \* PromotionPipeline
    Nothing = Nothing
    Torn = Torn
    Baseline = Baseline
    Agents = {ppo, dqn}
    ppo = ppo
    dqn = dqn
    Algorithm <- MCAlgorithm
    ServerAlgorithm = ppo
    Approvers = {operator}
    MaxVersions = 2
INVARIANTS MarkerTellsTheTruth HoldRespected LiveIsDeployed OnlyPassedAgentsArePromoted
PROPERTIES AlertsSpaced ImplementsGate ApprovalsAreAnswered
CHECK_DEADLOCK FALSE
