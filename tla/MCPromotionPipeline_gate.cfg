SPECIFICATION PromotionSpec
CONSTANTS
    Nothing = Nothing
    Torn = Torn
    Baseline = Baseline
    Agents = {ppo, dqn}
    ppo = ppo
    dqn = dqn
    Algorithm <- MCAlgorithm
    ServerAlgorithm = ppo
    Approvers = {operator}
    MaxVersions = 2
INVARIANT GateHolds
