SPECIFICATION CompositionSpec
CONSTANTS
    Modes = {"live"}
    Callers = {"server"}
    WholeEquity = 2
    SizeLimit = 2
    Proposals = {0, 2}
    Equities = {2, 3}
    Seed = 3
    LossLimit = 1
    Ttl = 1
    LossStreak = 1
INVARIANT VetoJudgesTheAccount
