SPECIFICATION BridgeSpec
CONSTANTS
    NoPrice = NoPrice
    InitialBase = 0
    InitialCash = 2
    Prices = {1}
    Fees = {0}
    Targets = {0, 100}
    Deposits = {}
    Faults = {}
    MaxSubmits = 2
    MaxDeposits = 0
INVARIANT NoPhantomDrawdown
CHECK_DEADLOCK FALSE
