SPECIFICATION FairPanelSpec
CONSTANT MaxStarts = 2
PROPERTY StartedTrades
CHECK_DEADLOCK FALSE
