CONSTANTS
    StopLoss = 10
    TakeProfit = 20
    Trailing = 6
    TrailingTarget = 10
    TradeSize = 1000
    MaxCapital = 1000
    MinOrder = 100
    CostBps = 100
    NetworkFee = 5
    SizeUnit = 10
    NumBars = 3
    None = None
    BarData <- MCBarData
    Paper = FALSE
    GateFactors = {100}
    MaxFailures = 1
SPECIFICATION FairSpec
INVARIANTS TypeOK StoredBookExplained
PROPERTIES BacktestParity CatchesUp
