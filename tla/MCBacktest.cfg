CONSTANTS
    StopLoss = 10
    TakeProfit = 20
    Trailing = 6
    TrailingTarget = 10
    TradeSize = 1000
    MaxCapital = 1000
    MinOrder = 700
    CostBps = 100
    NetworkFee = 25
    SizeUnit = 10
    NumBars = 4
    None = None
    BarData <- MCBarData
SPECIFICATION Spec
INVARIANTS TypeOK PendingFitsPosition CashExplained NeverOverspent StopHonoured ExitAtTradedPrice
PROPERTIES NoLookAhead StopNeverLoosens
CHECK_DEADLOCK FALSE
