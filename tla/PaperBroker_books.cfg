SPECIFICATION ClientSpec
CONSTANTS
    A = A
    B = B
    Symbols <- MCSymbols
    FeedPrices <- MCPrices
    OrderSizes = {1, 2}
    InitialCapital = 30
    SlippageBps = 1000
    CommissionPerShare = 5
    PriceGrain = 2
    CentGrain = 4
    NoPrice = NoPrice
    OrderBound = 3
SYMMETRY Swap
INVARIANTS
    TradeLogReplays
    AvgCostWithinFills
