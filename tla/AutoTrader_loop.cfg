SPECIFICATION FairSpec
CONSTANTS
    A = A
    B = B
    Symbols <- Two
    InitialLists <- Lists
    Strategies <- MCStrategies
    Prices <- MCPrices
    InitialCapital = 41
    SlippageBps = 2000
    CommissionPerShare = 1
    PriceGrain = 2
    CentGrain = 4
    RiskPercent = 75
    MaxPositions = 1
    NoPrice = NoPrice
    NoLimit = NoLimit
    MaxIterations = 2
    IterationBound = 3
    FetchOutcomes = {"enough", "short", "empty", "raise"}
    MaxOrders = 3
    MaxEdits = 1
INVARIANTS
    PositionLimit
    LogInOrder
PROPERTIES
    ImplementsPositionBook
    FillsAtFreshClose
    OrdersNeverCreateEquity
    StopEndsLoop
    LimitEndsLoop
