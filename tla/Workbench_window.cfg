SPECIFICATION Spec
CONSTANTS
    A = A
    B = B
    Symbols <- MCSymbols
    Holdings <- MCHoldings
    CacheTtl = 2
    RefreshPeriod = 3
    Latency = 1
    WaitLimit = 2
    Interval = 3
    Work = 1
    SymbolCount = 1
    Slots = {1, 2}
    MaxTrades = 1
INVARIANTS
    ShownIsRecent
    FlattenSellsTheLongs
    FlattenShowsTheResult
    StoppedMeansStopped
