SPECIFICATION Spec
CONSTANTS
    A = A
    B = B
    Symbols <- MCSymbols
    SymbolList <- MCList
    Clients = {"trader", "dashboard"}
    MaxPositions = 1
    Lots = {1, 2}
    MaxOrders = 2
INVARIANTS
    PositionLimit
