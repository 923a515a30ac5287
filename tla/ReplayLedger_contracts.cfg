SPECIFICATION Spec
CONSTANTS
    Null = Null
    MaxU64 = 200000
    MaxI128 = 1000000
    Unit = 4
    Sources = 1
    MaxGroup = 3
    Prices <- MCPrices
    Capital = 20
    Fee = 1
    Quantities = {2}
    Margins = {1}
    ReasonLists <- MCReasonLists
    Consulted = {1, 3}
    Biases <- MCBiases
INVARIANTS
    EveryDocumentAccepted
    DerivedFiguresAreBound
    LedgerTracesBack
\* The run ends.
CHECK_DEADLOCK FALSE
