SPECIFICATION Spec
CONSTANTS
    Null = Null
    NoDoc = NoDoc
    Garbled = Garbled
    Markets = {1}
    SafePaths = {1, 2, 3}
    Rows = {}
    MaxRows = 2
    Surroundings <- MCSurroundings
    AllowedMarkets <- MCMarkets
    Disks <- MCDisks
    Writes <- MCWrites
    MaxWrites = 2
    Layout <- MCLayout
INVARIANTS
    AdmittedAsNamed
    AdmittedIfWhole
    ReceiptsRefusedExactly
\* The capture is done.
CHECK_DEADLOCK FALSE
