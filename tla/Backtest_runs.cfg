SPECIFICATION Spec
CONSTANTS
    SymbolOrder <- Order
    Inputs <- MCInputs
    InitialCapital = 100
    MaxPositions = 2
    RiskNum = 1
    RiskDen = 2
    SlipNum = 1
    SlipDen = 10
    ImpactNum = 1
    ImpactDen = 20
    CommissionPerShare = 60
    CommissionMin = 100
    CommissionMax = 200
    RatioNum = 1
    RatioDen = 2
INVARIANTS
    EquityIsBankEquity
    CurveFlattersTrades
    TradesDoNotOverlap
    SimulationsAgree
PROPERTIES
    ImplementsPositionBook
\* The call returns.
CHECK_DEADLOCK FALSE
