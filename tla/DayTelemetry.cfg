SPECIFICATION Spec
CONSTANTS
    Null = Null
    Hour = 3
    Day = 6
    MinHold = 2
    MaxHold = 3
    HoldFactor = 2
    Start = 6
    End = 12
    Times = {5, 6, 8, 11}
    Powers <- MCPowers
    Expecteds <- MCExpecteds
    EnergyUnit = "kWh"
    Markets <- MCMarkets
    MaxReadings = 3
INVARIANTS
    TypeOK
    DayExact
    RevenueExact
    SegmentsAdvance
    HalvesAgree
PROPERTIES
    Answered
CHECK_DEADLOCK FALSE
