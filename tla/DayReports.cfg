SPECIFICATION Spec
CONSTANTS
    Null = Null
    Hour = 2
    Day = 4
    MinHold = 1
    MaxHold = 3
    HoldFactor = 2
    Keys = {"battery_soc", "grid_power", "power"}
    Providers <- MCProviders
    Requests <- MCRequests
    Definitions <- MCDefinitions
    Readings0 <- MCReadings
    Samples0 <- MCSamples
    Prices <- MCPrices
    MaxSaves = 3
INVARIANTS
    TypeOK
    OneDay
    HoursExplained
    SeriesComplete
    PriceShown
CHECK_DEADLOCK FALSE
