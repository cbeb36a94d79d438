SPECIFICATION Spec
CONSTANTS
    Null = Null
    d1 = d1
    d2 = d2
    Devices = {d3}
    Rated <- MCRated
    Hour = 3
    Day = 6
    MinHold = 1
    MaxHold = 3
    HoldFactor = 1
    Providers <- AllProviders
    ReadingLists <- AllLists
    MaxFacts = 0
    MaxTime = 5
INVARIANTS
    ProductionExact
CHECK_DEADLOCK FALSE
