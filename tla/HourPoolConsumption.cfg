SPECIFICATION Spec
CONSTANTS
    Null = Null
    d1 = d1
    d2 = d2
    Devices = {d1, d2}
    Rated <- MCRated
    Hour = 3
    Day = 6
    MinHold = 1
    MaxHold = 3
    HoldFactor = 1
    Providers <- OneProvider
    ReadingLists <- OneList
    MaxFacts = 2
    MaxTime = 5
INVARIANTS
    TypeOK
    ConsumptionTrue
    PoolBounded
CHECK_DEADLOCK FALSE
