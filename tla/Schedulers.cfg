SPECIFICATION Spec
CONSTANTS
    Null = Null
    w1 = w1
    w2 = w2
    d1 = d1
    d2 = d2
    s1 = s1
    s2 = s2
    Schedulers = {s1, s2}
    Devices = {d1, d2}
    Workers = {w1, w2}
    Slots <- MCSlots
    ProviderIds = {1, 2}
    ProviderTables <- MCTables
    MaxOthers = 2
SYMMETRY Symmetry
INVARIANTS
    TypeOK
    OffersAccepted
PROPERTIES
    DeletedOff
CHECK_DEADLOCK FALSE
