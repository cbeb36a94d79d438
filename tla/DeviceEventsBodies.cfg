SPECIFICATION Spec
CONSTANTS
    d1 = d1
    d2 = d2
    m1 = m1
    m2 = m2
    Null = Null
    Devices = {d1, d2}
    Mcs = {m1, m2}
    Numbers = {1, 2}
    Workers = {w1}
    Home <- OwnHome
    AgentPayloads <- AddressAndShapes
    UserPayloads <- OwnerPayloads
    InitialRows <- EqualRows
    InitialConfig <- OldConfig
    MaxLog = 1
    MaxTime = 0
INVARIANTS
    ResolversAgree
CHECK_DEADLOCK FALSE
