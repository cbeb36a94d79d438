SPECIFICATION Spec
CONSTANTS
    d1 = d1
    d2 = d2
    m1 = m1
    m2 = m2
    Null = Null
    Devices = {d1}
    Mcs = {m1}
    Numbers = {1}
    Workers = {w1, w2}
    Home <- SameHome
    AgentPayloads <- LatePayloads
    UserPayloads <- NoPayloads
    InitialRows <- DistinctRows
    InitialConfig <- NoConfig
    MaxLog = 3
    MaxTime = 1
SYMMETRY WorkerSymmetry
INVARIANTS
    RowIntact
CHECK_DEADLOCK FALSE
