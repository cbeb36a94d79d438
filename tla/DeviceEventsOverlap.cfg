SPECIFICATION Spec
CONSTANTS
    d1 = d1
    d2 = d2
    m1 = m1
    m2 = m2
    Null = Null
    Devices = {d1, d2}
    Mcs = {m1}
    Numbers = {1, 2}
    Workers = {w1, w2}
    Home <- SameHome
    AgentPayloads <- MixedPayloads
    UserPayloads <- NoPayloads
    InitialRows <- DistinctRows
    InitialConfig <- OldConfig
    MaxLog = 2
    MaxTime = 0
SYMMETRY WorkerSymmetry
INVARIANTS
    TypeOK
    ConfigCoherent
    SerialConfigComplete
    OldPinsGone
PROPERTIES
    SnapshotExplained
CHECK_DEADLOCK FALSE
