SPECIFICATION Spec
CONSTANTS
    d1 = d1
    d2 = d2
    m1 = m1
    m2 = m2
    Null = Null
    Devices = {d1}
    Mcs = {m1}
    Numbers = {1}
    Workers = {w1}
    Home <- SameHome
    AgentPayloads <- LatePayloads
    UserPayloads <- NoPayloads
    InitialRows <- DistinctRows
    InitialConfig <- NoConfig
    MaxLog = 2
    MaxTime = 0
INVARIANTS
    StateEventsAreTransitions
CHECK_DEADLOCK FALSE
