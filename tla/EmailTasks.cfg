SPECIFICATION TasksSpec
CONSTANTS
    Emails = {e1, e2, e3}
    Invalid = {e3}
    MaxRetries = 5
    MaxCrashes = 1
INVARIANTS
    TasksTypeOK
    RunsBounded
    NoNeedlessMail
PROPERTIES
    TasksEnd
CHECK_DEADLOCK FALSE
