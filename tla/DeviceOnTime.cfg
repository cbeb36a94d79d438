SPECIFICATION Spec
CONSTANTS
    Windows <- MCWindows
    Times = {0, 1, 2, 3, 4}
    MaxEvents = 3
    Null = Null
INVARIANTS
    TypeOK
    OnBounded
    ExactCount
    FallbackAgrees
CHECK_DEADLOCK FALSE
