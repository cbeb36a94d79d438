SPECIFICATION Spec
CONSTANTS
    Null = Null
    MaxRequests = 3
    Maxes = {2, 4}
    Sensors <- MCSensors
    Initial <- OneInitial
    Patches <- MCPatches
    Edits <- MCEdits
INVARIANTS
    TypeOK
    FilesFollowRow
    EditsKept
    ColumnAgrees
PROPERTIES
    MirrorsRow
    RequestsEnd
CHECK_DEADLOCK FALSE
