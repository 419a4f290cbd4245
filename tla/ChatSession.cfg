CONSTANTS
    Requests = {r1, r2, r3}
    SessionIds = {s1, s2}
    NoId = NoId
    MaxLocks = 1
    MaxSteps = 1
    Absent = Absent
    Torn = Torn
    Window = 3
    ArchiveMax = 3
    MaxPersisted = 4
    Lost = Lost
    GivesIds = TRUE
SPECIFICATION Spec
INVARIANTS
    TurnsAreSerialised
    LocksAreReturned
    RequestIsValid
PROPERTIES
    TurnsAreKept
SYMMETRY Symmetry
CHECK_DEADLOCK FALSE
