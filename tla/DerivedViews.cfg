CONSTANTS
    Readers = {r1, r2}
    Clients = {c1}
    None = None
    Fallback = Fallback
    MaxWrites = 1
    MaxErrors = 1
SPECIFICATION Spec
PROPERTIES
    SnapshotGoesForward
    CoverageConverges
    ProfilesConverge
