CONSTANTS
    Apps = {a1, a2}
    Ids = {s1, s2}
    MaxLoads = 2
    Eager = {a1}
    Crashers = {a2}
    None = None
    Done = Done
    Broken = Broken
    Failed = Failed
    MaxReloads = 1
    MaxQueue = 1
SPECIFICATION Spec
INVARIANTS
    AcknowledgedIsOnDisk
    OwnChangesAreSeen
    NobodyWaitsForNothing
