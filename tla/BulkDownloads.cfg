CONSTANTS
    Symbols = 5
    BatchSize = 2
    WriteRows = 3
    Market = {1, 2, 3}
    Bundled = {1, 2}
    MaxFailures = 3
    MaxFaults = 2
SPECIFICATION BulkSpec
INVARIANTS
    ProgressAddsUp
    CompletedIsStored
    GapsAreNotCompleted
    RecordedIsStored
    ScriptAgreesWithJob
PROPERTIES
    ImplementsJob
    OthersAreFilled
CHECK_DEADLOCK FALSE
