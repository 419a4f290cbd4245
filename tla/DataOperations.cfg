CONSTANTS
    s1 = s1
    s2 = s2
    Symbols = {s1, s2}
    LastDay = 3
    Unknown = Unknown
    NoRow = NoRow
    Answers <- MCAnswers
    ListedOn <- MCListedOn
    LateStart <- MCLateStart
    Suspended <- MCSuspended
    Lists <- MCLists
    YearEnds = {1}
    Recent = {3}
    KnownGaps = {2}
    MaxVersion = 2
    Starts <- MCStarts
    MaxOps = 2
SPECIFICATION Spec
INVARIANTS
    ImportedIsStored
    OkMeansStored
    BarsAreNewest
    SyncFillsTheTable
PROPERTIES
    DelistingHasGrounds
CHECK_DEADLOCK FALSE
