CONSTANTS
    s1 = s1
    s2 = s2
    Symbols = {s1, s2}
    Pool = {s1}
    Days = 4
    StartDay = 2
    Warmup = 1
    NaN = NaN
    NoRow = NoRow
    Blocked = Blocked
    Ten = Ten
    Rejected = Rejected
    Fast = 1
    Slow = 3
    Signal = 3
    MarketDays <- MCMarketDays
    Strategies <- MCStrategies
SPECIFICATION SignalsSpec
INVARIANTS
    PrefilterKeepsRows
CHECK_DEADLOCK FALSE
