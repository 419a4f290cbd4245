CONSTANTS
    NoBar = NoBar
    NoPrice = NoPrice
    s1 = s1
    s2 = s2
    Symbols = {s1, s2}
    Days = 5
    MarketDays <- MCMarketDays
    Scale = 10
    SettingsSet <- MCSettings
SPECIFICATION BacktestSpec
INVARIANTS
    BooksBalance
    SalesArePossible
    ExitsAreNotMissed
CHECK_DEADLOCK FALSE
