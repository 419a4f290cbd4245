------------------------------- MODULE Backtest -------------------------------
(***************************************************************************)
(* run_backtest (engine.py): the portfolio simulation.                     *)
(*                                                                         *)
(* Trading days are visited in order.  On a day, each open position is     *)
(* visited first and sold, kept or marked for sale; then the equity of the *)
(* day is recorded; then orders are placed for the open of the NEXT day,   *)
(* candidate by candidate.  The market is arbitrary: each day has any bar, *)
(* or none, for each symbol.  Indicators, conditions and scores only       *)
(* decide which symbols are candidates, in which order, and when an exit   *)
(* rule fires; all three are left open here.                               *)
(*                                                                         *)
(* Rates are multiples of 1/Scale.  Prices of bars are whole numbers and   *)
(* amounts are whole multiples of 1/Scale^4, so nothing is rounded.        *)
(***************************************************************************)
EXTENDS Integers, FiniteSets, FiniteSetsExt

CONSTANTS
    Symbols,
    Days,           \* trading days of the backtest are 1..Days
    MarketDays,     \* the rows a trading day can have: a bar for each symbol
    NoBar,          \* no row for the symbol on that day
    NoPrice,        \* the last close of a symbol that was never seen
    Scale,
    SettingsSet     \* the settings the backtest can be run with

\* A trading day is a day with a row for some symbol.
NoRows == [s \in Symbols |-> NoBar]

\* A row of a symbol; limit is the one its open is near to.
Row ==
    [open : Nat, high : Nat, low : Nat, close : Nat,
     limit : {"no", "up", "down"}, suspended : BOOLEAN]

\* What the validator of the settings lets through.
BacktestSettings ==
    [initialCash : Nat \ {0}, slippage : Nat, fee : Nat, tax : Nat,
     sizing : {"fixed_ratio", "equal_slots"}, positionSize : 1..Scale,
     holdingDays : Nat \ {0}, takeProfit : Nat, stopLoss : Nat,
     maxPositions : Nat \ {0}, maxDailyBuys : Nat \ {0},
     limitUpBlocks : BOOLEAN, limitDownBlocks : BOOLEAN]

ASSUME BacktestAssumption ==
    /\ Days \in Nat \ {0}
    /\ Scale \in Nat \ {0}
    /\ SettingsSet \subseteq BacktestSettings
    /\ MarketDays \subseteq [Symbols -> Row \cup {NoBar}]
    /\ \A rows \in MarketDays : \A s \in Symbols :
           rows[s] # NoBar =>
              /\ rows[s].low <= rows[s].open /\ rows[s].open <= rows[s].high
              /\ rows[s].suspended \/ rows[s].open > 0
    /\ NoRows \notin MarketDays
    /\ NoBar \notin Row
    /\ NoPrice \notin Nat

VARIABLES
    settings,   \* BacktestSettings
    day,        \* signal_date, as an index of trade_dates
    pc,         \* where the loop over the days is
    today,      \* today_by_symbol
    tomorrow,   \* rows_by_date_symbol of the next trading day
    lastClose,  \* last_close_by_symbol
    cash,
    open,       \* open_positions
    unvisited,  \* positions the loop over open_positions has not reached
    sold,       \* trades closed today
    realised,   \* sum of pnl over all closed trades
    candidates, \* candidates the loop over them has not reached
    opened,     \* opened_today
    marketValue,    \* current_market_value
    point       \* the equity point of the day

rowVars == <<settings, day, today, tomorrow, lastClose>>
backtestVars ==
    <<rowVars, pc, cash, open, unvisited, sold, realised, candidates, opened,
     marketValue, point>>

-------------------------------------------------------------------------------

Unit == Scale * Scale * Scale * Scale

\* A price of a bar, in the unit of the thresholds (1/Scale^2).
Fine(p) == p * Scale * Scale

Smaller(x, y) == IF x < y THEN x ELSE y

Larger(x, y) == IF x < y THEN y ELSE x

\* _buy_execution_price, in 1/Scale.
BuyPrice(p) == p * (Scale + settings.slippage)

\* What a lot costs with slippage and fee.
LotCost(p) == BuyPrice(p) * (Scale + settings.fee) * Scale * Scale

\* _close_position: what the sale of a position at price q brings in.
Proceeds(p, q) ==
    p.lots * q * (Scale - settings.slippage) * (Scale - settings.fee - settings.tax)

\* _mark_to_market_with_last_close: the close of the day, else the last close
\* seen, else what was paid.
PositionValue(p) ==
    IF today[p.symbol] # NoBar THEN p.lots * today[p.symbol].close * Unit
    ELSE IF lastClose[p.symbol] # NoPrice THEN p.lots * lastClose[p.symbol] * Unit
    ELSE p.lots * p.price * Scale * Scale * Scale

MarketValue(P) == MapThenSumSet(PositionValue, P)

\* _planned_entry_amount
PlannedAmount ==
    LET equity  == cash + marketValue
        cap     == (equity * settings.positionSize) \div Scale
        slots   == Larger(1, settings.maxPositions - Cardinality(open))
    IN  IF settings.sizing = "fixed_ratio"
        THEN Smaller(cash, cap)
        ELSE Smaller(Smaller(cash, cap), cash \div slots)

\* Mutant of HeldDays: the buy date does not count.
HeldSince(p) == day - p.bought

\* Trade dates from the buy date to today, both included.
HeldDays(p) == day - p.bought + 1

TakeProfitPrice(p) == p.price * (Scale + settings.takeProfit)

StopLossPrice(p) == p.price * (Scale - settings.stopLoss)

\* Mutant of IntradayExit: a threshold sells at its own price, gap or not.
ExitAtThreshold(p, bar) ==
    IF settings.stopLoss > 0 /\ Fine(bar.low) <= StopLossPrice(p)
    THEN {StopLossPrice(p)}
    ELSE IF settings.takeProfit > 0 /\ Fine(bar.high) >= TakeProfitPrice(p)
    THEN {TakeProfitPrice(p)}
    ELSE {}

\* _intraday_exit: the price at which a threshold sells, none if none is hit.
\* A rate of 0 stands for a threshold that is not set.
IntradayExit(p, bar) ==
    LET tp      == TakeProfitPrice(p)
        sl      == StopLossPrice(p)
        opening == Fine(bar.open)
        tpHit   == settings.takeProfit > 0 /\ (opening >= tp \/ Fine(bar.high) >= tp)
        slHit   == settings.stopLoss > 0 /\ (opening <= sl \/ Fine(bar.low) <= sl)
    IN  IF slHit /\ ~(tpHit /\ opening >= tp) THEN {Smaller(opening, sl)}
        ELSE IF tpHit THEN {Larger(opening, tp)}
        ELSE {}

\* T+1, and a row that is not suspended.
CanTrade(p) ==
    /\ p.bought < day
    /\ today[p.symbol] # NoBar
    /\ ~today[p.symbol].suspended

\* The prices at which a position that can be traded is sold today: at the open
\* when an exit rule fired on an earlier day or the holding period is over,
\* else where a threshold is hit.
ExitPrices(p) ==
    LET bar == today[p.symbol]
    IN  IF p.signalled > 0 \/ HeldDays(p) >= settings.holdingDays
        THEN {Fine(bar.open)}
        ELSE IntradayExit(p, bar)

LimitDown(p) ==
    settings.limitDownBlocks /\ today[p.symbol].limit = "down"

-------------------------------------------------------------------------------

RowsAfter(d) == IF d < Days THEN MarketDays ELSE {NoRows}

BacktestInit ==
    /\ settings \in SettingsSet
    /\ day = 1
    /\ pc = "exits"
    /\ today \in MarketDays
    /\ tomorrow \in RowsAfter(1)
    /\ lastClose = [s \in Symbols |-> NoPrice]
    /\ cash = settings.initialCash * Unit
    /\ open = {} /\ unvisited = {} /\ sold = {}
    /\ realised = 0
    /\ candidates = {} /\ opened = 0
    /\ marketValue = 0
    /\ point = [equity |-> cash, cash |-> cash]

-------------------------------------------------------------------------------
(* The loop over the open positions.                                        *)

Visited(p) == unvisited' = unvisited \ {p}

\* The position is not sold today: it was bought today or has no row, its symbol
\* is suspended, or it should be sold and the open is at the lower limit.
Hold(p) ==
    /\ pc = "exits"
    /\ CanTrade(p) => ExitPrices(p) # {} /\ LimitDown(p)
    /\ Visited(p)
    /\ UNCHANGED <<rowVars, pc, cash, open, sold, realised, candidates, opened,
                   marketValue, point>>

\* Mutant of Sell: the fees of the sale are only in the pnl.
SellGross(p) ==
    /\ pc = "exits"
    /\ CanTrade(p) /\ ~LimitDown(p)
    /\ \E q \in ExitPrices(p) :
          /\ cash' = cash + p.lots * q * Scale * Scale
          /\ realised' = realised + Proceeds(p, q) - p.cost
          /\ sold' = sold \cup {[trade |-> p, price |-> q]}
    /\ open' = open \ {p}
    /\ Visited(p)
    /\ UNCHANGED <<rowVars, pc, candidates, opened, marketValue, point>>

\* _close_position
Sell(p) ==
    /\ pc = "exits"
    /\ CanTrade(p) /\ ~LimitDown(p)
    /\ \E q \in ExitPrices(p) :
          /\ cash' = cash + Proceeds(p, q)
          /\ realised' = realised + Proceeds(p, q) - p.cost
          /\ sold' = sold \cup {[trade |-> p, price |-> q]}
    /\ open' = open \ {p}
    /\ Visited(p)
    /\ UNCHANGED <<rowVars, pc, candidates, opened, marketValue, point>>

\* Nothing sells the position; an exit rule may mark it for the next open.
ApplyExitRules(p) ==
    /\ pc = "exits"
    /\ CanTrade(p) /\ ExitPrices(p) = {}
    /\ \E signal \in {0, day} :
          open' = (open \ {p}) \cup {[p EXCEPT !.signalled = signal]}
    /\ Visited(p)
    /\ UNCHANGED <<rowVars, pc, cash, sold, realised, candidates, opened,
                   marketValue, point>>

-------------------------------------------------------------------------------
(* The equity point and the orders for the next day.                        *)

\* _scan_entry_candidates finds candidates among the rows of the day that are
\* not suspended, and the equity of the day is recorded.  Orders are only
\* placed when there is a next day and a free slot.
Mark ==
    /\ pc = "exits" /\ unvisited = {}
    /\ LET value == MarketValue(open)
       IN  /\ point' = [equity |-> cash + value, cash |-> cash]
           /\ marketValue' = value
    /\ opened' = 0
    /\ \E found \in SUBSET {s \in Symbols :
                               today[s] # NoBar /\ ~today[s].suspended} :
          candidates' = IF day < Days /\ Cardinality(open) < settings.maxPositions
                        THEN found ELSE {}
    /\ pc' = "orders"
    /\ UNCHANGED <<rowVars, cash, open, unvisited, sold, realised>>

HasRoom ==
    /\ Cardinality(open) < settings.maxPositions
    /\ opened < settings.maxDailyBuys

LotsFor(s) == PlannedAmount \div LotCost(tomorrow[s].open)

\* What a candidate needs to be bought: it is not held, it has a row on the next
\* day, is not suspended there and does not open at the upper limit, and the
\* planned amount buys a lot.
CanBuy(s) ==
    /\ \A p \in open : p.symbol # s
    /\ tomorrow[s] # NoBar
    /\ ~tomorrow[s].suspended
    /\ ~(settings.limitUpBlocks /\ tomorrow[s].limit = "up")
    /\ LotsFor(s) > 0

Skip(s) ==
    /\ pc = "orders" /\ s \in candidates
    /\ HasRoom /\ ~CanBuy(s)
    /\ candidates' = candidates \ {s}
    /\ UNCHANGED <<rowVars, pc, cash, open, unvisited, sold, realised, opened,
                   marketValue, point>>

Buy(s) ==
    /\ pc = "orders" /\ s \in candidates
    /\ HasRoom /\ CanBuy(s)
    /\ LET lots == LotsFor(s)
           cost == lots * LotCost(tomorrow[s].open)
       IN  /\ cash' = cash - cost
           /\ open' = open \cup
                 {[symbol |-> s, bought |-> day + 1,
                   price |-> BuyPrice(tomorrow[s].open), lots |-> lots,
                   cost |-> cost, signalled |-> 0]}
           /\ marketValue' = marketValue
                 + lots * BuyPrice(tomorrow[s].open) * Scale * Scale * Scale
    /\ opened' = opened + 1
    /\ candidates' = candidates \ {s}
    /\ UNCHANGED <<rowVars, pc, unvisited, sold, realised, point>>

\* The closes of the day are remembered and the next day begins, if there is one.
EndDay ==
    /\ pc = "orders"
    /\ candidates = {} \/ ~HasRoom
    /\ lastClose' = [s \in Symbols |->
          IF today[s] # NoBar THEN today[s].close ELSE lastClose[s]]
    /\ candidates' = {}
    /\ IF day < Days
       THEN /\ day' = day + 1
            /\ today' = tomorrow
            /\ tomorrow' \in RowsAfter(day + 1)
            /\ unvisited' = open
            /\ sold' = {}
            /\ pc' = "exits"
       ELSE /\ pc' = "done"
            /\ UNCHANGED <<day, today, tomorrow, unvisited, sold>>
    /\ UNCHANGED <<settings, cash, open, realised, opened, marketValue, point>>

BacktestNext ==
    \/ \E p \in unvisited : Hold(p) \/ Sell(p) \/ ApplyExitRules(p)
    \/ Mark
    \/ \E s \in Symbols : Skip(s) \/ Buy(s)
    \/ EndDay

BacktestSpec == BacktestInit /\ [][BacktestNext]_backtestVars

-------------------------------------------------------------------------------

Position ==
    [symbol : Symbols, bought : 1..Days, price : Nat, lots : Nat \ {0},
     cost : Nat, signalled : 0..Days]

\* Positions, prices and the equity point keep their types (engine.py:551-600,
\* 704-716, 762-785).
BacktestTypes ==
    /\ settings \in SettingsSet
    /\ day \in 1..Days
    /\ pc \in {"exits", "orders", "done"}
    /\ today \in MarketDays
    /\ tomorrow \in RowsAfter(day)
    /\ lastClose \in [Symbols -> Nat \cup {NoPrice}]
    /\ cash \in Int
    /\ open \subseteq Position
    /\ unvisited \subseteq open
    /\ sold \subseteq [trade : Position, price : Int]
    /\ realised \in Int
    /\ candidates \subseteq Symbols
    /\ opened \in Nat
    /\ marketValue \in Int
    /\ point \in [equity : Int, cash : Int]

CostOf(p) == p.cost

BoughtForTomorrow == {p \in open : p.bought = day + 1}

\* The books balance: what is not in cash was paid for an open position or lost
\* in a closed trade, and the equity point of a day does not know of the orders
\* that are placed after it for the next day (engine.py:336-353, 704-716,
\* 762-785).
BooksBalance ==
    /\ cash + MapThenSumSet(CostOf, open) = settings.initialCash * Unit + realised
    /\ pc = "orders" =>
          /\ point.cash = cash + MapThenSumSet(CostOf, BoughtForTomorrow)
          /\ point.equity = point.cash + MarketValue(open \ BoughtForTomorrow)

\* Every sale could have happened: at least a day after the buy, on a day the
\* symbol traded and did not open at the lower limit, at a price between the low
\* and the high of that day (engine.py:364-400, 602-671).
SalesArePossible ==
    \A t \in sold :
        LET bar == today[t.trade.symbol]
        IN  /\ t.trade.bought < day
            /\ bar # NoBar
            /\ ~bar.suspended
            /\ ~(settings.limitDownBlocks /\ bar.limit = "down")
            /\ Fine(bar.low) <= t.price /\ t.price <= Fine(bar.high)

\* A position that should have been sold today and was not could not be traded:
\* the holding period is over, an exit rule fired on an earlier day, or the day
\* went through a threshold (engine.py:602-682).
ShouldBeSold(p) ==
    LET bar == today[p.symbol]
    IN  \/ 0 < p.signalled /\ p.signalled < day
        \/ day - p.bought >= settings.holdingDays - 1
        \/ settings.stopLoss > 0 /\ Fine(bar.low) <= StopLossPrice(p)
        \/ settings.takeProfit > 0 /\ Fine(bar.high) >= TakeProfitPrice(p)

ExitsAreNotMissed ==
    pc = "orders" =>
        \A p \in open :
            CanTrade(p) /\ ShouldBeSold(p) => LimitDown(p)

===============================================================================
