------------------------------- MODULE Signals --------------------------------
(***************************************************************************)
(* Which symbols a strategy finds on a day (conditions.py, engine.py,       *)
(* backtest_runner.py).  The market goes on day by day; after each day the   *)
(* strategy is run over the rows there are by then, and what it finds on     *)
(* that day is remembered, as the daily matches of the application are.  A   *)
(* backtest run later sees the same day with many more rows behind it.       *)
(* Rows before the first day of the backtest only warm the indicators up.    *)
(***************************************************************************)
EXTENDS Indicators, ConditionParser

CONSTANTS
    Symbols,
    Pool,           \* the stock pool
    Days,           \* trading days are 1..Days
    StartDay,       \* the first day of the backtest
    Warmup,         \* days read before it
    NoRow,
    MarketDays,     \* the rows a trading day can have: a row for each symbol, or none
    Strategies,
    Blocked         \* the preflight refused the strategy

Value == Int \cup {NaN}

Row == [day : Nat, high : Int, low : Int, close : Int, volume : Int, flow : Value,
        cap : Value, turnover : Value, barred : BOOLEAN]

\* The keys of EVALUATORS, abbreviated.
ConditionIds ==
    {"market_cap_between", "flow_sum_at_least", "flow_sum_at_most", "flow_today_at_least",
     "flow_today_at_most", "flow_positive_count_at_least", "market_rising_ratio_at_least",
     "close_above_ma", "close_below_ma", "turnover_between", "past_return_at_most",
     "past_return_between", "volume_ratio_between", "macd_histogram_at_least",
     "macd_dead_cross", "breakout_above_n_day_high", "breakdown_below_n_day_low"}

ConditionNode == [id : ConditionIds, window : Nat, min : Int, max : Int,
                  lag : Nat, enabled : BOOLEAN, weight : Int]

ConditionGroup == [op : {"and", "or", "score"}, nodes : (SUBSET ConditionNode) \ {{}}]

StrategyConfig == [filters : SUBSET ConditionNode, groups : (SUBSET ConditionGroup) \ {{}},
                   exits : SUBSET ConditionNode, threshold : Int]

ASSUME SignalsAssumption ==
    /\ Pool \subseteq Symbols
    /\ Days \in Nat /\ StartDay \in 1..Days /\ Warmup \in Nat
    /\ MarketDays \subseteq [Symbols -> Row \cup {NoRow}]
    /\ Strategies \subseteq StrategyConfig

VARIABLES
    strategy,   \* StrategyConfig
    frame,      \* per symbol, its rows so far
    found       \* for each day, what the strategy found on it when it was the last day

signalsVars == <<strategy, frame, found>>

-------------------------------------------------------------------------------
(* Conditions.                                                              *)

FlowConditions == {"flow_sum_at_least", "flow_sum_at_most", "flow_today_at_least",
                   "flow_today_at_most", "flow_positive_count_at_least"}

MacdConditions == {"macd_histogram_at_least", "macd_dead_cross"}

OrNaN(x) == IF x = NaN THEN NaN ELSE <<x, 1>>

\* The value a condition looks at, in the n-th row of symbol s.
Column(rows, node, s, n) ==
    LET r == rows[s]
        w == node.window
        id == node.id
    IN  CASE id = "market_cap_between" -> OrNaN(r[n].cap)
          [] id \in {"flow_sum_at_least", "flow_sum_at_most"} -> FlowSum(r, w, n)
          [] id \in {"flow_today_at_least", "flow_today_at_most"} -> OrNaN(r[n].flow)
          [] id = "flow_positive_count_at_least" -> PositiveCount(r, w, n)
          [] id = "market_rising_ratio_at_least" -> Heat(rows, r[n].day)
          [] id \in {"close_above_ma", "close_below_ma"} -> CloseOverMA(r, w, n)
          [] id = "turnover_between" -> OrNaN(r[n].turnover)
          [] id \in {"past_return_at_most", "past_return_between"} -> Return(r, w, n)
          [] id = "volume_ratio_between" -> VolumeRatio(r, w, n)
          [] id = "macd_histogram_at_least" -> Hist(r, n)
          [] id = "macd_dead_cross" -> DifOverDea(r, n)
          [] id = "breakout_above_n_day_high" -> CloseOverHigh(r, w, n)
          [] id = "breakdown_below_n_day_low" -> CloseOverLow(r, w, n)

\* The comparisons; none of them holds of a value that is not known.
AtLeast(v, min) == v # NaN /\ v[1] >= min * v[2]
AtMost(v, max) == v # NaN /\ v[1] <= max * v[2]
Positive(v) == v # NaN /\ v[1] > 0
Negative(v) == v # NaN /\ v[1] < 0

Holds(node, v) ==
    CASE node.id \in {"flow_sum_at_least", "flow_today_at_least", "flow_positive_count_at_least",
                      "market_rising_ratio_at_least", "macd_histogram_at_least"} -> AtLeast(v, node.min)
      [] node.id \in {"flow_sum_at_most", "flow_today_at_most", "past_return_at_most"} ->
            AtMost(v, node.max)
      [] node.id \in {"market_cap_between", "turnover_between", "past_return_between",
                      "volume_ratio_between"} -> AtLeast(v, node.min) /\ AtMost(v, node.max)
      [] node.id \in {"close_above_ma", "breakout_above_n_day_high"} -> Positive(v)
      [] node.id \in {"close_below_ma", "macd_dead_cross", "breakdown_below_n_day_low"} -> Negative(v)

\* _turnover_between reads a turnover above one as one in per cent.
AsFraction(v) == IF v # NaN /\ v[1] > 100 * v[2] THEN <<v[1], 100 * v[2]>> ELSE v

\* _macd_dead_cross: dif was not below dea in the row before, which must belong to
\* the backtest.  "first" is the position of the first row that does.
WasNotBelow(rows, s, first, n) == n > first /\ DifOverDea(rows[s], n - 1)[1] >= 0

\* EVALUATORS
RowPasses(rows, node, s, first, n) ==
    LET v == Column(rows, node, s, n)
    IN  /\ Holds(node, IF node.id = "turnover_between" THEN AsFraction(v) ELSE v)
        /\ node.id = "macd_dead_cross" => WasNotBelow(rows, s, first, n)

\* A mutant: the row of a lagged condition is taken from all there are.
EvaluateLast(rows, node, s, first, n) ==
    LET m == IF node.lag = 0 THEN n ELSE Len(rows[s]) - node.lag + 1
    IN  ~node.enabled \/ (m >= first /\ RowPasses(rows, node, s, first, m))

\* evaluate_condition: a lag counts rows of the symbol within the backtest.
Evaluate(rows, node, s, first, n) ==
    ~node.enabled \/ (n - node.lag >= first /\ RowPasses(rows, node, s, first, n - node.lag))

\* A mutant: the mask of a lagged condition is that of the row itself.
MaskUnlagged(rows, node, s, first, n) == ~node.enabled \/ RowPasses(rows, node, s, first, n)

\* MASK_BUILDERS and _filter_mask_for_node: the turnover is compared as it is, and
\* a lagged condition masks nothing.
Mask(rows, node, s, first, n) ==
    \/ ~node.enabled \/ node.lag > 0
    \/ /\ Holds(node, Column(rows, node, s, n))
       /\ node.id = "macd_dead_cross" => WasNotBelow(rows, s, first, n)

-------------------------------------------------------------------------------
(* The engine.                                                              *)

\* The position of the first row of s from day start on, rows being in their order.
First(rows, s, start) ==
    CHOOSE n \in 1..(Len(rows[s]) + 1) :
        /\ n = Len(rows[s]) + 1 \/ rows[s][n].day >= start
        /\ n = 1 \/ rows[s][n - 1].day < start

RowsFrom(f, day) == [s \in Symbols |-> SubSeq(f[s], First(f, s, day), Len(f[s]))]

\* Mutant of Loaded: the indicators are computed on the backtest's own rows.
LoadedFromStart(f, start) == RowsFrom(f, start)

\* _backtest_read_start_date: the rows read for a backtest from day start.
Loaded(f, start) == RowsFrom(f, start - Warmup)

Nodes(st) == st.filters \cup (UNION {g.nodes : g \in st.groups}) \cup st.exits

\* _preflight, for the columns that can be empty.
Refused(rows, st) ==
    LET ids == {node.id : node \in Nodes(st)}
        all(f) == \A s \in Symbols : \A n \in DOMAIN rows[s] : rows[s][n][f] = NaN
    IN  \/ ids \cap FlowConditions # {} /\ all("flow")
        \/ "market_cap_between" \in ids /\ all("cap")

Weight(node) == node.weight

\* evaluate_group
GroupPasses(g, threshold, passes(_)) ==
    CASE g.op = "and" -> \A node \in g.nodes : passes(node)
      [] g.op = "or" -> \E node \in g.nodes : passes(node)
      [] g.op = "score" ->
            MapThenSumSet(Weight, {node \in g.nodes : passes(node)}) >= threshold

\* _candidate_prefilter_mask: score groups are left to the rows.
Prefiltered(rows, st, s, first, n) ==
    LET masked(node) == Mask(rows, node, s, first, n) IN
    /\ \A node \in st.filters : masked(node)
    /\ \A g \in st.groups : g.op # "score" => GroupPasses(g, 0, masked)

\* _passes_market_filters and _passes_entry
Passes(rows, st, s, first, n) ==
    LET passes(node) == Evaluate(rows, node, s, first, n) IN
    /\ \A node \in st.filters : passes(node)
    /\ \A g \in st.groups : GroupPasses(g, st.threshold, passes)

\* _scan_entry_candidates: the symbols of the pool with a row that is not barred
\* (suspended, ST where these are excluded, or listed too recently).
Rows(rows, d) ==
    {x \in Pool \X (1..d) : x[2] \in DOMAIN rows[x[1]] /\ rows[x[1]][x[2]].day = d}

Entries(rows, st, start, d) ==
    {x[1] : x \in {y \in Rows(rows, d) :
        LET first == First(rows, y[1], start) IN
        /\ ~rows[y[1]][y[2]].barred
        /\ Prefiltered(rows, st, y[1], first, y[2])
        /\ Passes(rows, st, y[1], first, y[2])}}

\* The symbols an exit rule would mark for sale.
Exits(rows, st, start, d) ==
    {x[1] : x \in {y \in Rows(rows, d) : \E node \in st.exits :
        Evaluate(rows, node, y[1], First(rows, y[1], start), y[2])}}

\* run_configured_backtest, as far as day d is concerned.
Matches(f, st, start, d) ==
    LET rows == Loaded(f, start) IN
    IF Refused(rows, st) THEN Blocked
    ELSE IF d < start THEN [entries |-> {}, exits |-> {}]
    ELSE [entries |-> Entries(rows, st, start, d), exits |-> Exits(rows, st, start, d)]

-------------------------------------------------------------------------------

SignalsInit ==
    /\ strategy \in Strategies
    /\ frame = [s \in Symbols |-> <<>>]
    /\ found = <<>>

\* A trading day ends, its rows are stored, and the strategy is run up to it.
NextDay(rows) ==
    LET d == Len(found) + 1 IN
    /\ d <= Days
    /\ frame' = [s \in Symbols |->
          IF rows[s] = NoRow THEN frame[s] ELSE Append(frame[s], [rows[s] EXCEPT !.day = d])]
    /\ found' = Append(found, Matches(frame', strategy, StartDay, d))
    /\ UNCHANGED strategy

SignalsNext == \E rows \in MarketDays : NextDay(rows)

SignalsSpec == SignalsInit /\ [][SignalsNext]_signalsVars

-------------------------------------------------------------------------------
(* Properties.                                                              *)

\* Nothing looks ahead: what a backtest finds on a day is what a backtest that
\* ended on that day found (run_backtest over the columns of enrich_for_strategy).
\* Only a strategy that was refused for lack of data may later find something.
NoLookAhead ==
    \A d \in DOMAIN found :
        found[d] # Blocked => Matches(frame, strategy, StartDay, d) = found[d]

PrefilterAgrees(st) ==
    LET rows == Loaded(frame, StartDay) IN
    \A x \in Rows(rows, Len(found)) :
        LET first == First(rows, x[1], StartDay) IN
        x[2] >= first /\ Passes(rows, st, x[1], first, x[2])
            => Prefiltered(rows, st, x[1], first, x[2])

\* The vectorised prefilter drops no row the conditions would accept, with any
\* operators, lags and disabled conditions, unless it is for a turnover
\* (_candidate_prefilter_mask, MASK_BUILDERS).
PrefilterIsSound ==
    (\A node \in Nodes(strategy) : node.id # "turnover_between") => PrefilterAgrees(strategy)

\* The prefilter does not drift away from the row-wise semantics.
PrefilterKeepsRows == PrefilterAgrees(strategy)

\* Conditions that look back only so many rows.  The means of a MACD never forget
\* where they began, and a lagged ratio of rising stocks counts stocks which may
\* have gone since.
Forgets(node) ==
    /\ node.id \notin MacdConditions
    /\ node.id = "market_rising_ratio_at_least" => node.lag = 0

\* The first day of a backtest is forgotten: once the warm-up covers what the
\* conditions look back to, an earlier start finds the same
\* (enrich_for_strategy, _backtest_read_start_date).
StartIsForgotten ==
    LET d == Len(found)
        since(s, from) == {n \in DOMAIN frame[s] : frame[s][n].day >= from}
        warm(start) == \A s \in Symbols :
            (\E n \in DOMAIN frame[s] : frame[s][n].day = d) =>
                /\ Cardinality(since(s, start - Warmup)) > 1
                /\ \A node \in Nodes(strategy) :
                      /\ Cardinality(since(s, start - Warmup)) > node.window + node.lag
                      /\ Cardinality(since(s, start)) > node.lag
        here == Matches(frame, strategy, StartDay, d)
    IN  d >= StartDay /\ warm(StartDay) /\ here # Blocked
          /\ (\A node \in Nodes(strategy) : Forgets(node))
        => \A start \in 1..d :
              warm(start) => Matches(frame, strategy, start, d) \in {here, Blocked}
===============================================================================
