------------------------------ MODULE MCSignals ------------------------------
(* A symbol with three kinds of days, which rise, fall and stand still, and one *)
(* with one kind; every condition by itself, and groups of them.                *)
EXTENDS Signals

CONSTANTS s1, s2

\* Numerals are read as they are written.
ASSUME NumeralsAreRead == \A n \in 0..99 : ParseWindow(Numeral(n)) = n

\* The day is filled in when it comes.
Bar(high, low, close, volume, flow, cap, turnover, barred) ==
    [day |-> 0, high |-> high, low |-> low, close |-> close, volume |-> volume, flow |-> flow,
     cap |-> cap, turnover |-> turnover, barred |-> barred]

RowsOf(s) ==
    IF s = s1
    THEN {Bar(12, 9, 12, 4, 3, 5, 4, FALSE), Bar(10, 6, 7, 2, -2, 9, 400, FALSE),
          Bar(10, 8, 9, 2, NaN, NaN, 9, TRUE)}
    ELSE {Bar(11, 8, 10, 3, 1, 5, 300, FALSE)}

MCMarketDays ==
    {rows \in [Symbols -> (UNION {RowsOf(s) : s \in Symbols}) \cup {NoRow}] :
        \A s \in Symbols : rows[s] \in RowsOf(s) \cup {NoRow}}

Entry(template, window, min, max) == Parse(EntryPatterns, Text(template, window, min, max))
Exit(template, window, min, max) == Parse(ExitPatterns, Text(template, window, min, max))

One == <<1>>
Two == <<2>>

EntryNodes ==
    {Entry("rising_ratio", One, 50, 0), Entry("above_ma", Two, 0, 0), Entry("below_ma", Two, 0, 0),
     Entry("volume_ratio", One, 50, 150), Entry("market_cap", <<0>>, 1, 8),
     Entry("return_between", One, -20, 10), Entry("return_below", Two, 0, 0),
     Entry("inflow_above", Two, 2, 0), Entry("outflow_above", Two, 0, 1),
     Entry("new_high", One, 0, 0), Entry("macd_above", <<0>>, 0, 0),
     Node("flow_today_at_least", 0, 1, 0), Node("flow_positive_count_at_least", 2, 1, 0)}

ExitNodes ==
    {Exit("below_ma", Two, 0, 0), Exit("return_below", One, 0, 0), Exit("dead_cross", <<0>>, 0, 0),
     Exit("outflow_today", <<0>>, 0, 0), Exit("outflow_above", Two, 0, 1), Exit("outflow", Two, 0, 0),
     Exit("below_low", Two, 0, 0), Exit("new_low", One, 0, 0)}

Strategy(filters, groups, exits, threshold) ==
    [filters |-> filters, groups |-> groups, exits |-> exits, threshold |-> threshold]

Group(op, nodes) == [op |-> op, nodes |-> nodes]

Turnover == Entry("turnover", <<0>>, 2, 8)
High == Entry("new_high", One, 0, 0)
Above == Entry("above_ma", Two, 0, 0)
Cap == Entry("market_cap", <<0>>, 1, 8)
Inflow == Entry("inflow_above", Two, 2, 0)

Singles ==
    {Strategy({}, {Group("and", {node})}, {exit}, 0) : node \in EntryNodes,
                                                       exit \in {Exit("dead_cross", <<0>>, 0, 0)}}
    \cup {Strategy({}, {Group("and", {Cap})}, {exit}, 0) : exit \in ExitNodes}

\* Lagged, disabled and weighted conditions under the three operators.
Groups ==
    {Strategy({Entry("rising_ratio", One, 50, 0)}, {Group("or", {[Above EXCEPT !.lag = 1], Inflow})}, {}, 0),
     Strategy({[Inflow EXCEPT !.enabled = FALSE]},
              {Group("and", {[High EXCEPT !.lag = 1]}), Group("or", {Cap, High})},
              {[Cap EXCEPT !.lag = 1]}, 0),
     Strategy({}, {Group("score", {High, [Above EXCEPT !.weight = 2], [Cap EXCEPT !.lag = 2]}),
                   Group("or", {Above, [Cap EXCEPT !.enabled = FALSE]})}, {}, 2)}

MCStrategies == Singles \cup Groups \cup {Strategy({}, {Group("or", {Turnover, High})}, {}, 0)}
==============================================================================
