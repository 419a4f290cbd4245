------------------------------ MODULE Indicators ------------------------------
(***************************************************************************)
(* The indicator columns of a backtest (indicators.py).  A symbol's rows    *)
(* are a sequence in the order of their dates; column values belong to the  *)
(* n-th row.  A value is a fraction <<numerator, denominator>> or NaN; all   *)
(* ratios are in hundredths.                                                 *)
(***************************************************************************)
EXTENDS Integers, Sequences, FiniteSets, FiniteSetsExt, Functions

CONSTANTS
    NaN,
    Fast, Slow, Signal      \* the spans of the MACD

ASSUME IndicatorsAssumption == {Fast, Slow, Signal} \subseteq Nat \ {0}

Sum(s) == FoldFunction(LAMBDA x, y : x + y, 0, s)

\* The last w of the first n values of a column, if there are as many.
Window(r, f, w, n) == [i \in 1..w |-> r[n - w + i][f]]

\* add_moving_average: the close above the mean of the last w closes.
CloseOverMA(r, w, n) ==
    IF n < w THEN NaN ELSE <<r[n].close * w - Sum(Window(r, "close", w, n)), w>>

\* add_returns
Return(r, w, n) ==
    IF n <= w THEN NaN
    ELSE <<100 * (r[n].close - r[n - w].close), r[n - w].close>>

\* add_volume_ratio: the volume over the mean of the w volumes before it.
VolumeRatio(r, w, n) ==
    IF n <= w THEN NaN
    ELSE <<100 * w * r[n].volume, Sum(Window(r, "volume", w, n - 1))>>

\* add_capital_flow_sum: one row without a flow makes the sum unknown ...
FlowSum(r, w, n) ==
    IF n < w \/ NaN \in Range(Window(r, "flow", w, n)) THEN NaN
    ELSE <<Sum(Window(r, "flow", w, n)), 1>>

\* add_capital_flow_positive_count: ... but only counts as one that is not positive.
PositiveCount(r, w, n) ==
    IF n < w THEN NaN
    ELSE <<Cardinality({i \in (n - w + 1)..n : r[i].flow # NaN /\ r[i].flow > 0}), 1>>

\* add_prior_high_low: the close over the extremes of the w rows before it.
CloseOverHigh(r, w, n) ==
    IF n <= w THEN NaN
    ELSE <<r[n].close - Max(Range(Window(r, "high", w, n - 1))), 1>>

CloseOverLow(r, w, n) ==
    IF n <= w THEN NaN
    ELSE <<r[n].close - Min(Range(Window(r, "low", w, n - 1))), 1>>

\* An exponential mean of the values x[i] / base^(i-1), which starts with the first
\* one: y[i] = (2 x[i] + (span - 1) y[i-1]) / (span + 1).  Its numerators, over
\* (base * (span + 1))^(i-1).
Ewm(x, base, span, n) ==
    LET y[i \in 1..n] ==
            IF i = 1 THEN x[1]
            ELSE 2 * x[i] * (span + 1)^(i - 2) + (span - 1) * base * y[i - 1]
    IN  y

\* add_macd: the numerators of dif, over MacdBase^(i-1).
MacdBase == (Fast + 1) * (Slow + 1)

Dif(r, n) ==
    LET closes == [i \in 1..n |-> r[i].close]
        fast   == Ewm(closes, 1, Fast, n)
        slow   == Ewm(closes, 1, Slow, n)
    IN  [i \in 1..n |-> fast[i] * (Slow + 1)^(i - 1) - slow[i] * (Fast + 1)^(i - 1)]

\* dif - dea
DifOverDea(r, n) ==
    LET dif == Dif(r, n)
        dea == Ewm(dif, MacdBase, Signal, n)
    IN  <<dif[n] * (Signal + 1)^(n - 1) - dea[n], (MacdBase * (Signal + 1))^(n - 1)>>

\* macd_hist, in hundredths
Hist(r, n) == <<200 * DifOverDea(r, n)[1], DifOverDea(r, n)[2]>>

\* add_market_heat: how many of the rows of the day closed higher than the row
\* before them; a symbol's first row did not.
Heat(rows, day) ==
    LET at(s) == {n \in 1..Len(rows[s]) : rows[s][n].day = day}
        there  == {s \in DOMAIN rows : at(s) # {}}
        rising == {s \in there : \E n \in at(s) : n > 1 /\ rows[s][n].close > rows[s][n - 1].close}
    IN  <<100 * Cardinality(rising), Cardinality(there)>>
===============================================================================
