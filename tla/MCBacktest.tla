------------------------------ MODULE MCBacktest ------------------------------
(* Two symbols with the bars that matter: a flat day,                       *)
(* a day that falls to the lower limit and opens there, one that rises from  *)
(* a low open through both thresholds, and a suspended day.                  *)
EXTENDS Backtest

CONSTANTS s1, s2

Bar(o, h, l, c, limit) ==
    [open |-> o, high |-> h, low |-> l, close |-> c, limit |-> limit,
     suspended |-> FALSE]

Flat == Bar(10, 10, 10, 10, "no")

BarsOf(s) ==
    IF s = s1
    THEN {[Flat EXCEPT !.suspended = TRUE], Bar(8, 8, 8, 8, "down"),
          Bar(9, 13, 7, 12, "no")}
    ELSE {Flat, Bar(12, 13, 7, 11, "up")}

MCMarketDays ==
    {rows \in [Symbols -> (UNION {BarsOf(s) : s \in Symbols}) \cup {NoBar}] :
        /\ \A s \in Symbols : rows[s] \in BarsOf(s) \cup {NoBar}
        /\ rows # NoRows}

Default ==
    [initialCash |-> 44, slippage |-> 1, fee |-> 1, tax |-> 1,
     sizing |-> "fixed_ratio", positionSize |-> 5, holdingDays |-> 3,
     takeProfit |-> 1, stopLoss |-> 1, maxPositions |-> 2, maxDailyBuys |-> 2,
     limitUpBlocks |-> TRUE, limitDownBlocks |-> TRUE]

\* Equal slots with one buy a day and no thresholds, fixed ratio with both
\* thresholds and no limits, and one slot only.
MCSettings ==
    {[Default EXCEPT !.sizing = "equal_slots", !.maxDailyBuys = 1,
                     !.takeProfit = 0, !.stopLoss = 0],
     [Default EXCEPT !.limitUpBlocks = FALSE, !.limitDownBlocks = FALSE,
                     !.holdingDays = 4, !.positionSize = 8],
     [Default EXCEPT !.maxPositions = 1, !.positionSize = 10, !.slippage = 0]}
===============================================================================
