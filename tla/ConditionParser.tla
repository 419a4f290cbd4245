--------------------------- MODULE ConditionParser ---------------------------
(***************************************************************************)
(* From the text of a condition to the condition (condition_parser.py).     *)
(* A text is the template it follows and the values written into it; money   *)
(* is in one unit and percentages are in hundredths.  A numeral is the       *)
(* sequence of its characters: the digits 0..9 and Ten.                      *)
(***************************************************************************)
EXTENDS Integers, Sequences

CONSTANTS Ten, Rejected

\* _node, and a ConditionNode in general: parameters a condition lacks are 0.
Node(id, window, min, max) ==
    [id |-> id, window |-> window, min |-> min, max |-> max,
     lag |-> 0, enabled |-> TRUE, weight |-> 1]

Text(template, window, min, max) ==
    [template |-> template, window |-> window, min |-> min, max |-> max]

\* _CHINESE_DIGITS.get(text, 0): anything but one digit is 0.
Digit(s) == IF Len(s) = 1 /\ s[1] # Ten THEN s[1] ELSE 0

\* _parse_window, of a numeral in Chinese characters.
ParseWindow(s) ==
    IF \E i \in DOMAIN s : s[i] = Ten
    THEN LET i == CHOOSE i \in DOMAIN s : s[i] = Ten /\ \A j \in 1..(i - 1) : s[j] # Ten
             tens == IF i = 1 THEN 1 ELSE Digit(SubSeq(s, 1, i - 1))
         IN  10 * tens + Digit(SubSeq(s, i + 1, Len(s)))
    ELSE Digit(s)

\* How a number below a hundred is written.
Numeral(n) ==
    LET ones == IF n % 10 = 0 /\ n > 0 THEN <<>> ELSE <<n % 10>>
    IN  CASE n < 10 -> <<n>>
          [] n \in 10..19 -> <<Ten>> \o ones
          [] OTHER -> <<n \div 10, Ten>> \o ones

\* PATTERNS
EntryPatterns ==
    [rising_ratio |-> "market_rising_ratio_at_least",
     above_ma |-> "close_above_ma",
     below_ma |-> "close_below_ma",
     volume_ratio |-> "volume_ratio_between",
     market_cap |-> "market_cap_between",
     turnover |-> "turnover_between",
     return_between |-> "past_return_between",
     return_below |-> "past_return_at_most",
     inflow_above |-> "flow_sum_at_least",
     outflow_above |-> "flow_sum_at_most",
     new_high |-> "breakout_above_n_day_high",
     macd_above |-> "macd_histogram_at_least"]

\* EXIT_PATTERNS
ExitPatterns ==
    [below_ma |-> "close_below_ma",
     return_below |-> "past_return_at_most",
     dead_cross |-> "macd_dead_cross",
     outflow_today |-> "flow_today_at_most",
     outflow_above |-> "flow_sum_at_most",
     outflow |-> "flow_sum_at_most",
     below_low |-> "breakdown_below_n_day_low",
     new_low |-> "breakdown_below_n_day_low"]

\* validate_condition_text and validate_exit_condition_text: an outflow above X is
\* a sum of flows of at most -X, any other outflow one of at most 0.
Parse(patterns, text) ==
    IF text.template \notin DOMAIN patterns THEN Rejected
    ELSE Node(patterns[text.template], ParseWindow(text.window), text.min,
              IF text.template = "outflow_above" THEN -text.max ELSE text.max)
==============================================================================
