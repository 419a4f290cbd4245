------------------------------ MODULE FlowCrawler ------------------------------
(***************************************************************************)
(* What the capital-flow crawler makes of the answers of its three sources *)
(* for one symbol and the trading days 1..LastDay                          *)
(* (data/capital_flow_crawler.py).  A source answers with the days it has  *)
(* a row for and, among them, those whose row has an amount: a row whose   *)
(* amount is blank is kept and counts as returned.  Or it fails with a     *)
(* code.                                                                   *)
(***************************************************************************)
EXTENDS Naturals

CONSTANT LastDay

ASSUME LastDayAssumption == LastDay \in Nat \ {0}

Days == 1..LastDay

Codes == {"ok", "network_error", "empty_klines"}

\* What a source answers: the days of its rows, and those that have an amount.
Answer(code, days, flows) == [code |-> code, days |-> days, flows |-> flows]

NoAnswer(code) == Answer(code, {}, {})

\* date_coverage_shortfall: the rows begin too late or end too early.  A day
\* missing between them is not noticed.
IsShort(days) == {1, LastDay} \ days # {}

\* _should_try_baidu_fallback: Eastmoney's rows are not enough.
NeedsFallback(east) == east.days = {} \/ IsShort(east.days)

\* An answer that parses but holds no row of the range is an error of Sina's and
\* of Baidu's, not of Eastmoney's.
OrEmpty(a) == IF a.code = "ok" /\ a.days = {} THEN NoAnswer("empty_klines") ELSE a

\* _fetch_sina_history_rows: the answer that is left after the retries.
SinaRows(a) == OrEmpty(a)

\* _fetch_baidu_history_rows, which turns the pages and retries each.
BaiduRows(a) == OrEmpty(a)

\* _supplement_missing_rows_with_baidu: Baidu fills the holes of Sina's rows, with
\* amounts only.  A blank row of Sina's is no hole.
Supplemented(sina, baidu) ==
    LET holes == {d \in Days \ sina.days : \E x, y \in sina.days : x < d /\ d < y}
        found == holes \cap baidu.flows
    IN  Answer("ok", sina.days \cup found, sina.flows \cup found)

Result(answer, provider, short, blamed) ==
    [code |-> answer.code, days |-> answer.days, flows |-> answer.flows, provider |-> provider,
     short |-> short,      \* a diagnostic says the dates are not covered
     blamed |-> blamed]    \* a diagnostic says Eastmoney failed with a network error

\* _fetch_fallback_rows: Sina, its holes filled from Baidu; else Baidu alone.
Fallback(sina, baidu) ==
    LET s == SinaRows(sina)
        b == BaiduRows(baidu)
    IN  CASE s.code = "ok" ->
               Result(Supplemented(s, b), "sina", IsShort(s.days), FALSE)
          [] s.code # "ok" /\ b.code = "ok" -> Result(b, "baidu", IsShort(b.days), FALSE)
          [] OTHER -> Result(NoAnswer(b.code), "none", FALSE, FALSE)

Failed == Result(NoAnswer("network_error"), "none", FALSE, TRUE)

\* _diagnostics_should_skip_eastmoney, for what Eastmoney is said to have failed with.
Blamed(result, failure) == [result EXCEPT !.blamed = failure = "network_error"]

\* _fetch_fund_flow_with_diagnostics.  When Eastmoney's rows are short and the
\* fallback fails too, the handler below takes that for a failure of Eastmoney's:
\* its rows are dropped, the fallback is asked once more, and Eastmoney is blamed.
Fetch(skip, east, first, second) ==
    CASE skip -> Blamed(first, first.code)
      [] ~skip /\ east.code = "ok" /\ ~NeedsFallback(east) ->
           Result(east, "eastmoney", FALSE, FALSE)
      [] ~skip /\ east.code = "ok" /\ NeedsFallback(east) /\ first.code = "ok" ->
           [first EXCEPT !.short = TRUE]
      [] ~skip /\ east.code = "ok" /\ NeedsFallback(east) /\ first.code # "ok" ->
           IF second.code = "ok"
           THEN Blamed([second EXCEPT !.short = TRUE], first.code)
           ELSE Failed
      [] OTHER ->
           IF first.code = "ok" THEN Blamed(first, east.code) ELSE Failed

\* Everything a symbol's fetch can come to when each source gives one of "answers".
Outcomes(skip, answers) ==
    LET fallbacks == {Fallback(s, b) : s \in answers, b \in answers}
    IN  {Fetch(skip, e, f, g) : e \in answers, f \in fallbacks, g \in fallbacks}
=============================================================================
