-------------------------- MODULE MCDataOperations --------------------------
EXTENDS DataOperations

CONSTANTS s1, s2

\* s1: all rows, the newest one, or none; s2: all rows, rows without an amount, or a
\* failure.
MCAnswers == [s \in Symbols |->
    {Answer("ok", Days, Days)}
    \cup IF s = s1 THEN {Answer("ok", {3}, {3}), Answer("ok", {}, {})}
                  ELSE {Answer("ok", Days, {}), NoAnswer("network_error")}]

MCListedOn == [s \in Symbols |-> IF s = s1 THEN 1 ELSE 2]
MCLateStart == {s2}
MCSuspended == [s \in Symbols |-> IF s = s1 THEN {{2}} ELSE {{}}]
MCLists == {{s2}, {s1, s2}}
MCStarts == {[s \in Symbols |-> IF s = s1 THEN 1 ELSE 3]}
=============================================================================
