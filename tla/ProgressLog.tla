------------------------------ MODULE ProgressLog ------------------------------
(***************************************************************************)
(* The progress file of a maintenance script, one JSON line per event       *)
(* (append_jsonl, load_completed_symbols).  A process that dies leaves the   *)
(* line it is writing unfinished; the next line, of the next run, is glued   *)
(* to it and both are skipped when the file is read.                         *)
(***************************************************************************)

VARIABLES
    recorded,   \* symbols with a line a resumed run counts as completed
    cut,        \* the last line is unfinished
    decodable   \* no line was cut within a character

logVars == <<recorded, cut, decodable>>

LogInit == recorded = {} /\ cut = FALSE /\ decodable = TRUE

\* append_jsonl, of a line that completes the symbols of "counted".
AppendLine(counted) ==
    /\ recorded' = IF cut THEN recorded ELSE recorded \cup counted
    /\ cut' = FALSE
    /\ UNCHANGED decodable

\* The process dies, perhaps while it appends a line.
DieWhileAppending ==
    \/ UNCHANGED logVars
    \/ cut' = TRUE /\ decodable' \in {decodable, FALSE} /\ UNCHANGED recorded

\* What a run begins with; a file that cannot be decoded ends a resumed run.
CanBegin(resume) == resume => decodable
Completed(resume) == IF resume THEN recorded ELSE {}
================================================================================
