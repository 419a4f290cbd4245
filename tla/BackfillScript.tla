---------------------------- MODULE BackfillScript -----------------------------
(***************************************************************************)
(* scripts/run-capital-flow-backfill.py, run again and again over one range  *)
(* of dates: batch after batch goes through fetch_capital_flow_into_cache,   *)
(* every symbol of it is recorded, and the run gives up when so many         *)
(* symbols in a row have failed.                                             *)
(***************************************************************************)
EXTENDS ProgressLog, FiniteSets, FiniteSetsExt, Naturals

CONSTANTS
    Market,         \* symbols, in the order of their numbers
    BatchSize,      \* --batch-size
    MaxFailures,    \* --max-consecutive-failures
    MaxFaults       \* a bound on crashes, batches that raise and fetches that fall short

VARIABLES
    pc,             \* where the script is, or "idle"
    todo,           \* selected symbols that were not recorded in this run
    result,         \* what the operation says of each symbol of the batch
    anonymous,      \* it reports a failure that names no symbol
    consecutive,    \* symbols that failed in a row
    skipEastmoney,
    filled,         \* symbols that lack no capital flow but on known dates
    bad,            \* symbols of which no source has all the flows
    patchy,         \* others of which a fetch left gaps and was reported complete
    faults

vars == <<logVars, pc, todo, result, anonymous, consecutive, skipEastmoney, filled,
          bad, patchy, faults>>

NoResult == [s \in {} |-> "skipped"]

Init ==
    /\ LogInit
    /\ pc = "idle" /\ todo = {} /\ result = NoResult /\ anonymous = FALSE
    /\ consecutive = 0 /\ skipEastmoney = FALSE /\ faults = 0
    /\ bad \in SUBSET Market /\ patchy = {}
    /\ filled \in {{}, Market \ bad}

\* select_missing_symbols_from_warehouse, and when nothing is missing the symbols of
\* the provider, or those that lack a flow on known dates when it lists none.
Selected(completed, others) ==
    LET missing == (Market \ filled) \ completed
    IN  IF missing # {} THEN missing ELSE others \ completed

\* run_backfill_from_args and the line "start".
Begin(resume) ==
    /\ pc = "idle"
    /\ CanBegin(resume)
    /\ \E others \in {{}, Market} : todo' = Selected(Completed(resume), others)
    /\ AppendLine({})
    /\ consecutive' = 0 /\ skipEastmoney' \in BOOLEAN
    /\ result' = NoResult /\ anonymous' = FALSE
    /\ pc' = "fetch"
    /\ UNCHANGED <<filled, bad, patchy, faults>>

\* chunks
Batch == {s \in todo : Cardinality({t \in todo : t < s}) < BatchSize}

\* What the operation can report of a symbol: nothing was missing; rows were
\* imported, or returned but not needed; only known dates are left; its dates are
\* not covered, after another source's rows, or after Sina's, of which some or none
\* were imported; it failed; or nothing at all.
Kinds == {"skipped", "imported", "returned", "knownGap", "short", "shortSina",
          "returnedSina", "failed", "nothing"}

\* Of a symbol that lacks nothing, nearly anything: it is fetched again when a date
\* of the range has no row.  A fetch that fills a symbol may still report it as short
\* (its flows begin after the range does); one that falls short may report rows that
\* were imported, for a day missing between two others is not noticed, nor are
\* Sina's short rows held against it.
Reports(s, short) ==
    CASE s \in filled -> Kinds \ {"nothing"}
      [] s \in bad -> Kinds \ {"knownGap"}
      [] s \in short -> Kinds \ {"knownGap", "skipped"}
      [] OTHER -> {"imported", "knownGap", "short", "shortSina"}

\* Reports of rows that leave gaps and are taken for complete by a resumed run.
Unnoticed == {"imported", "shortSina"}

\* run_batch; a source that fails is left out from then on.  The sources may fall
\* short of what they have: a failed page, an answer with blanks or with holes.
FetchBatch ==
    /\ pc = "fetch" /\ todo # {}
    /\ \E short \in SUBSET ((Batch \ bad) \ filled) :
          /\ short # {} => faults < MaxFaults
          /\ faults' = IF short = {} THEN faults ELSE faults + 1
          /\ result' \in {r \in [Batch -> Kinds] : \A s \in Batch : r[s] \in Reports(s, short)}
          /\ filled' = filled \cup ((Batch \ bad) \ short)
          /\ patchy' = patchy \cup {s \in short : result'[s] \in Unnoticed}
    /\ anonymous' = FALSE
    /\ skipEastmoney' \in {skipEastmoney, TRUE}
    /\ pc' = "record"
    /\ UNCHANGED <<logVars, todo, consecutive, bad>>

\* The crawler raises, which the operation reports as a failure of no symbol.
CrawlerRaises ==
    /\ pc = "fetch" /\ todo # {}
    /\ faults < MaxFaults /\ faults' = faults + 1
    /\ result' = [s \in Batch |-> "nothing"]
    /\ anonymous' = TRUE
    /\ pc' = "record"
    /\ UNCHANGED <<logVars, todo, consecutive, skipEastmoney, filled, bad, patchy>>

\* What a fetch that is broken off may leave: the flows of any part of the batch.
FillsSome == \E part \in SUBSET (Batch \ bad) : filled' = filled \cup part

\* The operation raises, perhaps after rows were written.
BatchRaises ==
    /\ pc = "fetch" /\ todo # {}
    /\ faults < MaxFaults /\ faults' = faults + 1
    /\ result' = [s \in Batch |-> "failed"]
    /\ anonymous' = FALSE
    /\ FillsSome
    /\ pc' = "record"
    /\ UNCHANGED <<logVars, todo, consecutive, skipEastmoney, bad, patchy>>

\* Mutant of IsComplete: a symbol nothing was said of is complete.
CompleteUnlessReported(r, unnamed, s) == ~unnamed /\ r[s] \notin {"failed", "short"}

\* symbol_operation_result and operation_completion
IsComplete(r, unnamed, s) == ~unnamed /\ r[s] \notin {"failed", "short", "nothing"}

\* load_completed_symbols: a symbol that is complete although nothing was imported
\* for it only counts when that is known to be right.
CountsAtResume(report) == report \notin {"returned", "returnedSina"}

\* Mutant of GivesUp: one failure too early.
GivesUpEarly(n) == MaxFailures > 0 /\ n + 1 >= MaxFailures /\ n > 0

GivesUp(n) == MaxFailures > 0 /\ n >= MaxFailures

\* The line of the next symbol of the batch, and "stopped" after too many failures.
Record(s) ==
    LET ok == IsComplete(result, anonymous, s)
    IN  /\ pc = "record"
        /\ s \in DOMAIN result /\ \A t \in DOMAIN result : s <= t
        /\ AppendLine(IF ok /\ CountsAtResume(result[s]) THEN {s} ELSE {})
        /\ consecutive' = IF ok THEN 0 ELSE consecutive + 1
        /\ todo' = todo \ {s}
        /\ result' = [t \in DOMAIN result \ {s} |-> result[t]]
        /\ pc' = CASE GivesUp(consecutive') -> "idle"
                   [] ~GivesUp(consecutive') /\ DOMAIN result' = {} -> "fetch"
                   [] OTHER -> "record"
        /\ UNCHANGED <<anonymous, skipEastmoney, filled, bad, patchy, faults>>

\* The line "finish".
Finish ==
    /\ pc = "fetch" /\ todo = {}
    /\ AppendLine({})
    /\ pc' = "idle"
    /\ UNCHANGED <<todo, result, anonymous, consecutive, skipEastmoney, filled, bad, patchy,
                   faults>>

\* The process dies; while it fetches, rows of its batch may have been written.
Crash ==
    /\ pc # "idle"
    /\ faults < MaxFaults /\ faults' = faults + 1
    /\ DieWhileAppending
    /\ IF pc = "fetch" THEN FillsSome ELSE UNCHANGED filled
    /\ pc' = "idle"
    /\ todo' = {} /\ result' = NoResult /\ anonymous' = FALSE
    /\ consecutive' = 0 /\ skipEastmoney' = FALSE
    /\ UNCHANGED <<bad, patchy>>

Step ==
    \/ FetchBatch \/ CrawlerRaises \/ BatchRaises \/ Finish
    \/ \E s \in Market : Record(s)

\* The command is given again and again.
Run == Step \/ \E resume \in BOOLEAN : Begin(resume)

Next == Run \/ Crash

Spec == Init /\ [][Next]_vars /\ WF_vars(Run)

-------------------------------------------------------------------------------

\* As long as a batch holds more symbols than there are without a source, or a run
\* puts up with so many failures in a row, repeating it fills all the others wherever
\* it crashed, gave up, raised or was answered with less than the source has; but for
\* a symbol whose gaps went unnoticed and that has its line in the progress file,
\* which a resumed run leaves out for good (run_supervised_backfill,
\* operation_completion, load_completed_symbols).
OthersAreFilled ==
    Cardinality(bad) < Max({BatchSize, MaxFailures}) =>
        <>[](Market \ bad \subseteq filled \cup (patchy \cap recorded))
================================================================================
