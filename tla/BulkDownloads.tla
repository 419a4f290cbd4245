----------------------------- MODULE BulkDownloads -----------------------------
(***************************************************************************)
(* The ways to fill the warehouse with many symbols: a job of the            *)
(* application, of either kind, or one of the two maintenance scripts, which *)
(* are run while the application has nothing to do.                          *)
(***************************************************************************)
EXTENDS SyncManager

CONSTANTS Market, Bundled, MaxFailures, MaxFaults

\* What ImportScript and BackfillScript take of their parameters.
ASSUME BulkAssumption ==
    /\ Market \subseteq Nat
    /\ Bundled \subseteq Market
    /\ MaxFailures \in Nat /\ MaxFaults \in Nat

VARIABLES
    script,                             \* "none", "import" or "backfill"
    place, faults,                      \* of either script
    recorded, cut, decodable,           \* its progress file
    symbolsFile, symbols, results, batch, missed, imported,             \* import
    todo, result, anonymous, consecutive, leftOut, filledIn, bad, patchy \* backfill

Import == INSTANCE ImportScript WITH
    WriteBatch <- BatchSize, pc <- place, futures <- results, stored <- imported

Backfill == INSTANCE BackfillScript WITH
    pc <- place, skipEastmoney <- leftOut, filled <- filledIn

importVars == <<symbolsFile, symbols, results, batch, missed, imported>>
backfillVars == <<todo, result, anonymous, consecutive, leftOut, filledIn, bad, patchy>>
scriptVars == <<script, place, faults, recorded, cut, decodable, importVars, backfillVars>>

NoImport ==
    /\ symbolsFile = {} /\ symbols = {} /\ results = {}
    /\ batch = {} /\ missed = {} /\ imported = {}

NoBackfill ==
    /\ todo = {} /\ result = Backfill!NoResult /\ anonymous = FALSE
    /\ consecutive = 0 /\ leftOut = FALSE /\ filledIn = {} /\ bad = {} /\ patchy = {}

Idle == mode = "full_market_bootstrap" /\ job.status = "completed"

BulkInit ==
    /\ Init
    /\ \/ script = "none" /\ Import!Init /\ NoBackfill
       \/ script = "import" /\ Idle /\ Import!Init /\ NoBackfill
       \/ script = "backfill" /\ Idle /\ Backfill!Init /\ NoImport

JobStep == script = "none" /\ Next /\ UNCHANGED scriptVars

ImportStep ==
    /\ script = "import"
    /\ Import!Next
    /\ UNCHANGED <<vars, script, backfillVars>>

BackfillStep ==
    /\ script = "backfill"
    /\ Backfill!Next
    /\ UNCHANGED <<vars, script, importVars>>

BulkNext == JobStep \/ ImportStep \/ BackfillStep

bulkVars == <<vars, scriptVars>>

\* The job's thread is scheduled; the command of the backfill is repeated.
BulkSpec ==
    /\ BulkInit /\ [][BulkNext]_bulkVars
    /\ WF_bulkVars(Thread /\ UNCHANGED scriptVars)
    /\ WF_bulkVars(script = "backfill" /\ Backfill!Run /\ UNCHANGED <<vars, script, importVars>>)

-------------------------------------------------------------------------------

\* A symbol that a resumed import leaves out is in the warehouse (ImportScript).
RecordedIsStored == script = "import" => Import!RecordedIsStored

\* Repeating the backfill fills every symbol that has a source, but for those whose
\* gaps went unnoticed (BackfillScript).
OthersAreFilled == script = "backfill" => Backfill!OthersAreFilled

\* What the sync job and the backfill script make of the same report is the same,
\* but for rows of Sina's that do not cover the dates and for a failure that names
\* no symbol (sync.py:573-613, run-capital-flow-backfill.py:197-227).
ReportOf(r) ==
    LET those(reports) == {s \in DOMAIN r : r[s] \in reports}
    IN  [skipped |-> those({"skipped"}),
         fetched |-> those(Backfill!Kinds \ {"skipped", "failed", "nothing"}),
         failures |-> those({"failed"}),
         shortfall |-> those({"short", "shortSina", "returnedSina"})]

ScriptAgreesWithJob ==
    place = "record" /\ ~anonymous =>
        \A s \in DOMAIN result : result[s] \notin {"shortSina", "returnedSina"} =>
            (Backfill!IsComplete(result, anonymous, s)
                <=> s \in C!CompletedSymbols(DOMAIN result, ReportOf(result)))
================================================================================
