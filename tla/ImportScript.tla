----------------------------- MODULE ImportScript ------------------------------
(***************************************************************************)
(* scripts/run-full-market-import.py, run again and again over one range of  *)
(* dates: the symbols of a list are downloaded by a pool of threads, and     *)
(* frames are written in batches and recorded one by one afterwards.         *)
(***************************************************************************)
EXTENDS ProgressLog, FiniteSets, Naturals

CONSTANTS
    Market,      \* the symbols the provider lists
    Bundled,     \* those of the list that comes with the provider's package
    WriteBatch,  \* --write-batch-size
    MaxFaults    \* a bound on crashes and failed writes

VARIABLES
    pc,           \* where the script is, or "idle"
    symbolsFile,  \* symbols.csv
    symbols,      \* the list of this run
    futures,      \* symbols whose result has not been taken
    batch,        \* symbols with a frame to be written or recorded
    missed,       \* symbols this run reported as failed or without rows
    stored,       \* symbols whose rows are in the warehouse
    faults

runVars == <<symbols, futures, batch, missed>>
vars == <<logVars, pc, symbolsFile, runVars, stored, faults>>

Init ==
    /\ LogInit
    /\ pc = "idle" /\ symbolsFile = {} /\ stored = {} /\ faults = 0
    /\ symbols = {} /\ futures = {} /\ batch = {} /\ missed = {}

\* load_symbols: the cached list, or with --refresh-symbols or without a cached one
\* that of the provider, the bundled one when it fails, and the cached one when that
\* fails too.
LoadSymbols(refresh) ==
    /\ pc = "idle"
    /\ \/ /\ symbolsFile # {}
          /\ symbols' = symbolsFile
          /\ pc' = "begin"
       \/ /\ refresh \/ symbolsFile = {}
          /\ symbols' \in {Market, Bundled} \ {{}}
          /\ pc' = "writelist"
    /\ futures' = {} /\ batch' = {} /\ missed' = {}
    /\ UNCHANGED <<logVars, symbolsFile, stored, faults>>

\* write_symbols_cache
WriteList ==
    /\ pc = "writelist"
    /\ symbolsFile' = symbols
    /\ pc' = "begin"
    /\ UNCHANGED <<logVars, runVars, stored, faults>>

\* The line "start".  A symbol without rows is downloaded again.
Begin(resume) ==
    /\ pc = "begin"
    /\ CanBegin(resume)
    /\ futures' = symbols \ Completed(resume)
    /\ AppendLine({})
    /\ pc' = "collect"
    /\ UNCHANGED <<symbolsFile, symbols, batch, missed, stored, faults>>

\* The result of a symbol: rows, which wait for their batch, or a line that says
\* it failed or has none.
Collect(s) ==
    /\ pc = "collect" /\ s \in futures
    /\ futures' = futures \ {s}
    /\ \/ /\ batch' = batch \cup {s}
          /\ pc' = IF Cardinality(batch') >= WriteBatch THEN "write" ELSE "collect"
          /\ UNCHANGED <<logVars, missed>>
       \/ /\ missed' = missed \cup {s}
          /\ AppendLine({})
          /\ UNCHANGED <<batch, pc>>
    /\ UNCHANGED <<symbolsFile, symbols, stored, faults>>

\* Mutant of Write: a write that raises is taken for one that went well.
WriteAnyway ==
    /\ pc = "write"
    /\ stored' \in {stored, stored \cup batch}
    /\ pc' = "record"
    /\ UNCHANGED <<logVars, symbolsFile, runVars, faults>>

\* flush_batch: the frames are written ...
Write ==
    /\ pc = "write"
    /\ stored' = stored \cup batch
    /\ pc' = "record"
    /\ UNCHANGED <<logVars, symbolsFile, runVars, faults>>

\* ... which may raise and end the run, once the other threads are done.
WriteRaises ==
    /\ pc = "write"
    /\ faults < MaxFaults /\ faults' = faults + 1
    /\ pc' = "idle"
    /\ UNCHANGED <<logVars, symbolsFile, runVars, stored>>

\* ... and each symbol is recorded.
Record(s) ==
    /\ pc = "record" /\ s \in batch
    /\ AppendLine({s})
    /\ batch' = batch \ {s}
    /\ pc' = IF batch' = {} THEN "collect" ELSE "record"
    /\ UNCHANGED <<symbolsFile, symbols, futures, missed, stored, faults>>

\* The last batch is flushed although it is not full.
LastFlush ==
    /\ pc = "collect" /\ futures = {} /\ batch # {}
    /\ pc' = "write"
    /\ UNCHANGED <<logVars, symbolsFile, runVars, stored, faults>>

\* The line "finish".
Finish ==
    /\ pc = "collect" /\ futures = {} /\ batch = {}
    /\ AppendLine({})
    /\ pc' = "idle"
    /\ UNCHANGED <<symbolsFile, runVars, stored, faults>>

\* The process dies.  A list that was being written is left half written.
Crash ==
    /\ pc # "idle"
    /\ faults < MaxFaults /\ faults' = faults + 1
    /\ IF pc = "writelist" THEN symbolsFile' \in SUBSET symbols
                           ELSE UNCHANGED symbolsFile
    /\ IF pc \in {"begin", "collect", "record"} THEN DieWhileAppending
                                                ELSE UNCHANGED logVars
    /\ pc' = "idle"
    /\ UNCHANGED <<runVars, stored>>

Next ==
    \/ \E b \in BOOLEAN : LoadSymbols(b) \/ Begin(b)
    \/ WriteList \/ Write \/ WriteRaises \/ LastFlush \/ Finish \/ Crash
    \/ \E s \in Market : Collect(s) \/ Record(s)

-------------------------------------------------------------------------------

\* A symbol that a resumed run leaves out is in the warehouse, whatever crashed
\* between the write and the lines of a batch (flush_batch, load_completed_symbols).
RecordedIsStored == recorded \subseteq stored
================================================================================
