---------------------------- MODULE CapitalFlowJob ----------------------------
(***************************************************************************)
(* SyncJobManager._run_capital_flow_job: batch after batch goes through    *)
(* fetch_capital_flow_into_cache, and the job counts what came back.       *)
(***************************************************************************)
EXTENDS SyncJob, Integers

VARIABLES
    pc,             \* where the job's thread is
    skipEastmoney,  \* the source that failed is left out of later batches
    final,          \* the copy made by get_job at the end
    filled          \* symbols whose rows came back complete, or were complete

cfVars == <<pc, skipEastmoney, final, filled>>
vars == <<jobVars, cfVars>>

Labels == {"batch", "fetch", "check", "getfinal", "storefinal", "except", "end"}

Init ==
    /\ JobInit
    /\ pc = IF job.status = "running" THEN "batch" ELSE "end"
    /\ skipEastmoney = FALSE
    /\ final = job
    /\ filled = {}

Batch == Chunk(next - BatchSize)

\* What fetch_capital_flow_into_cache can report for a batch: the symbols that
\* were complete already, those with rows, those the crawler reports as failed
\* and those whose dates are not covered.
Results(batch) ==
    {r \in [skipped : SUBSET batch, fetched : SUBSET batch,
            failures : SUBSET batch, shortfall : SUBSET batch] :
        r.skipped \cap (r.fetched \cup r.failures \cup r.shortfall) = {}}

Missing(batch, r) ==
    ((batch \ r.skipped) \ r.fetched) \cup r.failures

\* _capital_flow_failure_reasons: failures, shortfalls and missing symbols.
FailureReasons(batch, r) == r.failures \cup r.shortfall \cup Missing(batch, r)

\* Mutant of CompletedSymbols: a symbol with rows counts as completed.
CompletedIfFetched(batch, r) == r.fetched \cup r.skipped

\* _completed_capital_flow_symbols
CompletedSymbols(batch, r) ==
    (r.fetched \cup r.skipped) \ FailureReasons(batch, r)

Cancel ==
    /\ CancelJob
    /\ UNCHANGED cfVars

\* RuntimeError: the job was started without a cache or a crawler.
NotConfigured ==
    /\ pc = "batch"
    /\ next = 1
    /\ pc' = "except"
    /\ UNCHANGED <<jobVars, skipEastmoney, final, filled>>

StartBatch ==
    /\ pc = "batch"
    /\ next <= Symbols
    /\ ~cancelled
    /\ next' = next + BatchSize
    /\ pc' = "fetch"
    /\ UNCHANGED <<job, cancelled, skipEastmoney, final, filled>>

\* The crawler fetches the batch; a source that is left out cannot fail.
FetchBatch ==
    /\ pc = "fetch"
    /\ \E r \in Results(Batch), down \in BOOLEAN :
          /\ skipEastmoney => ~down
          /\ skipEastmoney' = (skipEastmoney \/ down)
          /\ job' = [job EXCEPT
                !.processed = @ + Cardinality(Batch),
                !.completed = @ + Cardinality(CompletedSymbols(Batch, r)),
                !.failed    = @ + Cardinality(FailureReasons(Batch, r)),
                !.skipped   = @ + Cardinality(r.skipped),
                !.imported  = @ + Cardinality(r.fetched)]
          /\ filled' = filled \cup r.skipped
                              \cup (r.fetched \ (r.failures \cup r.shortfall))
    /\ pc' = "check"
    /\ UNCHANGED <<cancelled, next, final>>

\* The fetch raises, before or after it has written rows: the whole batch counts
\* as failed, and none of it as completed.
BatchRaises ==
    /\ pc = "fetch"
    /\ job' = [job EXCEPT !.processed = @ + Cardinality(Batch),
                          !.failed = @ + Cardinality(Batch)]
    /\ pc' = "check"
    /\ UNCHANGED <<cancelled, next, skipEastmoney, final, filled>>

\* A requested cancel ends the job before or after a batch.
CancelSeen ==
    /\ pc = "check" \/ (pc = "batch" /\ next <= Symbols)
    /\ FinishCancelled
    /\ pc' = "end"
    /\ UNCHANGED <<skipEastmoney, final, filled>>

NoCancelSeen ==
    /\ pc = "check"
    /\ ~cancelled
    /\ pc' = "batch"
    /\ UNCHANGED <<jobVars, skipEastmoney, final, filled>>

GetFinal ==
    /\ pc = "batch"
    /\ next > Symbols
    /\ final' = FinalCopy
    /\ pc' = "storefinal"
    /\ UNCHANGED <<jobVars, skipEastmoney, filled>>

PutFinal ==
    /\ pc = "storefinal"
    /\ StoreFinal(final)
    /\ pc' = "end"
    /\ UNCHANGED <<skipEastmoney, final, filled>>

Except ==
    /\ pc = "except"
    /\ FailJob
    /\ pc' = "end"
    /\ UNCHANGED <<skipEastmoney, final, filled>>

Worker ==
    \/ NotConfigured \/ StartBatch \/ FetchBatch \/ BatchRaises \/ CancelSeen
    \/ NoCancelSeen \/ GetFinal \/ PutFinal \/ Except

Next == Cancel \/ Worker

\* The job's thread is scheduled and the crawler's requests time out.
Spec == Init /\ [][Next]_vars /\ WF_vars(Worker)

-------------------------------------------------------------------------------

\* The job record and the local variables of the job's thread keep their types
\* (models.py:175-194, sync.py:465-534).
TypeOK ==
    /\ JobTypeOK
    /\ pc \in Labels
    /\ skipEastmoney \in BOOLEAN
    /\ final \in JobRecord
    /\ filled \subseteq 1..Symbols

\* Each processed symbol is counted as completed or as failed, never as both: a
\* symbol is not completed while the crawler reports a gap for it
\* (sync.py:498-508, 573-613).
GapsAreNotCompleted ==
    next > 1 =>
        /\ job.processed = job.completed + job.failed
        /\ job.completed = Cardinality(filled)
        /\ job.skipped <= job.completed
        /\ job.status = "completed" => filled = 1..Symbols
===============================================================================
