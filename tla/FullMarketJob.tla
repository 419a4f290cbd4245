----------------------------- MODULE FullMarketJob ----------------------------
(***************************************************************************)
(* SyncJobManager._run_full_market_job: the full-market download.          *)
(*                                                                         *)
(* A pool of threads fetches the symbols of a batch and the job's thread   *)
(* takes the results in any order.  Frames are kept in memory and flushed  *)
(* to the warehouse after a full batch, after a batch with a failure, or   *)
(* when enough rows are pending.  Each symbol has one row here.            *)
(***************************************************************************)
EXTENDS SyncJob, Integers

CONSTANT
    WriteRows   \* full_market_write_batch_rows

VARIABLES
    pc,         \* where the job's thread is
    futures,    \* symbols of the batch whose result has not been taken
    symbol,     \* the symbol whose result is being taken
    complete,   \* complete_symbols of the snapshot: not fetched again
    batchFailed,
    frames,     \* symbols fetched in this batch
    pending,    \* pending_frames
    back,       \* where the thread goes on after a flush
    final,      \* the copy made by get_job at the end
    fetched,    \* symbols counted as completed
    stored      \* symbols whose rows are in the warehouse

fmVars == <<pc, futures, symbol, complete, batchFailed, frames, pending,
            back, final, fetched, stored>>
vars == <<jobVars, fmVars>>

Labels == {"snapshot", "batch", "take", "settle", "keep", "flush", "count",
           "check", "wrapup", "getfinal", "storefinal", "except", "end"}

NoSymbol == 0

\* The batch that was started last.
Batch == Chunk(next - BatchSize)

Init ==
    /\ JobInit
    /\ pc = IF job.status = "running" THEN "snapshot" ELSE "end"
    /\ futures = {} /\ symbol = NoSymbol /\ complete = {}
    /\ batchFailed = FALSE /\ frames = {} /\ pending = {}
    /\ back = "check"
    /\ final = job
    /\ fetched = {} /\ stored = {}

\* An HTTP thread asks for the job to stop.
Cancel ==
    /\ CancelJob
    /\ UNCHANGED fmVars

\* _daily_completeness_snapshot reads the warehouse, which may raise.
Snapshot ==
    /\ pc = "snapshot"
    /\ \/ /\ complete' \in SUBSET (1..Symbols)
          /\ pc' = "batch"
       \/ /\ complete' = {}
          /\ pc' = "except"
    /\ UNCHANGED <<jobVars, futures, symbol, batchFailed, frames, pending,
                   back, final, fetched, stored>>

\* The top of the loop: a requested cancel ends the job, and otherwise the
\* batch is handed to the pool.
StartBatch ==
    /\ pc = "batch"
    /\ next <= Symbols
    /\ ~cancelled
    /\ futures' = Chunk(next)
    /\ batchFailed' = FALSE
    /\ frames' = {}
    /\ next' = next + BatchSize
    /\ pc' = "take"
    /\ UNCHANGED <<job, cancelled, symbol, complete, pending, back, final,
                   fetched, stored>>

CancelAtTop ==
    /\ pc = "batch"
    /\ next <= Symbols
    /\ FinishCancelled
    /\ pc' = "end"
    /\ UNCHANGED <<futures, symbol, complete, batchFailed, frames, pending,
                   back, final, fetched, stored>>

\* as_completed yields the next finished future, in any order.
Take ==
    /\ pc = "take"
    /\ \E s \in futures :
          /\ symbol' = s
          /\ futures' = futures \ {s}
    /\ job' = [job EXCEPT !.processed = @ + 1]
    /\ pc' = "settle"
    /\ UNCHANGED <<cancelled, next, complete, batchFailed, frames, pending,
                   back, final, fetched, stored>>

\* Its result: skipped, failed (an exception, no frame, an empty frame), or a
\* frame.
Settle ==
    /\ pc = "settle"
    /\ \/ /\ symbol \in complete
          /\ job' = [job EXCEPT !.skipped = @ + 1]
          /\ UNCHANGED <<batchFailed, frames, fetched>>
       \/ /\ symbol \notin complete
          /\ job' = [job EXCEPT !.failed = @ + 1]
          /\ batchFailed' = TRUE
          /\ UNCHANGED <<frames, fetched>>
       \/ /\ symbol \notin complete
          /\ job' = [job EXCEPT !.completed = @ + 1]
          /\ frames' = frames \cup {symbol}
          /\ fetched' = fetched \cup {symbol}
          /\ UNCHANGED batchFailed
    /\ pc' = IF futures = {} THEN "keep" ELSE "take"
    /\ UNCHANGED <<cancelled, next, futures, symbol, complete, pending, back,
                   final, stored>>

\* Mutant of Keep: a full batch is no reason to flush.
KeepUntilEnough ==
    /\ pc = "keep"
    /\ pending' = pending \cup frames
    /\ pc' = IF frames # {} /\ (batchFailed \/ Cardinality(pending') >= WriteRows)
             THEN "flush" ELSE "check"
    /\ back' = "check"
    /\ UNCHANGED <<jobVars, futures, symbol, complete, batchFailed, frames, final,
                   fetched, stored>>

\* After the batch its frames are pending, and flushed when they must be.
Keep ==
    /\ pc = "keep"
    /\ pending' = pending \cup frames
    /\ pc' = IF /\ frames # {}
                /\ \/ batchFailed
                   \/ Cardinality(pending') >= WriteRows
                   \/ Cardinality(Batch) = BatchSize
             THEN "flush" ELSE "check"
    /\ back' = "check"
    /\ UNCHANGED <<jobVars, futures, symbol, complete, batchFailed, frames,
                   final, fetched, stored>>

\* _flush_full_market_frames: the list is cleared before write_daily_bars, which
\* writes year after year and may raise between two of them, or after the last:
\* whatever part of the rows is on disk by then is not counted.
FlushWrite ==
    /\ pc = "flush"
    /\ pending' = {}
    /\ \/ /\ stored' = stored \cup pending
          /\ pc' = "count"
       \/ /\ \E part \in SUBSET pending : stored' = stored \cup part
          /\ pc' = "except"
    /\ frames' = pending
    /\ UNCHANGED <<jobVars, futures, symbol, complete, batchFailed, back,
                   final, fetched>>

FlushCount ==
    /\ pc = "count"
    /\ job' = [job EXCEPT !.imported = @ + Cardinality(frames)]
    /\ pc' = back
    /\ UNCHANGED <<cancelled, next, futures, symbol, complete, batchFailed,
                   frames, pending, back, final, fetched, stored>>

\* The bottom of the loop: a requested cancel flushes what is pending and ends
\* the job.
CancelAtBottom ==
    /\ pc = "check"
    /\ FinishCancelled
    /\ pc' = IF pending = {} THEN "end" ELSE "flush"
    /\ back' = "end"
    /\ UNCHANGED <<futures, symbol, complete, batchFailed, frames, pending,
                   final, fetched, stored>>

NoCancelAtBottom ==
    /\ pc = "check"
    /\ ~cancelled
    /\ pc' = "batch"
    /\ UNCHANGED <<jobVars, futures, symbol, complete, batchFailed, frames,
                   pending, back, final, fetched, stored>>

\* After the last batch the rest is flushed.
WrapUp ==
    /\ pc = "batch"
    /\ next > Symbols
    /\ pc' = IF pending = {} THEN "getfinal" ELSE "flush"
    /\ back' = "getfinal"
    /\ UNCHANGED <<jobVars, futures, symbol, complete, batchFailed, frames,
                   pending, final, fetched, stored>>

GetFinal ==
    /\ pc = "getfinal"
    /\ final' = FinalCopy
    /\ pc' = "storefinal"
    /\ UNCHANGED <<jobVars, futures, symbol, complete, batchFailed, frames,
                   pending, back, fetched, stored>>

PutFinal ==
    /\ pc = "storefinal"
    /\ StoreFinal(final)
    /\ pc' = "end"
    /\ UNCHANGED <<futures, symbol, complete, batchFailed, frames, pending,
                   back, final, fetched, stored>>

Except ==
    /\ pc = "except"
    /\ FailJob
    /\ pc' = "end"
    /\ UNCHANGED <<futures, symbol, complete, batchFailed, frames, pending,
                   back, final, fetched, stored>>

Worker ==
    \/ Snapshot \/ StartBatch \/ CancelAtTop \/ Take \/ Settle \/ Keep
    \/ FlushWrite \/ FlushCount \/ CancelAtBottom \/ NoCancelAtBottom
    \/ WrapUp \/ GetFinal \/ PutFinal \/ Except

Next == Cancel \/ Worker

\* The job's thread is scheduled and its fetches return; nobody has to cancel.
Spec == Init /\ [][Next]_vars /\ WF_vars(Worker)
-------------------------------------------------------------------------------

\* The job record and the local variables of the job's thread keep their types
\* (models.py:175-194, sync.py:250-411).
TypeOK ==
    /\ JobTypeOK
    /\ pc \in Labels
    /\ futures \subseteq 1..Symbols
    /\ symbol \in 0..Symbols
    /\ complete \subseteq 1..Symbols
    /\ batchFailed \in BOOLEAN
    /\ frames \subseteq 1..Symbols
    /\ pending \subseteq 1..Symbols
    /\ back \in {"check", "end", "getfinal"}
    /\ final \in JobRecord
    /\ fetched \subseteq 1..Symbols
    /\ stored \subseteq 1..Symbols

\* The progress a client reads adds up, whatever the order of the results, and a
\* job that succeeded has processed every symbol it was given.  imported_rows never
\* promises a row that is not in the warehouse, and misses one only while it is being
\* counted or when a write raised, which fails the job
\* (sync.py:265-303, 316-320, 382-411; warehouse.py:125-143).
ProgressAddsUp ==
    /\ job.processed =
         job.completed + job.failed + job.skipped + (IF pc = "settle" THEN 1 ELSE 0)
    /\ job.status \in Succeeded => job.processed = Symbols
    /\ job.imported <= Cardinality(stored)
    /\ pc \notin {"count", "except"} /\ job.status # "failed" =>
          job.imported = Cardinality(stored)

\* Cancelling keeps what was downloaded: unless the job failed, the rows of
\* every symbol counted as completed are in the warehouse when the job's thread
\* ends (sync.py:304-315; DataCenter.tsx:92).
CompletedIsStored ==
    pc = "end" /\ job.status # "failed" => fetched = stored

===============================================================================
