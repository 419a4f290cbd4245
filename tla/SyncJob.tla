------------------------------- MODULE SyncJob --------------------------------
(***************************************************************************)
(* The record of one synchronisation job, shared by the job's thread and   *)
(* the HTTP threads through SyncJobManager (data/sync.py).                 *)
(*                                                                         *)
(* Every access takes the manager's lock, but most updates are two         *)
(* accesses: get_job returns a copy, and _mutate or _store writes it back. *)
(* Only the job's thread writes counters; the HTTP threads write the       *)
(* status, in cancel_job.                                                  *)
(***************************************************************************)
EXTENDS Naturals, FiniteSets

CONSTANTS
    Symbols,    \* how many symbols the job was given; they are 1..Symbols
    BatchSize   \* full_market_batch_size / capital_flow_batch_size

ASSUME SyncJobAssumption ==
    /\ Symbols \in Nat
    /\ BatchSize \in Nat \ {0}

VARIABLES
    job,        \* _jobs[job_id]
    cancelled,  \* job_id \in _cancelled
    next        \* the first symbol of the next batch

jobVars == <<job, cancelled, next>>

Statuses == {"running", "cancelling", "cancelled", "completed",
             "completed_with_errors", "failed"}

Terminal == Statuses \ {"running", "cancelling"}

Succeeded == {"completed", "completed_with_errors"}

JobRecord == [status : Statuses, processed : Nat, completed : Nat,
              failed : Nat, skipped : Nat, imported : Nat]

\* start_full_market, start_capital_flow_backfill: the job is stored as running
\* and its thread is started; when the range has no trading day it is stored as
\* completed instead, with every symbol skipped, and there is no thread.
JobInit ==
    /\ \E needed \in BOOLEAN :
          LET n == IF needed THEN 0 ELSE Symbols
          IN  job = [status |-> IF needed THEN "running" ELSE "completed",
                     processed |-> n, completed |-> 0, failed |-> 0,
                     skipped |-> n, imported |-> 0]
    /\ cancelled = FALSE
    /\ next = 1

\* Mutant of Chunk: the last index of the slice is included.
ChunkInclusive(i) == {s \in 1..Symbols : i <= s /\ s <= i + BatchSize}

\* _chunks: the symbols from position i on, at most BatchSize of them.
Chunk(i) == {s \in 1..Symbols : i <= s /\ s < i + BatchSize}

\* Mutant of CancelJob: any job can be cancelled.
CancelAnyJob ==
    /\ job' = [job EXCEPT !.status = "cancelling"]
    /\ cancelled' = TRUE
    /\ UNCHANGED next

\* POST /sync/jobs/<id>/cancel; a job that is not running is left as it is.
CancelJob ==
    /\ job.status = "running"
    /\ job' = [job EXCEPT !.status = "cancelling"]
    /\ cancelled' = TRUE
    /\ UNCHANGED next

\* _finish_cancelled when the flag is set: the copy it stores is current,
\* because no other thread writes a cancelling job.
FinishCancelled ==
    /\ cancelled
    /\ job' = [job EXCEPT !.status = "cancelled"]
    /\ UNCHANGED <<cancelled, next>>

\* The except clause around the job: a copy with status "failed" is stored.
FailJob ==
    /\ job' = [job EXCEPT !.status = "failed"]
    /\ UNCHANGED <<cancelled, next>>

\* The copy the job's thread makes when all batches are done ...
FinalCopy ==
    [job EXCEPT !.status = IF job.failed > 0 THEN "completed_with_errors"
                                             ELSE "completed"]

\* ... and stores in a second access.
StoreFinal(copy) ==
    /\ job' = copy
    /\ UNCHANGED <<cancelled, next>>

-------------------------------------------------------------------------------

JobTypeOK ==
    /\ job \in JobRecord
    /\ cancelled \in BOOLEAN
    /\ next \in 1..(Symbols + BatchSize)
===============================================================================
