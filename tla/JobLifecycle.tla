----------------------------- MODULE JobLifecycle -----------------------------
(***************************************************************************)
(* What a client that polls GET /sync/jobs/<id> is promised about a job,   *)
(* whichever kind of job it is: the status and the two counters the        *)
(* progress bar is drawn from (SyncJobStatus, models.py).                  *)
(***************************************************************************)
EXTENDS Naturals

CONSTANTS Symbols, BatchSize

VARIABLES
    status,
    begun,      \* symbols handed to batches so far
    processed,  \* symbols reported as processed
    failed      \* symbols reported as failed

lifeVars == <<status, begun, processed, failed>>

Live == {"running", "cancelling"}

LifeInit ==
    /\ \/ status = "running" /\ processed = 0
       \/ status = "completed" /\ processed = Symbols
    /\ begun = 0
    /\ failed = 0

\* The answer to a cancel request.
Acknowledge ==
    /\ status = "running"
    /\ status' = "cancelling"
    /\ UNCHANGED <<begun, processed, failed>>

\* Another batch is begun, but never after the acknowledgement.
BeginBatch ==
    /\ status = "running"
    /\ begun < Symbols
    /\ begun' = begun + BatchSize
    /\ UNCHANGED <<status, processed, failed>>

\* Results of the batches that were begun are counted.
Progress ==
    /\ status \in Live
    /\ processed' \in processed..Symbols
    /\ processed' <= begun
    /\ failed' \in failed..Symbols
    /\ UNCHANGED <<status, begun>>

\* The job ends: as cancelled only when that was acknowledged, and as completed
\* only when every symbol was processed, with errors if any failed.
Finish ==
    /\ status \in Live
    /\ \/ status = "cancelling" /\ status' = "cancelled"
       \/ status' = "failed"
       \/ /\ processed = Symbols
          /\ status' = IF failed > 0 THEN "completed_with_errors" ELSE "completed"
    /\ UNCHANGED <<begun, processed, failed>>

\* The rows downloaded before a cancel are written after it, which may fail.
FailLate ==
    /\ status = "cancelled"
    /\ status' = "failed"
    /\ UNCHANGED <<begun, processed, failed>>

LifeNext == Acknowledge \/ BeginBatch \/ Progress \/ Finish \/ FailLate

\* A job ends; nothing else has to happen.
LifeSpec == LifeInit /\ [][LifeNext]_lifeVars /\ WF_lifeVars(Finish)
===============================================================================
