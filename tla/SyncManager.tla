------------------------------ MODULE SyncManager -----------------------------
(***************************************************************************)
(* SyncJobManager (data/sync.py): a job is started as a full-market        *)
(* download or as a capital-flow backfill, and either kind keeps the       *)
(* promise of JobLifecycle to the client that polls it.                    *)
(***************************************************************************)
EXTENDS SyncJob, Integers

CONSTANT WriteRows

VARIABLES
    mode,       \* job.mode
    pc, final,  \* of either kind of job
    futures, symbol, complete, batchFailed, frames, pending, back, fetched,
    stored,                               \* of a full-market job
    skipEastmoney, filled  \* of a capital-flow job

F == INSTANCE FullMarketJob
C == INSTANCE CapitalFlowJob

marketVars == <<futures, symbol, complete, batchFailed, frames, pending, back,
                fetched, stored>>
flowVars == <<skipEastmoney, filled>>
vars == <<jobVars, mode, pc, final, marketVars, flowVars>>

NoFlow == skipEastmoney = FALSE /\ filled = {}

NoMarket ==
    /\ futures = {} /\ symbol = 0 /\ complete = {} /\ batchFailed = FALSE
    /\ frames = {} /\ pending = {} /\ back = "check" /\ fetched = {}
    /\ stored = {}

\* start_full_market or start_capital_flow_backfill
Init ==
    \/ mode = "full_market_bootstrap" /\ F!Init /\ NoFlow
    \/ mode = "capital_flow_backfill" /\ C!Init /\ NoMarket

MarketStep ==
    /\ mode = "full_market_bootstrap"
    /\ F!Next
    /\ UNCHANGED <<mode, flowVars>>

FlowStep ==
    /\ mode = "capital_flow_backfill"
    /\ C!Next
    /\ UNCHANGED <<mode, marketVars>>

Next == MarketStep \/ FlowStep

\* The job's thread is scheduled; its fetches and requests time out.
Thread ==
    \/ mode = "full_market_bootstrap" /\ F!Worker /\ UNCHANGED <<mode, flowVars>>
    \/ mode = "capital_flow_backfill" /\ C!Worker /\ UNCHANGED <<mode, marketVars>>

Spec == Init /\ [][Next]_vars /\ WF_vars(Thread)

-------------------------------------------------------------------------------

Life == INSTANCE JobLifecycle WITH
    status <- job.status,
    begun <- next - 1,
    processed <- job.processed,
    failed <- job.failed

\* The progress and the rows a client reads add up (FullMarketJob).
ProgressAddsUp == mode = "full_market_bootstrap" => F!ProgressAddsUp

\* Cancelling keeps what was downloaded (FullMarketJob).
CompletedIsStored == mode = "full_market_bootstrap" => F!CompletedIsStored

\* A symbol with a gap is not completed (CapitalFlowJob).
GapsAreNotCompleted == mode = "capital_flow_backfill" => C!GapsAreNotCompleted

\* Either kind of job keeps the promise of JobLifecycle: it ends, it stays ended
\* except that the late write of a cancelled one may fail, no batch begins after
\* a cancel was acknowledged, and it is reported as completed only when every
\* symbol was processed (sync.py:201-248, 256-257, 308-325, 471-472, 520-533).
ImplementsJob == Life!LifeSpec
===============================================================================
