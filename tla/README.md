# A TLA+ model of the A-share backtester

This directory specifies the parts of Astock-backtester whose correctness
depends on more than one step or more than one actor: the shared warehouse
files, the jobs and scripts that fill them, the data operations beneath, the
caches built over them, the signals and the portfolio simulation, the realtime
snapshot, the chat sessions, the saved strategies and the start of the data
service.  TLC checks every specification on a small instance; for any number of
threads, processes, symbols, requests and days, TLAPS proves what matters most of
all of them: the warehouse, the jobs and scripts, the data operations, the derived
views, the signals, the portfolio, the realtime snapshot, the chat sessions, the saved
strategies and the start of the service.

Paths below are relative to the repository; `backend/` stands for
`backend/astock_backtester/`.

1. [The system](#1-the-system)
2. [Modules and how they correspond to the code](#2-modules)
3. [Runs](#3-runs)
4. [Findings and known gaps](#4-findings-and-known-gaps)
5. [Proofs](#5-proofs)
6. [Bounds, fairness and abstractions](#6-bounds-fairness-and-abstractions)
7. [Plan](#7-plan)
8. [Running the checks](#8-running-the-checks)

---

## 1. The system

A desktop application (Tauri, `src-tauri/`) shows a React page (`frontend/`)
and starts a Python data service (`backend/service.py`, a
`ThreadingHTTPServer`).  The service keeps daily bars of all A shares in
parquet files, fills them from public sources, and runs backtests over them.
Maintenance scripts (`scripts/`) write the same files from processes of their
own.

```
  page ── Tauri command ── shell ── saved-strategies.json (+ .lock)
   │                         └── starts/finds ── data service (lock file)
   └── HTTP ── request threads ──┬── SyncJobManager ── job threads ─┐
                                 ├── caches: gap profile, coverage  │
                                 ├── realtime snapshot, news, AI    │
                                 └── run_backtest                   │
        scripts ── other processes ────────── Warehouse partitions ─┘
                                              (+ one .lock per year)
```

### 1.1 Components

| component | state | operations | interacts with | hard behaviour | correct when |
|---|---|---|---|---|---|
| **Daily-bars warehouse** `data/warehouse.py`, `data/filelock.py` | one parquet file per year, one lock file per year, temporary files named after the process, `corrupt_partitions` | `write_daily_bars` (read, merge, write, replace, year by year), partition reads | every importer, job and script; readers take no lock | writers in several threads and processes; crashes; lock timeouts; torn files | no update is lost, a change of a partition is one merge, no lock outlives its holder, an unreadable file is not replaced |
| **Sync jobs** `data/sync.py` | `_jobs`, `_cancelled` under one lock; local lists of the job thread | start, cancel, the two job loops, `_flush_full_market_frames` | HTTP threads start, cancel and poll; the warehouse is read and written | every counter update is a read and a store; cancel at any moment; results in any order; flush failures | progress adds up, cancelling keeps what was fetched, no success is reported for rows that were not stored, a finished job stays finished, each job finishes |
| **Maintenance scripts** `run-full-market-import.py`, `run-capital-flow-backfill.py` | progress file, `symbols.csv`, the batch in memory | download, write and record batch by batch; resume; give up after so many failures | the warehouse, and the same operations as the jobs | killed between the write of a batch and its record, or within a line; repeated runs | a symbol left out by a resumed run is stored; a repeated backfill fills every symbol that has a source, but for gaps nobody noticed; script and job judge a report alike |
| **Data operations** `operations.py`, `service.py:315-366` | none of their own; the warehouse, the lifecycle table and the legacy cache | `fetch_capital_flow_into_cache`, `fetch_daily_bars_into_cache`, `refresh_symbol_lifecycle`, `sync_symbols` | jobs, handlers, the crawler | rows read minutes before they are written back; a cache ahead of or behind the warehouse; partial lists and failed reads | what was imported stays, "ok" means stored, prices do not go back, only a complete list delists, a sync leaves no gap but what its fetch did not return |
| **Capital-flow crawler** `capital_flow_crawler.py` | rows of earlier successes, per range | fetch a symbol from three sources with fallbacks, fill holes, retry in rounds | the capital-flow fetch | a source left out after a failure; a short answer beside an older complete one | what is reported as fetched is stored (with the operations) |
| **Derived views** `Warehouse.data_gap_profile`, `service.py` coverage snapshot | the cached profile with its age; the snapshot with its age and a `refreshing` flag | look up, compute, store, drop; start, read, store and finish a refresh | writers drop the one and force the other; scripts do neither | check-then-act outside the lock, forced refreshes that are dropped, writes that fail halfway | the snapshot never goes back and catches up in the end; no stale profile for ever |
| **Backtest engine** `engine.py` | cash, open positions, orders for the next day, last closes, trades | exits, blocked sales, marks, orders | conditions and indicators feed it | suspensions, limits and missing rows meet due exits; several orders share cash and slots | the books balance, limits hold, each sale was possible, no exit is missed |
| **Saved strategies** `savedStrategyStore.ts`, `commands.rs` | the page's queue of changes, load ids, status; the file and its lock | load, reload, refresh, save, remove; upsert and delete commands | page and shell of each process; all processes share the file | late answers of loads, two processes, crashes, a broken file | an acknowledged change is on disk and stays visible; a broken file is preserved; nobody waits for ever |
| **Realtime snapshot** `data/realtime.py` | request generation, retained snapshot, CLS payload and flight, one lock and worker per slot, pool of yesterday | a request gathers indexes, breadth and sectors, fills gaps and remembers what was live; budgets, cancels, background refresh | page polling, AI tools; local bars as a fallback | overlapping requests, workers that outlive their request, shared flights, a day that ends in between | what is called live is the request's own and was stored after it began; what is retained never goes back; a stuck worker stops nobody |
| **Signals** `conditions.py`, `indicators.py`, `condition_parser.py`, the scan of `engine.py` | none; columns per symbol | parse, enrich, prefilter, evaluate | the engine, daily matches | each condition exists twice; lags; a warm-up of a fixed number of days | nothing looks ahead, no row is dropped that would pass, the first day is forgotten |
| **Chat sessions** `ai/facade.py`, `ai/sessions.py`, `ai/agent.py` | session files, session locks with reference counts in a bounded registry | chat, delete; a turn with its tool calls, archive and summary | page, tools, model service | the worker outlives its client; waiting requests time out; locks are evicted; turns break off | one request per session, every lock comes back, each history sent is valid, no turn is forgotten |
| **Data-service process** `service_manager.rs` | lock file with pid and port, child process | `ensure_running` | several applications | stale and half-written locks, a start still under way, a failed start, a service too slow to answer | starts that do not overlap share one service, a call that is alone succeeds, no child is left behind |
| AI background engines `ai/insights.py`, `ai/reports.py`, `ai/digest.py`, `ai/memory.py` | per-day and per-hour fields, bounded queues | tick, publish | page event stream | restarts inside a window, full queues | planned |
| Legacy cache `data/cache.py` | one file, no lock | read, merge, write | request threads | concurrent writes | as the data operations use it |
| Providers, transport, parsing, calendars | none that is shared | network calls, conversions | jobs and snapshot | – | not modelled: any result is allowed where they are called |
| News, briefing, CLS board, risk alerts, commentary | last good answers | best-effort fetches | page | – | not modelled |
| AI tools, retrieval, configuration, optimizer | files written by one handler | sequential | chat | – | not modelled |
| HTTP routing, validation | none | dispatch | everything | – | only the handlers that touch the views |
| Page rendering, timers | React state | – | – | – | polling is the environment of the job and view models |

`PROJECT.json` lists the same components with their status, and, under
`hazards`, each place where something can go wrong that a test would hardly
reach, with the property that covers it or the reason why none does yet.

---

## 2. Modules

| module | what it is | extends |
|---|---|---|
| `PartitionStore` | abstract specification: what the warehouse promises its writers | – |
| `Warehouse` | `write_daily_bars` step by step, readers, crashes | `PartitionStore` |
| `MCWarehouse` | threads, processes and batches for TLC | `Warehouse` |
| `WarehouseProofs` | theorems about `Warehouse` | `Warehouse`, TLAPS |
| `JobLifecycle` | abstract specification: what a job promises the client that polls it | – |
| `SyncJob` | the job record and what is done to it by two kinds of threads | – |
| `FullMarketJob` | the thread of the full-market download | `SyncJob` |
| `CapitalFlowJob` | the thread of the capital-flow backfill | `SyncJob` |
| `SyncManager` | one job of either kind, and the refinement of `JobLifecycle` | `SyncJob`; instances of the two |
| `ProgressLog` | the progress file of a script | – |
| `ImportScript`, `BackfillScript` | the two scripts, run again and again | `ProgressLog` |
| `BulkDownloads` | a job or a script: all the ways to fill the warehouse | `SyncManager`; instances of the scripts |
| `FlowCrawler` | what the crawler makes of the answers of its sources | – |
| `SymbolPool` | lifecycle records, and what follows from them | – |
| `DataOperations` | fetches and the sync over one warehouse and the legacy cache | `FlowCrawler`, `SymbolPool` |
| `MCDataOperations` | answers, listings and beginnings for TLC | `DataOperations` |
| `DerivedViews` | gap-profile cache and coverage snapshot over one warehouse | – |
| `Indicators`, `ConditionParser` | the columns of a backtest; from a text to a condition | – |
| `Signals` | conditions, masks, groups, and what a strategy finds on a day | both |
| `MCSignals` | days and strategies for TLC | `Signals` |
| `Backtest` | the day loop of `run_backtest` | – |
| `MCBacktest` | bars and settings for TLC | `Backtest` |
| `MarketSnapshot` | requests for the realtime snapshot, CLS flight, slots, retained snapshot | – |
| `AgentTurn` | the memory of a chat session, and what a turn and a save do to it | – |
| `ChatSession` | requests, workers, session locks, session files | `AgentTurn` |
| `SavedStrategies` | page, shell, lock and file of the saved strategies, for several processes | – |
| `ServiceManager` | `ensure_running` of several applications | – |
| `MCChatSession`, `MCServiceManager` | symmetry for TLC | the module they are named for |
| `BulkDownloadsProofs`, `DataOperationsProofs`, `MarketSnapshotProofs`, `ChatSessionProofs`, `ServiceManagerProofs` | theorems about the module they are named for | that module, TLAPS |
| `StrategyProofs` | theorems about strategies: how they are kept, and what they find | `SavedStrategies`, `Signals`, TLAPS |
| `ReaderProofs` | theorems about what reads the warehouse: views and portfolio | `DerivedViews`, `Backtest`, TLAPS |

Operators are called as in the source where TLA+ allows it.  Definitions called
"mutant" in their comment are not part of any specification: each is a
plausible mistake in the definition it names, and each property is shown to
fail when the mistake is made.

### 2.1 `PartitionStore` and `Warehouse`

`PartitionStore` has the partitions and, per writer, the batch it was given and
the years not yet written.  Its promise is in `StoreUpsert`: one step merges the
rows of one year into the contents the partition has *at that moment*, years in
ascending order.  A call may end at any time (`StoreEnd`), so a batch that spans
years is not atomic, which is what the code does.

`Warehouse` has one action for each step of `write_daily_bars`
(`warehouse.py:120-161`) that another thread can see:

| action | code |
|---|---|
| `Submit` | the call; `groupby` yields the years in order |
| `TryLock`, `LockTimeout` | a poll of `CrossProcessFileLock.acquire`, and the poll after the deadline |
| `ReadCurrent`, `ReadCorrupt` | `_safe_read_parquet` and `combine_first`; a file that cannot be read is noted and raises |
| `BeginWrite`, `EndWrite` | `to_parquet` into `<partition>.<pid>.tmp`: first torn, then complete |
| `Replace` | `os.replace` |
| `FailWrite`, `Unwind` | an exception: the temporary file is unlinked, the lock is released, the call ends |
| `Release`, `Register` | the end of the `with` block, and of the call |
| `ReadPartition` | a reader, without a lock |
| `Crash` | a process dies: its threads and locks are gone, its temporary files stay |

The temporary file is a variable of its own, indexed by partition and *process*,
because two threads of one process use one name; that this is harmless is a
property (`TmpIsMerged`), not an assumption.

### 2.2 `SyncJob`, `FullMarketJob`, `CapitalFlowJob`, `SyncManager`, `JobLifecycle`

`SyncJob` is the record in `_jobs`.  Its operators are the accesses under the
manager's lock.  Where the code computes on a copy and stores it later
(`sync.py:314-318`, `522-526`), copying and storing are two steps (`GetFinal`,
`PutFinal`), so a cancel can come in between; elsewhere the copy is current,
because only the job's thread writes counters and only a running job can be
cancelled.

`FullMarketJob` is `_run_full_market_job` (`sync.py:250-326`): the completeness
snapshot, the batches, results taken in any order, each skipped, failed or
fetched, the decision to keep or flush, the flush (which clears the list before
it writes), the two readings of the cancel flag and the final store.  An
exception of the snapshot or of a flush goes to the `except` clause.  Rows are
counted as one per symbol.  A flush writes year after year, so one that raises may
leave any part of its rows in the warehouse, or all of them, and counts none
(`FlushWrite`; `warehouse.py:125-143`).

`CapitalFlowJob` is `_run_capital_flow_job` (`sync.py:465-533`).  The report of
`fetch_capital_flow_into_cache` is an input: any sets of skipped, fetched, failed
and short symbols that the crawler can produce.

`JobLifecycle` is what a client that polls may count on: a job ends; it is
reported as completed only when every symbol was processed; no batch begins after
a cancel was acknowledged; it stays ended, except that the late write of a
cancelled job may turn it into a failed one.  `SyncManager` instantiates it
with the record of the job (`begun` is the number of symbols in batches that
were begun), so that `ImplementsJob` is the refinement, liveness included.

### 2.3 `ProgressLog`, `ImportScript`, `BackfillScript`, `BulkDownloads`

A progress file is the set of symbols a resumed run leaves out, and whether its
last line is unfinished: a process that is killed while it appends leaves a line
to which the next one is glued, and both are skipped when the file is read.
`ImportScript` has the phases of `run-full-market-import.py`: the list of symbols
with its three sources and its file, the results of the pool in any order, the
write of a batch and the lines that record it one by one.  `BackfillScript` has
those of `run-capital-flow-backfill.py`: the selection against the warehouse,
the batch, its report per symbol, the judgement of the report, the counting of
failures in a row and the early end.  Both can die at each step and begin
again with or without `--resume`.

A fetch of the backfill may fill a symbol, or fall short of what its sources have
(`FetchBatch`): the page fails, the answer has blanks or holes, or Sina's rows end
early.  What is then reported of the symbol (`Reports`) is any of the kinds the
script tells apart (`Kinds`).  Two of them are taken for complete although days are
missing (`Unnoticed`): imported rows with a hole the crawler does not see, and short
rows of Sina's of which some were imported.  `patchy` holds the symbols this has
happened to; once such a symbol has its line in the progress file, a resumed run
leaves it out.

In `BulkDownloads` the job of the application or one of the scripts is under way.
They share the warehouse, whose writes `Warehouse` shows to be atomic, and nothing
else, so it suffices to look at one at a time.  The composition is there for
`ScriptAgreesWithJob`, which feeds one report to both.

### 2.4 `FlowCrawler`, `SymbolPool`, `DataOperations`

`FlowCrawler` turns the answers of Eastmoney, Sina and Baidu into one result with
its provider and its blame (`capital_flow_crawler.py:244-550`).  An answer has the days
of its rows and, among them, those whose row has an amount: a blank row is kept
(`capital_flow_crawler.py:948-963`, `1089-1103`) and counts as returned, a blank row
of Sina's is no hole for Baidu to fill.  `SymbolPool` has
the records of `symbol_lifecycle`, the upsert that keeps known dates
(`warehouse.py:776-784`), the marks of a refresh, and the two ways the range of a
symbol is cut: by the coverage table and by the sync.

`DataOperations` runs up to three threads over them.  A row is the version of its
prices, that of its volume, and whether it has a flow; versions are those of the
source, which adjusts all prices now and then (`Adjust`).  The steps of a
capital-flow fetch are those of `operations.py:307-571`: the reading of whole rows
from warehouse and cache, the symbols that are complete already, the waves of the
crawler, the merge, the write of the cache, the write of the warehouse, the
report.  The report counts rows and the merge takes amounts, as in
`operations.py:440-442` and `821`, so a symbol with blank rows only is fetched, has
no failure, and stores nothing; `blank` in the report are these symbols.  When the
crawler itself raises (`CrawlFails`) there are no rows and one failure that names no
symbol.

A daily-bars fetch reads, writes the cache, then the warehouse.  A sync refreshes
the lifecycle, where each of the three reads of the warehouse may fail (`fails`),
the one of the recent rows included; it upserts its marks; it computes its pool from
the warehouse or, when that cannot be read, from the provider, whose list has the
delisted too (`PoolOfSource`); and it goes through the pool.  The fetch of a symbol
fails or returns nothing, or it returns the days the source has: those since the
listing, without those of a suspension (`Suspended`).  `unserved` is what it did not
return.  A write of the warehouse that fails stores some years and not the rest
(`StoreFails`) and ends the operation.  That the sync works in batches and keeps
frames until there are enough is the matter of `FullMarketJob`; here it takes and
flushes symbols one by one.

Three variables are there for the properties only: `newest` (per row, the newest
version ever stored), `excused` (operations overlapped, or a read or a write of the
warehouse failed) and `lacked` (symbols that some list of the source, taken for
complete, did not have).

### 2.5 `Indicators`, `ConditionParser`, `Signals`

Columns are exact fractions, or `NaN`; a window that is not full yields `NaN`, one
without a flow too.  A condition is a node with a window, two bounds, a lag, a
weight and a switch.  `Evaluate` is the row-wise semantics
(`conditions.py`, `evaluate_condition`), `Mask` the vectorised one
(`MASK_BUILDERS`), and `Entries` what the engine makes of both.  The market goes
on day by day, and `found` remembers what the strategy found on each day when
that day was the last one there was.  `Row`, `ConditionNode`, `ConditionGroup` and
`StrategyConfig` are what rows and strategies may be; a group has a condition, and a
strategy has a group.  `RowsFrom` are the rows read from a day on, and `Loaded`
those of a backtest, from its warm-up on.  The specification is `SignalsSpec`
because `StrategyProofs` has it beside that of `SavedStrategies`.

### 2.6 `DerivedViews`

A view of the warehouse is the number of partition writes it has seen, so
staleness is a comparison.  Writes come from one in-process writer, which drops
the gap profile when it succeeds and may then force a refresh of the coverage,
and from scripts, which do neither.  The steps of `data_gap_profile`
(`warehouse.py:616-643`) are those between which its lock is not held; the
refresh thread has the three steps of `service.py:271-280`.  Ages are flags
that time may clear.

### 2.7 `Backtest`

One action for each way an iteration of a loop can go: a position is held
(`Hold`), sold (`Sell`) or judged by its exit rules (`ApplyExitRules`); the equity
point is recorded (`Mark`); a candidate is passed over (`Skip`) or bought for the
next open (`Buy`); the day ends (`EndDay`).  The order within a day is the code's.
Positions and candidates are visited in any order, which covers every ranking.
The market is arbitrary within `MarketDays`, and a candidate or an exit rule may
fire on any day.  `Row` and `BacktestSettings` are what bars and settings may be.
The names of the specification are long (`BacktestInit`, `BacktestSpec`,
`BacktestTypes`) because `ReaderProofs` has it beside `DerivedViews`.

### 2.8 `SavedStrategies`

The page keeps a promise chain of changes and numbers its loads; only the newest
number may change what is shown (`savedStrategyStore.ts:143-168`), a completed
change makes every load in flight stale (`181-188`), and a change first awaits
the initial load (`170-179`).  The shell takes the file lock, reads again,
and renames a complete new file into place (`commands.rs:254-359`).  A load id is
represented by the slot of the load and by whether the page still counts it as
current.

### 2.9 `MarketSnapshot`

A request is its generation (`realtime.py:269-273`), and so is the age of a quote:
the generation that was current when it was stored.  The actions of a request are
the stretches of `market_snapshot_events` between two accesses to what requests
share: number, cache, pool, slots, retained snapshot.

| action | code |
|---|---|
| `Enter`, `ClearCache`, `ScheduleYesterday`, `ReadYesterday` | `321-354`: the number is drawn, the completed CLS payload dropped, the pool looked up, and refreshed behind, and the three tasks started |
| `Ask`, `Land`, `Wake`, `OtherSource` | `_fetch_cls_home_payload` (`823-884`) for its two kinds of users, the index task and the breadth worker, and the source behind it |
| `AcquireSlot`, `TakeResult`, `TimeoutSlot` | the request's side of a budget wrapper (`586-683`) |
| `StartWork`, `FinishWork`, `ReleaseSlot` | the executor's side: the callback that frees the lock comes after the result |
| `FetchYesterday`, `NewDay` | the background refresh, and the calendar |
| `Compose`, `Deliver` | `388-528`, and `529-531` with `_remember_successful_snapshot` |
| `Abandon`, `Close` | the generator is closed at a `yield`; its `with` block awaits the tasks |

### 2.10 `AgentTurn`, `ChatSession`

A request has an HTTP thread up to the start of its worker and after that the
worker's steps: `Submit`, `Acquire` or `AcquireTimeout`, `OpenSession` or
`CreateSession` with `LockOwn`, `CloseEarly` or `StartWorker` (`facade.py:284-374`);
`BeginTurn`, `Answer`, `CallTools`, `CloseTurn` or `AskFails` (`agent.py:59-271`);
`SaveBegin`, `SaveWrite`, `SaveReplace`, `SaveFails` (`sessions.py:68-84`); `Release`.
Locks are entries with a holder and a count of references, in a registry that
evicts entries nobody refers to; there are as many entries (`Entries`) as requests
and ids together can ever need.  `AgentTurn` has the messages of a session, each
standing for its turn, the repair of a turn that was broken off
(`agent.py:205-247`), the archive of what leaves the window and its consolidation
into a summary; `Session` is what a session may hold.  `DeleteSession` takes no lock; `Restart` kills all threads.

### 2.11 `ServiceManager`

One action for each stretch of `ensure_running` (`service_manager.rs:498-650`)
between two accesses to the lock file, to a port or to the child: `ReadLock`,
`UseLocked`, `ProbeFails`, `RemoveLock`, `CreateLock`, `FillLock`, `FindLocked`,
`StopWaiting`, `RetakeLock`, `RecreateLock`, `Spawn`, `ChildAnswers`, `ChildIsLate`,
`StopChild`, `InspectChild`, `OpenLock`, `Started`, `WriteFails`.  Creating the lock
file and writing its text are two steps, so others can see it empty.  Applications are
closed or killed, services die, and living ones may be too slow for a probe;
such faults are counted.

---

## 3. Runs

All passing runs are exhaustive.

| run | question | states |
|---|---|---|
| `warehouse` | two threads of one process, which share a temporary file name, and a script, over two partitions and batches that span both: are locks exact and updates kept, does an unreadable partition stay as it is, is every change of a partition one of `PartitionStore`? | 556 k |
| `bulk_downloads` | a job of either kind over five symbols, with writes that raise halfway, or one of the scripts over three, killed or answered short up to twice: does progress add up, is what was counted stored, does the job keep the promise of `JobLifecycle`, does a script resume rightly and reach everybody? | 212 k |
| `data_operations` | two operations in any overlap over three days, with blank amounts, suspensions, and reads, fetches and writes that fail: does what was imported stay, does "ok" mean stored, do prices stay new, is delisting grounded, does a sync leave no gap but what its fetch did not return? | 2.5 M |
| `derived_views` | do the snapshot and the profiles converge, and does the snapshot never go back? | 126 k |
| `stale_profile` | does the next read after a write reflect it?  **No**: see findings | violation |
| `signals` | four days of every market, each condition by itself and in groups: does anything look ahead, does the prefilter drop what would pass, is the first day forgotten? | 112 k |
| `turnover_prefilter` | does the prefilter keep every row the conditions accept?  **No**: see findings | violation |
| `backtest` | five days, two symbols, three settings: books, possible sales, missed exits | 516 k |
| `market_snapshot` | two requests that overlap, the first of which may lose its client, a worker that may never end, two days: what may a snapshot contain, and who depends on whom? | 2.2 M |
| `chat` | three requests over two sessions with room for one lock: is a session worked on by one request at a time, do locks come back, are histories valid, are turns kept? | 2.6 M |
| `saved_strategies` | two processes, one of which reloads and clicks ahead while the other crashes: acknowledged changes, own changes, broken files, waiting | 2.5 M |
| `service_lock` | two applications that start the service twice each, with two faults: do they share one, does a call that is alone succeed, is a child left behind? | 1.5 M |

The modules state the types of their variables as `TypeOK`, which is proved wherever
there is a module of proofs; the runs are kept for what is harder to see.  What the properties say:

* **Warehouse.** `LockDiscipline`: a lock is held by exactly the thread between
  the read and the replace of that partition.  `NoLostUpdate`: what a writer is
  about to put in place is the merge with what is there *now*.  `TornIsStable`: no
  step makes a partition unreadable or writes over one that is.
  `ImplementsStore`: refinement of `PartitionStore`.
* **Jobs and scripts.** `ProgressAddsUp`: processed is the sum of its parts, a
  success has processed everything, each row that is counted is stored and counted
  once, and each stored row is counted unless a write that raised has left a part of
  its rows and failed the job.
  `CompletedIsStored`: whatever the order of cancels and flushes, the rows of the
  symbols counted as completed are stored when the thread ends, unless the job
  says "failed".  `GapsAreNotCompleted`.  `ImplementsJob`: refinement of
  `JobLifecycle`.  `RecordedIsStored`: a symbol a resumed import leaves out is in
  the warehouse.  `OthersAreFilled`: the backfill, repeated, fills every symbol
  that has a source, as long as fewer lack one than a batch holds or a run puts
  up with, whatever crashed or was answered short; but for those whose gaps went
  unnoticed and were recorded as complete.  `ScriptAgreesWithJob`: script and job make the same of a report.
* **Data operations.** `ImportedIsStored`: the flows a fetch counts stay, whatever
  overlaps or fails.  `OkMeansStored`: "ok" leaves every symbol asked for with a flow,
  except one whose rows all came blank.  It and `BarsAreNewest` hold of operations that
  did not overlap and whose reads and writes of the warehouse succeeded (`excused` is
  false): the rows of the cache, ahead or behind, do not spoil them.
  `DelistingHasGrounds`: what becomes delisted was once missing from a list that was
  taken for complete, even when the recent rows could not be read; and if they could,
  and nothing was stored since, it has no recent price at the moment it is marked.
  `SyncFillsTheTable`: after the sync of a symbol the coverage table asks for no day
  but those the fetch did not return, and for none if the sync had skipped the symbol
  as complete: sync and table cut the range alike, although they read the lifecycle
  record at different times.
* **Views.** `SnapshotGoesForward`, `CoverageConverges`, `ProfilesConverge`.
* **Signals.** `NoLookAhead`: what a backtest finds on a day is what one that ended
  on that day found.  `PrefilterIsSound`: the masks drop nothing the conditions
  accept (but for turnovers).  `StartIsForgotten`: with a warm-up that is long
  enough, an earlier first day changes nothing.  Two conditions are excepted: the
  means of a MACD depend on all rows there are, and a *lagged* ratio of rising stocks
  counts stocks of an earlier day, of which the rows read for another start may
  hold fewer.
* **Backtest.** `BooksBalance`: cash, costs of open positions and realised profit
  add up to the initial cash, and the equity point of a day knows nothing of
  orders for the next day.  `SalesArePossible`: each sale is on
  a day the symbol traded, not the day of the buy, not blocked at the limit, and
  at a price between that day's low and high.  `ExitsAreNotMissed`: a position
  that should have gone and is still there could not be sold.
* **Realtime snapshot.** `FreshQuotes`: no request is answered with the payload of
  a flight that was over before it began.  `LiveIsOwn`: a snapshot that is called
  live, and one that is retained, has nothing in it that was retained, local or of
  an older pool.  `RetainedGoesForward`.  `SlotsAreExact`: a lock is held exactly
  as long as there is one piece of work in the slot.  `GoesOnAlone`: a request never
  depends on what another thread does next.
* **Chat.** `TurnsAreSerialised`, `LocksAreReturned`.  `RequestIsValid`: the history
  sent to the model never holds a call without its answer or an answer without its
  call.  `TurnsAreKept`: no save takes a turn out of messages, archive and summary.
* **Saved strategies.** `AcknowledgedIsOnDisk` (also after somebody has broken the
  file), `OwnChangesAreSeen`, `NobodyWaitsForNothing`.
* **Service process.** `CalmStartsShare`, `AloneIsServed`, `NoChildIsLeft`.

---

## 4. Findings and known gaps

### 4.1 Findings

1. **A read after a write can return a profile without it** (`stale_profile`,
   `NextReadReflectsWrite`; `backend/data/warehouse.py:632-643`).  The profile
   is computed outside the lock and stored without looking whether a write has
   dropped the cache meanwhile.  The docstring at `warehouse.py:164` says that
   the next read reflects the latest data.  `OnlyASlowReadIsStale` shows
   that this is the only way, and `ProfilesConverge` that the stale profile is served for
   a limited time only.
2. **The prefilter drops rows a turnover condition accepts** (`turnover_prefilter`,
   `PrefilterKeepsRows`; `backend/conditions.py:417`).  The evaluator divides a
   turnover above 1 by 100 (`conditions.py:252-254`), the mask does not, so with
   turnovers in per cent the engine drops every row the condition would accept.
   `tests/test_core.py:587-589` says that the masks exist to keep the two alike.

### 4.2 Known gaps

What the code does at places where the properties above have an exception, or
that lie beside them.  None of it has a run of its own.

* *Jobs.* A cancel acknowledged ("cancelling") after the last batch is overwritten
  by "completed" (`sync.py:314-318`, `522-526`), which `tests/test_sync_jobs.py:606`
  and `:618` do not expect; no rows are lost, and `JobLifecycle` allows it.
* *Scripts.* Progress is recorded by symbol only, so `--resume` with other dates
  leaves out symbols that lack rows.  Short rows of Sina's of which some were imported,
  and rows with a hole, count as complete (`run-capital-flow-backfill.py:67-86`,
  `303-325`), so that `--resume` never fills the rest; a run without `--resume` does.
  With as many symbols without a source as
  `OthersAreFilled` excludes, a repeated backfill never gets past them.  A line cut
  within a character makes every later `--resume` fail.  `symbols.csv` is not
  written atomically, and a truncated one is used as the whole market.  The script
  ignores a shortfall of Sina's that the job counts as a failure, and a failure
  that names no symbol counts against symbols that were skipped; both are excepted
  in `ScriptAgreesWithJob`.
* *Crawler.* A symbol all of whose rows have a blank amount counts as returned
  (`operations.py:440-442`, `864-877`): the fetch answers "ok" (`560`) with no rows
  imported and no flow stored.  A day missing in the middle of an answer is not noticed, and a retry
  that succeeds after rows of an earlier success stood in hides that they did.
* *Data operations.* When the recent rows cannot be read, nobody counts as recent,
  and every symbol missing from the list is delisted (`operations.py:1165-1166`),
  although the docstring at `1137-1143` asks for stale rows besides; the run has this
  case, and the second half of `DelistingHasGrounds` excuses it.  A symbol relisted keeps its delisting
  date (`warehouse.py:780`).  A capital-flow fetch that overlaps a sync writes back
  older prices.  A fetch whose warehouse write fails after that of the cache makes a
  later fetch believe the symbol complete.  New listings never enter the sync pool.
  Days of a suspension stay missing in the table for good
  (`operations.py:122-126`), and so do those of a fetch that failed until the next sync;
  `SyncFillsTheTable` says that there are no others.  The job reports a symbol whose fetch
  returned nothing as failed and goes on (`sync.py:272-298`).  The pool of the provider,
  used when the warehouse cannot be read, has the delisted symbols too
  (`service.py:320-325`).
  `LocalCache` is read and written without a lock (`cache.py:43`).
* *Parser and preflight.* A numeral written digit by digit gives window 0.  The
  preflight may refuse for lack of data what later data allows; `NoLookAhead`
  excepts it.
* *Snapshot.* A worker whose budget has just run out may still write the members of
  a sector (`realtime.py:2591`).
* *Chat.* A request with an unknown id locks that id and continues under a new one
  (`facade.py:291-299`); a new session exists before it is locked.  Both are
  excepted (`SessionOf`, `Made`).  Ids given to calls without one ("call_0", ...,
  `llm_client.py:259-262`) repeat within a session, and the repair of an interrupted
  turn counts an id as answered wherever it was answered (`agent.py:205-240`), so such a
  turn may stay without its results; with `GivesIds = FALSE`, a window of five and six
  messages in the file, TLC finds three requests after which `RequestIsValid` is
  violated.  The closing answer is kept twice (`agent.py:249-271`).
* *Service process.* Starts that overlap can end with two services: the second
  application removes the lock of the first after a failed probe
  (`service_manager.rs:553`).  `CalmStartsShare` says when it cannot happen.

---

## 5. Proofs

The theorems hold for every value of the constants that meets the assumptions, so
they take the bounds of section 6 away: any number of writers, symbols, requests,
applications and days.  Each module of proofs has its inductive invariant at the
top, one lemma per action (or conjunct) that keeps it, and the theorems.

| module | theorem | says |
|---|---|---|
| `WarehouseProofs` | `TypeCorrect`, `LockIsExact`, `NoUpdateIsLost`, `TmpIsOwn` | `[]` of `TypeOK`, `LockDiscipline`, `NoLostUpdate`, `TmpIsMerged` |
| | `TornStays`, `WarehouseImplementsStore` | `TornIsStable`, and the refinement `ImplementsStore` |
| `BulkDownloadsProofs` | `ProgressIsCounted`, `DownloadsAreKept`, `GapsAreReported` | `[]` of `ProgressAddsUp`, `CompletedIsStored`, `GapsAreNotCompleted` |
| | `JobsKeepTheirPromise` | both kinds of jobs implement the safety part of `JobLifecycle` |
| | `EndedJobsStayEnded` | what the promise means: "completed" says all symbols were processed, and a job that has ended stays so |
| | `LinesFollowRows`, `OneReportOneAnswer` | `[]` of `RecordedIsStored`, `ScriptAgreesWithJob` |
| | `NoSymbolIsForgotten` | safety part of `OthersAreFilled`: the next run takes up every symbol with a source that lacks flows, unless its gaps went unnoticed and it was recorded |
| `DataOperationsProofs` | `ImportsAreKept`, `OkIsKept`, `PricesGoForward`, `TableIsFilled` | `[]` of `ImportedIsStored`, `OkMeansStored`, `BarsAreNewest`, `SyncFillsTheTable` |
| | `DelistingsAreGrounded` | `DelistingHasGrounds` |
| `ReaderProofs` | `TypeCorrect`, `SnapshotsGoForward` | `DerivedViews`: types, `SnapshotGoesForward` |
| | `RefreshesAreSingle`, `RightViewsStay` | one refresh at a time; safety part of `CoverageConverges` and `ProfilesConverge`: views that agree with the warehouse do so until the next write |
| | `OnlyASlowReadIsStale` | the one step that can break `NextReadReflectsWrite` (section 4.1) |
| | `BooksAreBalanced`, `SalesCouldHappen`, `ExitsHappen` | `Backtest`: `[]` of `BooksBalance`, `SalesArePossible`, `ExitsAreNotMissed` |
| | `CashIsNotSpentTwice` | cash is never negative, as long as a sale's rates leave something of it |
| `MarketSnapshotProofs` | `TypeCorrect`, `QuotesAreFresh`, `LiveSnapshotsAreOwn`, `SlotsHoldOne`, `RetainedIsNewest` | types, `FreshQuotes`, `LiveIsOwn`, `SlotsAreExact`, `RetainedGoesForward` |
| | `NoRequestIsStuck` | the part of `GoesOnAlone` without `ENABLED`: a guard of the request's own always holds |
| `ChatSessionProofs` | `OneTurnAtATime`, `EveryLockComesBack` | `[]` of `TurnsAreSerialised`, `LocksAreReturned` |
| | `TurnsStay` | `TurnsAreKept` |
| | `RequestsAreValid` | `[]RequestIsValid`, for services that give their calls ids (`GivesIds`) |
| `StrategyProofs` | `TypeCorrect`, `NobodyWaits`, `AcknowledgedStays`, `OwnChangesStay` | `SavedStrategies`: types, `[]` of `NobodyWaitsForNothing`, `AcknowledgedIsOnDisk`, `OwnChangesAreSeen` |
| | `NothingLooksAhead`, `PrefilterDropsNothing`, `StartsAreForgotten` | `Signals`: `[]` of `NoLookAhead`, `PrefilterIsSound`, `StartIsForgotten` |
| `ServiceManagerProofs` | `TypeCorrect`, `ChildrenAreLookedAfter`, `AloneCallsAreServed`, `CalmAppsShare` | types, `[]` of `NoChildIsLeft`, `AloneIsServed`, `CalmStartsShare` |

**Assumptions.** Each is named in the module that declares the constants, and TLC
evaluates it in every run of that module.  Most only say that bounds are numbers
and that special values (`None`, `NoRow`, `Torn`, `NoWriter`, ...) are no values of
the kind they stand beside.  Those that say more:

* `StoreAssumption`: partitions are named by numbers, and each batch has rows for
  some year.  `WarehouseAssumption`: each writer runs in a process.
* `SyncJobAssumption`: a batch has at least one symbol; there may be no symbols.
* `DataOperationsAssumption`: the rows a warehouse begins with reach at least to the
  listing of their symbol, so that each symbol has one; answers name days of the range,
  and amounts only for days they have a row for; no lifecycle record is the value that
  stands for an unknown one.
* `BacktestAssumption`: bars are `Row`s with `low <= open <= high` and a positive
  open price unless suspended; settings are `BacktestSettings`, i.e. natural numbers
  with at least one position and one buy a day.  Signs matter: with a negative price a
  purchase would raise cash.
* `SignalsAssumption`: a market day has a `Row` or nothing for each symbol, strategies
  are `StrategyConfig`s, and the first day of a backtest is one of the days.
* `ChatSessionAssumption`: finitely many requests and ids, which the count of
  references needs; a file that is not there or torn is no `Session`.
  `AgentTurnAssumption`: the file keeps at least as many messages as the window.

One theorem has a hypothesis besides, which its run meets and without which the
property can fail (section 4.2): `GivesIds` of `RequestsAreValid`, a constant.

### 5.1 The inductive invariants

None of the properties is inductive alone; what has to be added says why each holds.

* **Warehouse** (`IInv`).  `NoLostUpdate` survives the `Replace` of *another* writer
  only because two writers cannot be past the read of one partition
  (`LockDiscipline`, lemma `OneInside`), and survives `Replace` into the next year
  only because the writer is then out of the block.  `TmpIsMerged` needs the same, as
  two threads of one process share the file.  That the file moved is a frame and not
  torn bytes is `WritingInv`; that the next year of the batch has rows is `LoopInv`.
  *Refinement:* `Warehouse` keeps the variables of `PartitionStore`; `Replace` is
  `StoreUpsert`, because the file moved is the merge with the current contents
  (`ReplaceMerges`), ends and crashes are `StoreEnd`, and the rest stutters.
* **Jobs** (`MarketInv`, `FlowInv`).  Progress is compared with the number of symbols
  in the batches begun (`MarketCounts`); a fetched symbol is stored, pending, or in
  the batch, in one of these only (`MarketRows`), so a flush counts each row once; and
  never more is counted than stored, with equality until a write has raised; the
  copy made of the job before its last store is current except for the status
  (`CopyIsCurrent`), which is why losing a cancel there loses no rows.
  *Refinement:* each action maps to a step of `JobLifecycle` or to a stutter.
* **Scripts** (`ImportInv`, `BackfillInv`).  The lines written so far, and while the
  batch is being recorded the batch, are stored; for the backfill this is said of the
  symbols that have a source, whose gaps were noticed, and of the reports that will
  count as complete.
* **Data operations** (`DataInv`).  What a fetch is about to write holds the flows it
  will report (`FlowsAreWritten`); as long as nothing overlapped or failed, the frame
  it read is still what the warehouse has (`FrameIsCurrent`), each writer's rows are no
  older than any that were stored (`WritersAreNew`), and a row of the cache is in the
  warehouse or about to be (`CacheIsCovered`).  A mark that delists is of a
  symbol some complete list lacked, and of one without recent prices unless excused,
  while it waits to be upserted.  For the coverage table (`TableInv`): of what a sync is
  through with, or has found complete, every day its record requires has a row or was
  not returned by the fetch (`IsFilled`, `SyncIsFilling`).  This survives the other
  operations because rows are only added, whether a write succeeds or stops after a year
  (`RowsStay`), and records are only narrowed; and a record gives a listing right or not
  at all (`LifeIsKnown`), so that the table, which cuts the range to the record and to
  the prices there are, asks for none but these (`FilledIsWhole`).
* **Views** (`ViewsInv`).  One refresh at a time, and what it has read is no older than
  the snapshot it will replace.  That served profiles are as new as the last write
  announced is not invariant, as the violation shows; `ProfilesAreCurrent` is kept by
  every step but one, a write that is announced over a profile computed before it
  (`Overtaken`).
* **Portfolio** (`BooksInv`).  One position per symbol, finitely many; those bought
  for tomorrow stand there only after the equity point (`BoughtInTime`); once the
  exits are done, all positions were visited.  The books are sums over the open
  positions, which are a set: part 2 of `ReaderProofs` shows, by induction on the
  parts of a finite set, that a sum does not depend on the order and changes by one
  summand when one position enters or leaves (`CostsAddUp`, `ValuesAddUp`).
* **Signals** (`SignalsInv`).  The rows of a symbol are in the order of their days, none
  is of a day to come, and what was found is what would be found now: the property is
  its own invariant.  A new day appends rows (`GoesOn`), each column of the n-th
  row reads rows up to the n-th, or in the case of the market's heat rows of its day
  (`IndicatorsAgree`, `HeatAgrees`), and so each condition, mask, group and list of
  candidates of an old day is what it was (`MatchesAgree`).  For the first day, rows
  are counted from their end instead: two backtests that end on a day read the same
  last rows (`EndsAgree`), the windows of their conditions lie in these
  (`IndicatorsShift`, `ColumnsForget`), and the warm-up is long enough for their lags
  (`BacktestReaches`).
* **Snapshot** (`SnapshotInv`).  Whatever a request can still come to use (cache,
  news of a flight, result of a slot) was stored after it cleared the cache
  (`NothingOld`), a user of the payload serves work that is not over (`UsersServe`),
  and the lock of a slot is that of its one piece of work (`Locked`).  What a request
  waits for exists: an index task that has not come to its end, and work in each slot in
  which it waits (`WaitsAreServed`); so either it can collect, or it can give up.
* **Chat locks** (`LockInv`).  The entry a request refers to is the one the registry
  has for its session and no other session has it (`EntriesAreRegistered`); this is
  what eviction could break and the count of references prevents.
* **Chat memory** (`MemoryInv`).  A request that serves a session it found, and that
  nobody has made, knows every turn its file knows, unless something was lost or the
  file it will write is full; when it is about to move the temporary file, that holds
  its own session.  Both are true because there is one such request (`ServesAlone`),
  which is `LockInv` again.  The repair, the archive and the save each keep what is
  known (`RepairKeeps`, `ArchiveKeeps`, `PersistedKeeps`); the repair puts sequences
  together by a recursive function, whose values are found by induction over the
  natural numbers as a fact about sets (`NaturalInduction`, `FlattenKeeps`).
* **Chat history** (`HistoryInv`).  A file, and a session that is not being worked on,
  is `Orderly`: results follow the message with their calls, no id is used by two
  messages, and it begins with the user unless it has been cut to the size of a file.
  A session that is sent is `Complete`: it begins with the user, and each call has a
  result before other words follow.  Ids stay unique because an id names its request,
  round and call: files hold ids of requests that ask no more (`Past`), and a request
  adds those of its own earlier rounds (`Now`); that no other request works on the
  session meanwhile is `MemoryInv`.  The repair answers what is open
  (`RepairIsWhole`); a file that begins in the middle of a turn is at least as long as
  the window, so that with the new question it is cut, at a message of the user
  (`CutIsAtUser`, `BeginIsComplete`); each round adds a message and all of its results
  (`CallsFollow`).  From `Complete` to what the service gets (`WholeIsValid`) is an
  induction over the messages, one block at a time (`WireFits`).
* **Saved strategies** (`WaitInv`, `DiskInv`).  A save that is not on disk is of a
  preset nobody else can know (`PendingIsUnknown`, `SavedOnce`); what is deleted was
  asked for (`DeletesAreAsked`); an answer on its way agrees with everything its page
  was told (`AnswersAgree`), which is what the counting of loads is for.
* **Service process** (`NoChildInv`, `AloneInv`, `CalmInv`).  A living child belongs to
  the call that started it or to the manager (`ChildrenAreKnown`); while all starts
  were calm there is one caller, past its probe no service lives but its own, and
  outside that part the living one is in the lock file (`CalmCallers`).

### 5.2 What stays with TLC

* *Liveness and ENABLED*, out of this prover's reach: `CoverageConverges`,
  `ProfilesConverge`, `OthersAreFilled`, the ending of jobs in `ImplementsJob`, and
  `GoesOnAlone`, which is stated with `ENABLED`.  Of each, the part that is about safety
  is proved: `RightViewsStay`, `NoSymbolIsForgotten`, `JobsKeepTheirPromise`,
  `NoRequestIsStuck`.  What TLC adds is that the good state is reached, and that a step
  whose guard holds can be taken.
* `RequestIsValid` for a service that gives its calls no ids is false; the theorem is
  for the others.

---

## 6. Bounds, fairness and abstractions

### Bounds

* *Warehouse.* Three writers: two of them share a process and its temporary file
  name while a third one crashes or times out.  Two partitions for a batch that is
  interrupted between years.  The theorems remove the bounds.
* *Jobs and scripts.* Five symbols in batches of two give a full batch, another one
  and a short last one; a threshold of three rows is reached between batches.
  `MaxFaults = 2`: one crash, raising batch or short answer to leave something half
  done, and one while it is resumed.  `MaxFailures = 3` and `BatchSize = 2` differ, so that each of the two ways
  past symbols without a source is taken.  Three symbols for the scripts are
  one more than a batch; any of them may be without a source, so both sides of the
  premise occur.
* *Data operations.* Two operations (`MaxOps`) are what any overlap needs.  Three days
  give an answer that begins late, ends early, and has a hole in the middle; two
  versions of the prices, old and new.  The symbols differ so that each case occurs with
  one of them (`MCDataOperations`): `s1` is listed on the first day, has a row of that
  day only, is suspended on the second, and its sources answer with all days, the last
  one or none; `s2` is listed on the second day and complete, its flows may begin late,
  it is on every list while `s1` is not, and its sources answer with all days, with blank
  amounts only, or not at all.  A write that fails stops before the first year or after
  day 1 (`YearEnds`).  Every symbol begins with at least one row, as the symbols of a
  warehouse do that were ever filled; those without one are in no pool.
* *Views.* `MaxWrites = 1` and `MaxErrors = 1`: each of the hazards needs one write
  that is missed or one read that fails; two readers are needed for one of them to
  overwrite what the other, or the write, has left.  Reads, refreshes, polls and
  expiries are unbounded, since liveness is checked.
* *Signals.* Windows of one and two, a lag of one and a MACD of spans 1 and 3 look
  back at most three rows, and there are four days: one in the warm-up and three in
  the backtest.  Days are those at which the conditions differ (`MCSignals`).
* *Backtest.* Five days are enough to buy, to be blocked at a due exit, to be
  blocked again and to sell; two symbols compete for one or two slots.  Bars are
  those at which the rules differ (`MCBacktest`).
* *Realtime snapshot.* Two requests are what any of the hazards needs.  Breadth
  stands for both budgeted modules (`Budgeted`): the wrapper of the sectors is the
  same and uses nothing that is shared.  `Leavers`: the client of the first request
  may go away.  Two days let a pool grow old.
* *Chat.* Three requests: one at work, one waiting, one that makes the registry of
  one lock evict.  The window, the archive and the file keep three or four entries, so
  that each of them overflows.
* *Saved strategies.* `MaxLoads` bounds the loads of a page in flight,
  `MaxReloads` its reloads and `MaxQueue` its clicks ahead.  `Eager` and
  `Crashers` make the two processes differ, to keep the instance small: one has a
  busy user, the other one crashes.
* *Service process.* Two applications, two calls each (one to leave something
  behind, one to meet it), two faults, three process ids and two ports.

### Fairness

* Jobs: weak fairness of the job's thread.  Its fetches return because the
  transport has timeouts.  A cancel is never assumed.
* Scripts: weak fairness of the backfill's steps and of its start: a run goes on, and
  the command is repeated, which is what `--resume` and the selection against the
  warehouse are for.  Crashes, calls that raise and short answers are bounded.
* `DerivedViews`: the writer, the refresh thread and each reader go on, time passes
  (caches expire), and `/health` is polled, which `App.tsx` does.
* All other modules are checked for safety only.  `GoesOnAlone` and
  `NobodyWaitsForNothing` state as an invariant what a liveness property would
  need: whatever somebody waits for is under way.

`CHECK_DEADLOCK FALSE` appears where the system really stops: a job or a script that
has ended, a backtest that is done, the last day of the market, requests that are all
answered, and operations and calls that have used up their bound.

### Abstractions

* A partition is a function from cells (symbol, date, column) to values;
  `combine_first` is modelled cell by cell.  SQLite's list of datasets is left out.
* The deadline of a lock wait is not a number: a poll that finds the lock taken may
  be the last one.
* Reading the cancel flag and handing out the batch is one step: a cancel after
  the reading counts as one during the batch.
* Bars have integer prices, and rates are multiples of `1/Scale`, so that money is
  exact; rounding to cents in reports is left out.  Whether a day opened at its
  limit is a field of the bar (`_is_open_near_limit` and its tolerance).
  In `Backtest` conditions, exit rules and scores are arbitrary choices.
* In `Signals` all values are whole numbers and columns are exact fractions; ratios
  are in hundredths.  Rounding of floating-point numbers is left out.
* In `DataOperations` amounts do not matter, only which days have one; a write of the
  warehouse is one step, which may store the years up to one and then fail.
* The scripts see a symbol as filled or not; which of its days are missing is in
  `FlowCrawler` and `DataOperations`.
* A message of a chat stands for its turn; what the model says is a choice between an
  answer, calls and a failure.
* In `ServiceManager` a wait ends when its condition holds or else times out.
* A strategy is its id.  Ids are random and never reused, so a save always adds.
  The file is edited by hand only while no command is between its read and its
  rename: the lock does not stop an editor, and nothing in the code claims it does.
* In the realtime snapshot a chain of sources is one choice of answer, and so is the
  local fallback, which has a slot like the others.  Storing a payload and ending its
  flight are one step, as are the check of the cache's age and the choice between
  flight and cache.  A pool of yesterday that is complete and empty counts as none.
  What a request has collected is no younger than itself (`AsSeenBy`), since only
  older quotes matter.
* The browser preview of the page (localStorage) has one process and is left out.

---

## 7. Plan

Done: the shared files (`Warehouse`) and their proofs; who writes them
(`BulkDownloads`, `DataOperations`); who reads them (`DerivedViews`); what they are
for (`Signals`, `Backtest`); what the page polls (`MarketSnapshot`), keeps
(`SavedStrategies`) and asks (`ChatSession`); how it all starts (`ServiceManager`).

1. The AI background engines: reports and digests once per day or hour, restarts
   within the window, the facts of `memory.py`, the queues of `insights.py`.
2. The caches of news, briefing and CLS board, with the last good answer.

**Not modelled, and why.** Providers, transport and parsers are pure conversions at
the edge of the network; every model takes any result they can return.  Pages,
timers and the client of the HTTP service hold no state that outlives a rendering,
beyond `savedStrategyStore.ts`.  Retrieval, configuration and parameter search are
sequential.  Path discovery, the updater and the build scripts are pure I/O.

---

## 8. Running the checks

In this directory:

    tlc -workers 2 -config Warehouse.cfg MCWarehouse
    tlc -workers 2 -config BulkDownloads.cfg BulkDownloads
    tlc -workers 2 -config DataOperations.cfg MCDataOperations
    tlc -workers 2 -config DerivedViews.cfg DerivedViews
    tlc -workers 2 -config StaleProfile.cfg DerivedViews           (violation)
    tlc -workers 2 -config Signals.cfg MCSignals
    tlc -workers 2 -config TurnoverPrefilter.cfg MCSignals         (violation)
    tlc -workers 2 -config Backtest.cfg MCBacktest
    tlc -workers 2 -config MarketSnapshot.cfg MarketSnapshot
    tlc -workers 2 -config ChatSession.cfg MCChatSession
    tlc -workers 2 -config SavedStrategies.cfg SavedStrategies
    tlc -workers 2 -config ServiceManager.cfg MCServiceManager
    for m in Warehouse BulkDownloads DataOperations Reader MarketSnapshot \
             ChatSession Strategy ServiceManager
    do tlapm ${m}Proofs.tla; done
