---------------------------- MODULE DataOperations ----------------------------
(***************************************************************************)
(* The data operations of the service over one warehouse                   *)
(* (data/operations.py, data/capital_flow_crawler.py, data/cache.py):      *)
(* a capital-flow fetch, which reads whole rows, crawls, and writes whole  *)
(* rows back; a daily-bars fetch; and a full-market sync, which refreshes  *)
(* the lifecycle records before it computes its pool.  The three run in    *)
(* threads of their own and may overlap.                                   *)
(* A stored row is the version of its prices, that of its volume (0 when   *)
(* there is none), and whether it has a capital flow.  The versions are    *)
(* those of the source, which adjusts all prices now and then.  Writing    *)
(* the warehouse is atomic (Warehouse.tla says why); the legacy cache is   *)
(* read, merged and written without a lock.                                *)
(***************************************************************************)
EXTENDS FlowCrawler, SymbolPool

CONSTANTS
    Symbols,
    Answers,        \* per symbol: what a capital-flow source may answer
    ListedOn,       \* per symbol: the day of its listing
    Recent,         \* days that count as recent (stale_delist_days)
    KnownGaps,      \* days for which no source has a flow
    LateStart,      \* symbols whose flows may begin after their first row
    Suspended,      \* per symbol: sets of days a source of prices may leave out
    Lists,          \* sets of symbols the source may list
    YearEnds,       \* days that end a year: a write may stop after one
    NoRow,          \* a day the store has no row for
    MaxVersion,     \* bound on the versions of the source
    Starts,         \* what the warehouse may begin with: per symbol, its last day
    MaxOps          \* bound on the operations

\* A stored row: the versions of its prices and its volume, and whether it has a flow.
StoredRow == [price : Nat, volume : Nat, flow : BOOLEAN]

\* A record of the table symbol_lifecycle, and nobody has written Unknown.
LifecycleRecord ==
    [listing : Days \cup {Unknown}, delisted : Days \cup {Unknown}, status : {"listed", "delisted"}]

ASSUME DataOperationsAssumption ==
    /\ ListedOn \in [Symbols -> Days]
    /\ Recent \subseteq Days /\ KnownGaps \subseteq Days /\ LateStart \subseteq Symbols
    /\ MaxVersion \in Nat \ {0}
    /\ MaxOps \in Nat
    /\ Starts \subseteq [Symbols -> Days]
    /\ \A upto \in Starts : \A s \in Symbols : upto[s] >= ListedOn[s]
    /\ Answers \in [Symbols -> SUBSET [code : Codes, days : SUBSET Days, flows : SUBSET Days]]
    /\ \A s \in Symbols : \A a \in Answers[s] : a.flows \subseteq a.days
    /\ Suspended \in [Symbols -> SUBSET SUBSET Days] /\ YearEnds \subseteq Days
    /\ Lists \subseteq SUBSET Symbols
    /\ NoRow \notin StoredRow /\ Unknown \notin LifecycleRecord

Rounds == 2         \* FAILED_SYMBOL_RETRY_ROUNDS

VARIABLES
    version,    \* the version of the prices the source has
    bars,       \* the warehouse: per symbol and day, a row or NoRow
    cache,      \* the legacy cache, likewise
    life,       \* per symbol: its lifecycle record
    memory,     \* the crawler's recent successes: per symbol, days and flows
    flow,       \* the capital-flow fetch
    report,     \* what the last capital-flow fetch returned
    fetch,      \* the daily-bars fetch
    sync,       \* the full-market sync
    ops,        \* how many operations there were
    newest,     \* per symbol and day: the newest version ever stored
    excused,    \* operations overlapped, or a read or write of the warehouse failed
    lacked      \* symbols that a list of the source, taken for complete, once lacked

stores == <<bars, cache>>
history == <<newest, excused>>
vars == <<version, stores, life, memory, flow, report, fetch, sync, ops, history, lacked>>

-------------------------------------------------------------------------------
(* Rows and frames.                                                         *)

Row(v) == [price |-> v, volume |-> v, flow |-> FALSE]

Empty == [s \in Symbols |-> [d \in Days |-> NoRow]]

\* A mutant: a row that is written replaces the one that is there.
ReplacedRow(new, old) == IF new = NoRow THEN old ELSE new

\* combine_first: a value of the new frame beats the old one where it is present.
\* The volume always is, were it the zero of a row made for its flow alone.
MergedRow(new, old) ==
    CASE new = NoRow -> old
      [] new # NoRow /\ old = NoRow -> new
      [] OTHER -> [price |-> IF new.price = 0 THEN old.price ELSE new.price,
                   volume |-> new.volume,
                   flow |-> new.flow \/ old.flow]

Merged(new, old) == [s \in Symbols |-> [d \in Days |-> MergedRow(new[s][d], old[s][d])]]

Rows(f, s) == {d \in Days : f[s][d] # NoRow}
Priced(f, s) == {d \in Rows(f, s) : f[s][d].price # 0}
Flows(f, s) == {d \in Rows(f, s) : f[s][d].flow}
WithPrices == {s \in Symbols : Priced(bars, s) # {}}

\* The kinds of operations between reading rows and writing what follows from them.
Holding ==
    {k \in {"flow"} : flow.pc \notin {"idle", "read"}}
    \cup {k \in {"fetch"} : fetch.pc \notin {"idle", "list"}}
    \cup {k \in {"sync"} : sync.pc \in {"upsert", "flush"}}

\* write_daily_bars of the warehouse.
StoreRows(frame) ==
    /\ bars' = Merged(frame, bars)
    /\ newest' = [s \in Symbols |-> [d \in Days |->
                     IF frame[s][d] # NoRow /\ frame[s][d].price > newest[s][d]
                     THEN frame[s][d].price ELSE newest[s][d]]]

Store(kind, frame) ==
    /\ StoreRows(frame)
    /\ excused' = (excused \/ Holding \ {kind} # {})

\* It raises after some of the years, which it writes one after the other.
Until(frame, last) ==
    [s \in Symbols |-> [d \in Days |-> IF d <= last THEN frame[s][d] ELSE NoRow]]

StoreFails(frame) ==
    /\ \E last \in {0} \cup YearEnds : StoreRows(Until(frame, last))
    /\ excused' = TRUE

-------------------------------------------------------------------------------
(* Initial states.                                                          *)

NoResult == [code |-> "none", days |-> {}, flows |-> {}, short |-> FALSE, sina |-> FALSE]

NoMemory == [days |-> {}, flows |-> {}]

NoReport == [status |-> "none", asked |-> {}, imported |-> {}, blank |-> {}]

IdleFlow == [pc |-> "idle", frame |-> Empty, asked |-> {}, todo |-> {}, wave |-> {},
             first |-> FALSE, skip |-> FALSE, again |-> {}, round |-> 0, seen |-> Empty,
             got |-> [s \in Symbols |-> NoResult], report |-> NoReport]

IdleFetch == [pc |-> "idle", frame |-> Empty, symbol |-> Unknown, known |-> FALSE, seen |-> Empty]

IdleSync == [pc |-> "idle", marks |-> <<>>, pool |-> {}, complete |-> {}, done |-> {}, symbol |-> Unknown,
             unserved |-> [s \in Symbols |-> {}], frame |-> Empty]

\* Every symbol has its first row; the cache is empty or as old as the warehouse.
Init ==
    /\ version = 1
    /\ \E upto \in Starts :
          bars = [s \in Symbols |-> [d \in Days |->
                        IF d \in ListedOn[s]..upto[s] THEN Row(1) ELSE NoRow]]
    /\ cache \in {Empty, bars}
    /\ life = [s \in Symbols |-> Unknown]
    /\ memory = [s \in Symbols |-> NoMemory]
    /\ flow = IdleFlow /\ report = NoReport
    /\ fetch = IdleFetch
    /\ sync = IdleSync
    /\ ops = 0
    /\ newest = [s \in Symbols |-> [d \in Days |-> IF bars[s][d] = NoRow THEN 0 ELSE 1]]
    /\ excused = FALSE
    /\ lacked = {}

Count == ops < MaxOps /\ ops' = ops + 1

\* The source adjusts its prices: what it serves from now on is newer.
Adjust ==
    /\ version < MaxVersion
    /\ version' = version + 1
    /\ UNCHANGED <<stores, life, memory, flow, report, fetch, sync, ops, history, lacked>>

-------------------------------------------------------------------------------
(* fetch_capital_flow_into_cache                                            *)

StartFlow(asked) ==
    /\ flow.pc = "idle" /\ Count
    /\ flow' = [IdleFlow EXCEPT !.pc = "read", !.asked = asked]
    /\ report' = NoReport
    /\ UNCHANGED <<version, stores, life, memory, fetch, sync, history, lacked>>

\* A mutant: the row of the cache is kept where both have one.
ExistingCacheFirst(asked, readable) ==
    [s \in Symbols |-> [d \in Days |->
        CASE s \notin asked -> NoRow
          [] s \in asked /\ readable /\ cache[s][d] = NoRow -> bars[s][d]
          [] OTHER -> cache[s][d]]]

\* _read_existing_daily_bars: the rows of the warehouse, those of the cache where
\* the warehouse has none, and those of the cache alone if it cannot be read.
Existing(asked, readable) ==
    [s \in Symbols |-> [d \in Days |->
        CASE s \notin asked -> NoRow
          [] s \in asked /\ readable /\ bars[s][d] # NoRow -> bars[s][d]
          [] OTHER -> cache[s][d]]]

\* A mutant: a symbol without a flow is not looked at first.
HasNoGaps(frame, s) ==
    \A d \in Days \ (KnownGaps \cup Flows(frame, s)) :
        s \in LateStart /\ \A x \in Flows(frame, s) : d < x

\* _uses_listing_day_capital_flow_source_start: a gap before the first flow of a
\* symbol whose flows may begin late.
StartsLate(s, d, have) == s \in LateStart /\ \A x \in have : d < x

\* _symbols_with_complete_capital_flow
HasAllFlows(frame, s) ==
    LET have == Flows(frame, s) IN
    have # {} /\ \A d \in Days \ (KnownGaps \cup have) : StartsLate(s, d, have)

ReadFlow(readable) ==
    LET frame == Existing(flow.asked, readable)
        todo  == {s \in flow.asked : ~HasAllFlows(frame, s)}
    IN  /\ flow.pc = "read"
        /\ IF todo = {}
           THEN flow' = IdleFlow /\ report' = [NoReport EXCEPT !.status = "ok", !.asked = flow.asked]
           ELSE /\ flow' = [flow EXCEPT !.pc = "crawl", !.frame = frame, !.todo = todo,
                                        !.wave = todo, !.first = TRUE]
                /\ UNCHANGED report
        /\ excused' = (excused \/ ~readable \/ Holding # {})
        /\ UNCHANGED <<version, stores, life, memory, fetch, sync, ops, newest, lacked>>

FreshOutcomes == [s \in Symbols |-> Outcomes(FALSE, Answers[s])]
SkippingOutcomes == [s \in Symbols |-> Outcomes(TRUE, Answers[s])]

\* fetch_one: after a network error the rows of the last success stand in.
Noted(s, o) ==
    LET old == flow.got[s]
        new == IF o.code = "network_error" THEN memory[s] ELSE o
    IN  [code |-> o.code, days |-> old.days \cup new.days, flows |-> old.flows \cup new.flows,
         short |-> old.short \/ o.short, sina |-> o.provider = "sina"]

\* fetch_many_fund_flows: the first symbol alone, to see whether Eastmoney is to
\* be skipped for the rest, then the others in any order, then the failed again,
\* without those whose earlier rows stood in.
FetchFlow(s) ==
    /\ flow.pc = "crawl" /\ s \in flow.wave
    /\ \E o \in (IF flow.skip THEN SkippingOutcomes[s] ELSE FreshOutcomes[s]) :
        LET stoodIn == o.code = "network_error" /\ memory[s].days # {} IN
        /\ flow' = [flow EXCEPT !.got[s] = Noted(s, o), !.wave = @ \ {s}, !.first = FALSE,
              !.skip = IF flow.first THEN o.blamed \/ o.code = "network_error" ELSE @,
              !.again = IF o.code = "ok" THEN @ \ {s}
                        ELSE IF flow.round = 0 /\ ~stoodIn THEN @ \cup {s} ELSE @]
        /\ memory' = IF o.code = "ok" /\ o.days # {}
                     THEN [memory EXCEPT ![s] = [days |-> o.days, flows |-> o.flows]]
                     ELSE memory
    /\ UNCHANGED <<version, stores, life, report, fetch, sync, ops, history, lacked>>

\* A retry round; Eastmoney is skipped if most of the failures are of the network.
RetryFlow ==
    LET network == {s \in flow.todo : flow.got[s].code = "network_error"} IN
    /\ flow.pc = "crawl" /\ flow.wave = {}
    /\ flow.again # {} /\ flow.round < Rounds
    /\ flow' = [flow EXCEPT !.round = @ + 1, !.wave = flow.again,
                            !.skip = 2 * Cardinality(network) > Cardinality(flow.again)]
    /\ UNCHANGED <<version, stores, life, memory, report, fetch, sync, ops, history, lacked>>

\* The crawler itself raises: no rows, and a failure that names no symbol.
CrawlFails ==
    /\ flow.pc = "crawl"
    /\ flow' = IdleFlow
    /\ report' = [NoReport EXCEPT !.status = "partial", !.asked = flow.asked]
    /\ UNCHANGED <<version, stores, life, memory, fetch, sync, ops, history, lacked>>

\* The symbol and day of every row the crawler returned with an amount.
Returned == {c \in flow.todo \X Days : c[2] \in flow.got[c[1]].flows}

\* _capital_flow_imported_rows_by_symbol: the flows for rows that were read, and
\* have none; _standalone_daily_bars_from_capital_flow_rows: those without a row.
ImportedIntoRows == {c \in Returned : LET row == flow.frame[c[1]][c[2]] IN row # NoRow /\ ~row.flow}
ImportedAlone == {c \in Returned : flow.frame[c[1]][c[2]] = NoRow}
Imported == ImportedIntoRows \cup ImportedAlone

\* _merge_capital_flow_rows, and the rows made for a flow alone, without prices.
Written ==
    [s \in Symbols |-> [d \in Days |->
        CASE <<s, d>> \in ImportedIntoRows -> [flow.frame[s][d] EXCEPT !.flow = TRUE]
          [] <<s, d>> \in ImportedAlone -> [price |-> 0, volume |-> 0, flow |-> TRUE]
          [] OTHER -> flow.frame[s][d]]]

\* _symbols_with_remaining_existing_capital_flow_gap, without the known gaps.
WithGaps ==
    LET known == {s \in flow.asked : Rows(flow.frame, s) # {}}
        gaps(s) == Rows(Written, s) \ Flows(Written, s)
    IN  {s \in flow.todo :
            ~flow.got[s].sina /\ (known = {} \/ (s \in known /\ gaps(s) \ KnownGaps # {}))}

\* _capital_flow_incomplete_failures: symbols short of the range with a gap left.
Incomplete == {s \in WithGaps : flow.got[s].short}

\* Missing is a symbol without a single row, with a failure, or short of the range; a
\* row counts as returned although its amount is blank.
FlowReport ==
    LET missing == {s \in flow.todo : flow.got[s].days = {} \/ flow.got[s].code # "ok"} \cup Incomplete
    IN  [status |-> IF missing = {} THEN "ok" ELSE "partial",
         asked |-> flow.asked, imported |-> Imported,
         blank |-> {s \in flow.todo : flow.got[s].days # {} /\ flow.got[s].flows = {}}]

MergeFlow ==
    /\ flow.pc = "crawl" /\ flow.wave = {}
    /\ flow.again = {} \/ flow.round = Rounds
    /\ IF Imported = {}
       THEN flow' = IdleFlow /\ report' = FlowReport
       ELSE /\ flow' = [IdleFlow EXCEPT !.pc = "cache", !.frame = Written, !.seen = cache,
                                        !.report = FlowReport]
            /\ UNCHANGED report
    /\ UNCHANGED <<version, stores, life, memory, fetch, sync, ops, history, lacked>>

\* LocalCache.write_daily_bars: what it merges with was read before.
WriteFlowCache ==
    /\ flow.pc = "cache"
    /\ cache' = Merged(flow.frame, flow.seen)
    /\ flow' = [flow EXCEPT !.pc = "write", !.seen = Empty]
    /\ UNCHANGED <<version, bars, life, memory, report, fetch, sync, ops, history, lacked>>

WriteFlow ==
    /\ flow.pc = "write"
    /\ Store("flow", flow.frame)
    /\ flow' = IdleFlow /\ report' = flow.report
    /\ UNCHANGED <<version, cache, life, memory, fetch, sync, ops, lacked>>

\* A write that fails is an error of the request; the cache, and some of the years of
\* the warehouse, may have its rows.
FlowFails ==
    /\ \/ /\ flow.pc = "cache"
          /\ excused' = TRUE /\ UNCHANGED <<bars, newest>>
       \/ flow.pc = "write" /\ StoreFails(flow.frame)
    /\ flow' = IdleFlow
    /\ UNCHANGED <<version, cache, life, memory, report, fetch, sync, ops, lacked>>

-------------------------------------------------------------------------------
(* fetch_daily_bars_into_cache                                              *)

\* The days an answer of the source has prices for, when it leaves out "gap".
Served(s, gap) == (ListedOn[s]..LastDay) \ gap

\* The rows come from the source, with the flows the crawler has for them; an answer
\* that is an error or empty changes nothing.
FetchBars(s) ==
    /\ fetch.pc = "idle" /\ Count
    /\ \E flows \in {{}, Days}, known \in BOOLEAN, gap \in Suspended[s] :
          /\ Served(s, gap) # {}
          /\ fetch' = [IdleFetch EXCEPT !.pc = "cache", !.symbol = s, !.known = known, !.seen = cache,
                        !.frame[s] = [d \in Days |->
                            IF d \notin Served(s, gap) THEN NoRow
                            ELSE [Row(version) EXCEPT !.flow = d \in flows]]]
    /\ UNCHANGED <<version, stores, life, memory, flow, report, sync, history, lacked>>

WriteBarsCache ==
    /\ fetch.pc = "cache"
    /\ cache' = Merged(fetch.frame, fetch.seen)
    /\ fetch' = [fetch EXCEPT !.pc = "write", !.seen = Empty]
    /\ UNCHANGED <<version, bars, life, memory, flow, report, sync, ops, history, lacked>>

WriteBars ==
    /\ fetch.pc = "write"
    /\ Store("fetch", fetch.frame)
    /\ fetch' = [fetch EXCEPT !.pc = "list", !.frame = Empty]
    /\ UNCHANGED <<version, cache, life, memory, flow, report, sync, ops, lacked>>

BarsFail ==
    /\ \/ /\ fetch.pc = "cache"
          /\ excused' = TRUE /\ UNCHANGED <<bars, newest>>
       \/ fetch.pc = "write" /\ StoreFails(fetch.frame)
    /\ fetch' = IdleFetch
    /\ UNCHANGED <<version, cache, life, memory, flow, report, sync, ops, lacked>>

\* derive_listing_dates_from_frame; a failure of the upsert is only logged.
ListSymbol ==
    /\ fetch.pc = "list"
    /\ life' = IF fetch.known
               THEN [life EXCEPT ![fetch.symbol] =
                        Upsert(@, Record(ListedOn[fetch.symbol], Unknown, "listed"))]
               ELSE life
    /\ fetch' = IdleFetch
    /\ UNCHANGED <<version, stores, memory, flow, report, sync, ops, history, lacked>>

-------------------------------------------------------------------------------
(* refresh_symbol_lifecycle, sync_symbols and the sync                      *)

\* The symbols the source lists, whether that list is long enough to be complete,
\* and which of the three reads of the warehouse fail.  Without the recent rows every
\* symbol that is not listed is taken for stale.
Refresh(listed, full, dated, fails) ==
    LET priced == IF "symbols" \in fails THEN {} ELSE WithPrices
        recent == IF "recent" \in fails THEN {}
                  ELSE {s \in WithPrices : Priced(bars, s) \cap Recent # {}}
        last(s) == IF "last" \in fails THEN Unknown ELSE Max(Priced(bars, s))
        gone   == Delistings(listed, full, priced, recent)
    IN  /\ sync.pc = "idle" /\ Count
        /\ sync' = [IdleSync EXCEPT !.pc = "upsert",
                !.marks = [s \in listed \cup gone |->
                    IF s \in listed
                    THEN Record(IF dated THEN ListedOn[s] ELSE Unknown, Unknown, "listed")
                    ELSE Record(Unknown, last(s), "delisted")]]
        /\ lacked' = IF full THEN lacked \cup (Symbols \ listed) ELSE lacked
        /\ excused' = (excused \/ "recent" \in fails)
        /\ UNCHANGED <<version, stores, life, memory, flow, report, fetch, newest>>

\* upsert_symbol_lifecycle, or an error that is only logged.
UpsertMarks(fails) ==
    /\ sync.pc = "upsert"
    /\ life' = IF fails THEN life
               ELSE [s \in Symbols |-> IF s \in DOMAIN sync.marks
                                       THEN Upsert(life[s], sync.marks[s]) ELSE life[s]]
    /\ sync' = [sync EXCEPT !.pc = "pool", !.marks = <<>>]
    /\ UNCHANGED <<version, stores, memory, flow, report, fetch, ops, history, lacked>>

\* sync_symbols: those with prices, without the delisted if the table can be read ...
Pool(readable) ==
    /\ sync.pc = "pool" /\ WithPrices # {}
    /\ sync' = [sync EXCEPT !.pc = "snapshot",
            !.pool = {s \in WithPrices : ~readable \/ ~IsDelisted(life[s])}]
    /\ UNCHANGED <<version, stores, life, memory, flow, report, fetch, ops, history, lacked>>

\* ... but when the warehouse cannot be read or has none, all the source lists, the
\* delisted too; or that fails as well, and with it the request.
PoolOfSource ==
    /\ sync.pc = "pool"
    /\ \/ \E listed \in Lists : sync' = [sync EXCEPT !.pc = "snapshot", !.pool = listed]
       \/ sync' = IdleSync
    /\ UNCHANGED <<version, stores, life, memory, flow, report, fetch, ops, history, lacked>>

\* _daily_completeness_snapshot: the symbols with a price for every day required,
\* every day being required if the lifecycle records cannot be read.
Snapshot(readable) ==
    /\ sync.pc = "snapshot"
    /\ sync' = [sync EXCEPT !.pc = "next",
            !.complete = {s \in WithPrices \cap sync.pool :
                Required(1, LastDay, IF readable THEN life[s] ELSE Unknown) \subseteq Priced(bars, s)}]
    /\ UNCHANGED <<version, stores, life, memory, flow, report, fetch, ops, history, lacked>>

\* A symbol that was complete is skipped; another one is fetched, which fails or
\* returns nothing, or returns the days the source has for it.
TakeSymbol(s) ==
    /\ sync.pc = "next" /\ s \in sync.pool
    /\ \/ /\ s \in sync.complete
          /\ sync' = [sync EXCEPT !.pool = @ \ {s}, !.complete = @ \ {s}, !.done = @ \cup {s}]
       \/ /\ s \notin sync.complete
          /\ sync' = [sync EXCEPT !.pool = @ \ {s}, !.done = @ \cup {s}, !.unserved[s] = Days]
       \/ /\ s \notin sync.complete
          /\ \E gap \in Suspended[s] :
                /\ Served(s, gap) # {}
                /\ sync' = [sync EXCEPT !.pc = "flush", !.pool = @ \ {s}, !.symbol = s,
                      !.unserved[s] = Days \ Served(s, gap),
                      !.frame[s] = [d \in Days |->
                          IF d \in Served(s, gap) THEN Row(version) ELSE NoRow]]
    /\ UNCHANGED <<version, stores, life, memory, flow, report, fetch, ops, history, lacked>>

FlushSymbol ==
    /\ sync.pc = "flush"
    /\ Store("sync", sync.frame)
    /\ sync' = [sync EXCEPT !.pc = "next", !.done = @ \cup {sync.symbol}, !.symbol = Unknown, !.frame = Empty]
    /\ UNCHANGED <<version, cache, life, memory, flow, report, fetch, ops, lacked>>

\* A write that fails ends the sync.
SyncFails ==
    /\ sync.pc = "flush"
    /\ StoreFails(sync.frame)
    /\ sync' = IdleSync
    /\ UNCHANGED <<version, cache, life, memory, flow, report, fetch, ops, lacked>>

EndSync ==
    /\ sync.pc = "next" /\ sync.pool = {}
    /\ sync' = IdleSync
    /\ UNCHANGED <<version, stores, life, memory, flow, report, fetch, ops, history, lacked>>

FlowOps ==
    \/ \E asked \in (SUBSET Symbols) \ {{}} : StartFlow(asked)
    \/ \E readable \in BOOLEAN : ReadFlow(readable)
    \/ \E s \in Symbols : FetchFlow(s)
    \/ RetryFlow \/ CrawlFails \/ MergeFlow \/ WriteFlowCache \/ WriteFlow \/ FlowFails

FetchOps ==
    \/ \E s \in Symbols : FetchBars(s)
    \/ WriteBarsCache \/ WriteBars \/ BarsFail \/ ListSymbol

SyncOps ==
    \/ \E listed \in Lists \ {{}}, full \in BOOLEAN, dated \in BOOLEAN,
          fails \in SUBSET {"symbols", "recent", "last"} : Refresh(listed, full, dated, fails)
    \/ \E fails \in BOOLEAN : UpsertMarks(fails)
    \/ \E readable \in BOOLEAN : Pool(readable)
    \/ PoolOfSource
    \/ \E readable \in BOOLEAN : Snapshot(readable)
    \/ \E s \in Symbols : TakeSymbol(s)
    \/ FlushSymbol \/ SyncFails \/ EndSync

Next == Adjust \/ FlowOps \/ FetchOps \/ SyncOps

Spec == Init /\ [][Next]_vars

-------------------------------------------------------------------------------
(* Properties.                                                              *)

\* What a capital-flow fetch counts as imported is in the warehouse when it
\* returns, and stays there whatever the other operations write over it
\* (fetch_capital_flow_into_cache, Warehouse.write_daily_bars).
ImportedIsStored == \A c \in report.imported : c[2] \in Flows(bars, c[1])

\* A capital-flow fetch whose report is "ok" leaves every symbol asked for with a
\* flow in the warehouse, although it takes the rows of the cache for stored ones,
\* as long as nothing overlapped and no read or write of the warehouse failed.  The
\* one exception is a symbol all of whose rows came with a blank amount, which the
\* report can be seen to have returned and not imported
\* (fetch_capital_flow_into_cache, _symbols_with_complete_capital_flow).
OkMeansStored ==
    report.status = "ok" /\ ~excused =>
        \A s \in report.asked \ report.blank : Flows(bars, s) # {}

\* Prices and volumes go back to an older version only if two operations
\* overlapped or a read or write of the warehouse failed: the rows the capital-flow fetch
\* writes back are never older than the warehouse's because of the cache, and a
\* row made for a flow alone never takes the place of one with prices.
BarsAreNewest ==
    ~excused => \A s \in Symbols : \A d \in Rows(bars, s) :
        bars[s][d].price = newest[s][d] /\ bars[s][d].volume = newest[s][d]

\* A symbol becomes delisted only if a list of the source that looked complete once
\* lacked it, whatever reads failed; and, as long as the recent rows could be read and
\* nothing was stored since, only if the warehouse has no recent price of it at the
\* moment it is marked (refresh_symbol_lifecycle).
DelistingHasGrounds ==
    [][\A s \in Symbols : ~IsDelisted(life[s]) /\ IsDelisted(life'[s]) =>
          /\ s \in lacked
          /\ excused \/ Priced(bars, s) \cap Recent = {}]_vars

\* When a sync is through with a symbol, the coverage table reports no missing day for
\* it but those its fetch did not return, all of them when the fetch failed: a symbol
\* the sync skips as complete has none, for the table and the sync cut the range to
\* the same days, whatever was read of the lifecycle records when
\* (build_daily_bars_coverage, _lifecycle_clipped_required_dates).
SyncFillsTheTable ==
    \A s \in sync.done :
        MissingInTable(Rows(bars, s), Max(UNION {Priced(bars, t) : t \in WithPrices}), life[s])
            \subseteq sync.unserved[s]
=============================================================================
