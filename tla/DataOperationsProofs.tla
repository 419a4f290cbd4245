------------------------- MODULE DataOperationsProofs -------------------------
(***************************************************************************)
(* Proofs about the data operations, for any symbols, days, listings,      *)
(* answers of the sources, versions of the prices and operations.          *)
(***************************************************************************)
EXTENDS DataOperations, FiniteSetTheorems, TLAPS

Frames == [Symbols -> [Days -> StoredRow \cup {NoRow}]]

Reports == [status : {"none", "ok", "partial"}, asked : SUBSET Symbols,
            imported : SUBSET (Symbols \X Days), blank : SUBSET Symbols]

StoreTypes ==
    /\ version \in Nat /\ version >= 1
    /\ bars \in Frames /\ cache \in Frames
    /\ newest \in [Symbols -> [Days -> Nat]]
    /\ memory = [s \in Symbols |-> memory[s]] /\ \A s \in Symbols : memory[s].flows \subseteq Days
    /\ life = [s \in Symbols |-> life[s]]
    /\ report \in Reports
    /\ excused \in BOOLEAN

\* The operations are records with these fields.
IsFlow(f) ==
    /\ f = [pc |-> f.pc, frame |-> f.frame, asked |-> f.asked, todo |-> f.todo,
            wave |-> f.wave, first |-> f.first, skip |-> f.skip, again |-> f.again,
            round |-> f.round, seen |-> f.seen, got |-> f.got, report |-> f.report]
    /\ f.pc \in {"idle", "read", "crawl", "cache", "write"}
    /\ f.frame \in Frames /\ f.seen \in Frames
    /\ f.asked \subseteq Symbols /\ f.todo \subseteq f.asked
    /\ f.wave \subseteq f.todo /\ f.again \subseteq f.todo
    /\ f.pc = "read" => f.again = {}
    /\ f.got = [s \in Symbols |-> f.got[s]]
    /\ \A s \in Symbols : f.got[s].flows \subseteq Days
    /\ f.report \in Reports

IsFetch(f) ==
    /\ f = [pc |-> f.pc, frame |-> f.frame, symbol |-> f.symbol, known |-> f.known,
            seen |-> f.seen]
    /\ f.pc \in {"idle", "cache", "write", "list"}
    /\ f.frame \in Frames /\ f.seen \in Frames

IsSync(y) ==
    /\ y = [pc |-> y.pc, marks |-> y.marks, pool |-> y.pool, complete |-> y.complete,
            done |-> y.done, symbol |-> y.symbol, unserved |-> y.unserved, frame |-> y.frame]
    /\ y.unserved = [s \in Symbols |-> y.unserved[s]]
    /\ y.pc \in {"idle", "upsert", "pool", "snapshot", "next", "flush"}
    /\ y.frame \in Frames
    /\ y.pc # "flush" => y.frame = Empty

\* The capital-flow fetch is about to write rows that have the flows it will report.
FlowsAreWritten ==
    /\ flow.pc = "crawl" =>
           \A s \in flow.asked \ flow.todo : Flows(flow.frame, s) # {}
    /\ flow.pc \in {"cache", "write"} =>
           /\ \A c \in flow.report.imported : c[2] \in Flows(flow.frame, c[1])
           /\ flow.report.status = "ok" =>
                 \A s \in flow.report.asked \ flow.report.blank : Flows(flow.frame, s) # {}

SaysDelisted(record) == record.delisted # Unknown \/ record.status = "delisted"

\* A mark that will make a symbol delisted has grounds.
HasGrounds(s) == s \in lacked /\ (excused \/ Priced(bars, s) \cap Recent = {})

GroundsAreGiven ==
    sync.pc = "upsert" => \A s \in DOMAIN sync.marks :
        s \in Symbols /\ (SaysDelisted(sync.marks[s]) => HasGrounds(s))

\* The rows a daily-bars fetch and a sync are about to write are of one version.
RowsAreSound(frame) ==
    \A s \in Symbols : \A d \in Rows(frame, s) :
        /\ frame[s][d].price = frame[s][d].volume
        /\ frame[s][d].price \in 1..version

\* The row of a frame is no older than those of the warehouse ever were.
RowsAreNew(frame) ==
    \A s \in Symbols : \A d \in Rows(frame, s) : newest[s][d] <= frame[s][d].price

\* As long as nothing has overlapped or failed, no row is older than the newest one
\* that was stored.
NewestIsBounded ==
    ~excused =>
        /\ BarsAreNewest
        /\ \A s \in Symbols : \A d \in Days :
              newest[s][d] <= version /\ (bars[s][d] = NoRow => newest[s][d] = 0)

WritersAreNew ==
    ~excused =>
        /\ fetch.pc \in {"cache", "write"} => RowsAreNew(fetch.frame)
        /\ sync.pc = "flush" => RowsAreNew(sync.frame)

\* What the capital-flow fetch holds: first what it has read, then that with flows,
\* and rows for those without prices.
FrameIsCurrent ==
    ~excused =>
        /\ flow.pc = "crawl" =>
               \A s \in Symbols : \A d \in Days :
                   flow.frame[s][d] = IF s \in flow.asked THEN bars[s][d] ELSE NoRow
        /\ flow.pc \in {"cache", "write"} =>
               \A s \in Symbols : \A d \in Rows(flow.frame, s) :
                   /\ flow.frame[s][d].price = newest[s][d]
                   /\ flow.frame[s][d].volume = newest[s][d]

\* A row of the cache is in the warehouse, or will be next.
IsCovered(frame) ==
    \A s \in Symbols : \A d \in Rows(frame, s) :
        \/ d \in Rows(bars, s)
        \/ flow.pc = "write" /\ d \in Rows(flow.frame, s)
        \/ fetch.pc = "write" /\ d \in Rows(fetch.frame, s)

CacheIsCovered ==
    ~excused =>
        /\ IsCovered(cache)
        /\ flow.pc = "cache" => IsCovered(flow.seen)
        /\ fetch.pc = "cache" => IsCovered(fetch.seen)

DataInv ==
    /\ StoreTypes /\ IsFlow(flow) /\ IsFetch(fetch) /\ IsSync(sync)
    /\ FlowsAreWritten /\ GroundsAreGiven
    /\ RowsAreSound(fetch.frame) /\ RowsAreSound(sync.frame)
    /\ NewestIsBounded /\ WritersAreNew /\ FrameIsCurrent /\ CacheIsCovered
    /\ ImportedIsStored /\ OkMeansStored

USE DataOperationsAssumption, LastDayAssumption

-------------------------------------------------------------------------------
(* Frames.                                                                 *)

LEMMA Put ==
  ASSUME NEW A, NEW C, NEW f \in [A -> C], NEW a \in A, NEW c \in C
  PROVE  /\ [f EXCEPT ![a] = c] \in [A -> C]
         /\ \A x \in A : [f EXCEPT ![a] = c][x] = IF x = a THEN c ELSE f[x]
  OBVIOUS

LEMMA EmptyFrame ==
  /\ Empty \in Frames
  /\ \A s \in Symbols : \A d \in Days : Empty[s][d] = NoRow
  /\ \A s \in Symbols : Rows(Empty, s) = {}
  BY DEF Empty, Frames, Rows

LEMMA RowMade ==
  ASSUME NEW v \in Nat, NEW w \in Nat, NEW f \in BOOLEAN
  PROVE  LET row == [price |-> v, volume |-> w, flow |-> f]
         IN  row \in StoredRow /\ row # NoRow /\ row.price = v /\ row.volume = w /\ row.flow = f
<1> DEFINE row == [price |-> v, volume |-> w, flow |-> f]
<1>1. row \in StoredRow
  BY DEF StoredRow
<1>2. row.price = v /\ row.volume = w
  OBVIOUS
<1>3. row.flow = f
  OBVIOUS
<1> HIDE DEF row
<1> QED BY ONLY <1>1, <1>2, <1>3, DataOperationsAssumption DEF row

\* The rows a source serves, with a flow or without.
LEMMA RowOf ==
  ASSUME NEW v \in Nat
  PROVE  /\ Row(v) \in StoredRow /\ Row(v) # NoRow /\ Row(v).price = v /\ Row(v).volume = v
         /\ \A f \in BOOLEAN :
              LET row == [Row(v) EXCEPT !.flow = f]
              IN  row \in StoredRow /\ row # NoRow /\ row.price = v /\ row.volume = v
<1> DEFINE none == FALSE
<1>1. Row(v) = [price |-> v, volume |-> v, flow |-> none] /\ none \in BOOLEAN
  BY DEF Row
<1> HIDE DEF none
<1>2. \A f : [[price |-> v, volume |-> v, flow |-> none] EXCEPT !.flow = f]
                = [price |-> v, volume |-> v, flow |-> f]
  OBVIOUS
<1>3. \A f : [Row(v) EXCEPT !.flow = f] = [price |-> v, volume |-> v, flow |-> f]
  BY <1>1, <1>2, Zenon
<1> QED BY <1>1, <1>3, RowMade

LEMMA RowMerged ==
  ASSUME NEW new \in StoredRow \cup {NoRow}, NEW old \in StoredRow \cup {NoRow}
  PROVE  /\ MergedRow(new, old) \in StoredRow \cup {NoRow}
         /\ new = NoRow => MergedRow(new, old) = old
         /\ old = NoRow => MergedRow(new, old) = new
         /\ new # NoRow /\ old # NoRow =>
              /\ MergedRow(new, old) # NoRow
              /\ MergedRow(new, old).price = IF new.price = 0 THEN old.price ELSE new.price
              /\ MergedRow(new, old).volume = new.volume
         /\ new # NoRow /\ new.flow => MergedRow(new, old) # NoRow /\ MergedRow(new, old).flow
         /\ old # NoRow /\ old.flow => MergedRow(new, old) # NoRow /\ MergedRow(new, old).flow
<1>1. CASE new = NoRow
  BY <1>1 DEF MergedRow
<1>2. CASE new # NoRow /\ old = NoRow
  BY <1>2 DEF MergedRow
<1>3. CASE new # NoRow /\ old # NoRow
  <2> DEFINE price == IF new.price = 0 THEN old.price ELSE new.price
             flow_ == new.flow \/ old.flow
  <2>1. new \in StoredRow /\ old \in StoredRow
    BY <1>3
  <2>2. price \in Nat /\ new.volume \in Nat
    BY <2>1 DEF StoredRow
  <2>3. flow_ \in BOOLEAN
    OBVIOUS
  <2>4. MergedRow(new, old) = [price |-> price, volume |-> new.volume, flow |-> flow_]
    BY <1>3 DEF MergedRow
  <2>5. (new.flow => flow_) /\ (old.flow => flow_)
    OBVIOUS
  <2> HIDE DEF price, flow_
  <2>6. MergedRow(new, old) \in StoredRow
    BY <2>2, <2>3, <2>4 DEF StoredRow
  <2>7. /\ MergedRow(new, old).price = price /\ MergedRow(new, old).volume = new.volume
        /\ MergedRow(new, old).flow = flow_
    BY <2>4
  <2>8. MergedRow(new, old) # NoRow
    BY <2>6
  <2> QED BY <1>3, <2>5, <2>6, <2>7, <2>8 DEF price
<1> QED BY <1>1, <1>2, <1>3

\* What a merge of frames keeps of both.
LEMMA FrameMerged ==
  ASSUME NEW new \in Frames, NEW old \in Frames
  PROVE  /\ Merged(new, old) \in Frames
         /\ \A s \in Symbols : \A d \in Days :
              Merged(new, old)[s][d] = MergedRow(new[s][d], old[s][d])
         /\ \A s \in Symbols : Rows(Merged(new, old), s) = Rows(new, s) \cup Rows(old, s)
         /\ \A s \in Symbols : Flows(new, s) \cup Flows(old, s) \subseteq Flows(Merged(new, old), s)
<1>1. \A s \in Symbols : \A d \in Days :
        /\ new[s][d] \in StoredRow \cup {NoRow} /\ old[s][d] \in StoredRow \cup {NoRow}
        /\ MergedRow(new[s][d], old[s][d]) \in StoredRow \cup {NoRow}
  BY RowMerged DEF Frames
<1>2. \A s \in Symbols : \A d \in Days :
        Merged(new, old)[s][d] = MergedRow(new[s][d], old[s][d])
  BY DEF Merged
<1>3. Merged(new, old) \in Frames
  BY <1>1 DEF Merged, Frames
<1>4. \A s \in Symbols : Rows(Merged(new, old), s) = Rows(new, s) \cup Rows(old, s)
  BY <1>1, <1>2, RowMerged DEF Rows
<1>5. \A s \in Symbols : Flows(new, s) \cup Flows(old, s) \subseteq Flows(Merged(new, old), s)
  <2> SUFFICES ASSUME NEW s \in Symbols, NEW d \in Flows(new, s) \cup Flows(old, s)
               PROVE  d \in Flows(Merged(new, old), s)
    OBVIOUS
  <2>1. d \in Days
    BY DEF Flows, Rows
  <2>2. \/ new[s][d] # NoRow /\ new[s][d].flow
        \/ old[s][d] # NoRow /\ old[s][d].flow
    BY DEF Flows, Rows
  <2>3. MergedRow(new[s][d], old[s][d]) # NoRow /\ MergedRow(new[s][d], old[s][d]).flow
    BY <1>1, <2>1, <2>2, RowMerged
  <2> QED BY <1>2, <2>1, <2>3 DEF Flows, Rows
<1> QED BY <1>2, <1>3, <1>4, <1>5

\* What a write of the warehouse does.
LEMMA RowsStored ==
  ASSUME StoreTypes, NEW frame \in Frames, StoreRows(frame)
  PROVE  /\ bars' \in Frames /\ newest' \in [Symbols -> [Days -> Nat]]
         /\ \A s \in Symbols : Rows(bars', s) = Rows(frame, s) \cup Rows(bars, s)
         /\ \A s \in Symbols : Flows(frame, s) \cup Flows(bars, s) \subseteq Flows(bars', s)
         /\ \A s \in Symbols : \A d \in Days :
              /\ bars'[s][d] = MergedRow(frame[s][d], bars[s][d])
              /\ newest'[s][d] = IF frame[s][d] # NoRow /\ frame[s][d].price > newest[s][d]
                                 THEN frame[s][d].price ELSE newest[s][d]
<1>1. bars \in Frames /\ newest \in [Symbols -> [Days -> Nat]] /\ bars' = Merged(frame, bars)
  BY DEF StoreTypes, StoreRows
<1>2. /\ bars' \in Frames
      /\ \A s \in Symbols : Rows(bars', s) = Rows(frame, s) \cup Rows(bars, s)
      /\ \A s \in Symbols : Flows(frame, s) \cup Flows(bars, s) \subseteq Flows(bars', s)
      /\ \A s \in Symbols : \A d \in Days : bars'[s][d] = MergedRow(frame[s][d], bars[s][d])
  BY <1>1, FrameMerged
<1>3. \A s \in Symbols : \A d \in Days :
        (IF frame[s][d] # NoRow /\ frame[s][d].price > newest[s][d]
         THEN frame[s][d].price ELSE newest[s][d]) \in Nat
  BY <1>1 DEF Frames, StoredRow
<1>4. newest' = [s \in Symbols |-> [d \in Days |->
                    IF frame[s][d] # NoRow /\ frame[s][d].price > newest[s][d]
                    THEN frame[s][d].price ELSE newest[s][d]]]
  BY DEF StoreRows
<1>5. newest' \in [Symbols -> [Days -> Nat]]
  BY <1>3, <1>4
<1>6. \A s \in Symbols : \A d \in Days :
        newest'[s][d] = IF frame[s][d] # NoRow /\ frame[s][d].price > newest[s][d]
                        THEN frame[s][d].price ELSE newest[s][d]
  BY <1>4
<1> QED BY <1>2, <1>5, <1>6

LEMMA StoreMoves ==
  ASSUME StoreTypes, NEW kind, NEW frame \in Frames, Store(kind, frame)
  PROVE  /\ bars' \in Frames /\ newest' \in [Symbols -> [Days -> Nat]]
         /\ \A s \in Symbols : Rows(bars', s) = Rows(frame, s) \cup Rows(bars, s)
         /\ \A s \in Symbols : Flows(frame, s) \cup Flows(bars, s) \subseteq Flows(bars', s)
         /\ \A s \in Symbols : \A d \in Days :
              /\ bars'[s][d] = MergedRow(frame[s][d], bars[s][d])
              /\ newest'[s][d] = IF frame[s][d] # NoRow /\ frame[s][d].price > newest[s][d]
                                 THEN frame[s][d].price ELSE newest[s][d]
         /\ ~excused' => ~excused /\ Holding \subseteq {kind}
<1>1. StoreRows(frame) /\ (~excused' => ~excused /\ Holding \subseteq {kind})
  BY DEF Store
<1> QED BY <1>1, RowsStored

\* A write that fails loses nothing that was stored.
LEMMA FailureMoves ==
  ASSUME StoreTypes, NEW frame \in Frames, StoreFails(frame)
  PROVE  /\ bars' \in Frames /\ newest' \in [Symbols -> [Days -> Nat]] /\ excused'
         /\ \A s \in Symbols : Flows(bars, s) \subseteq Flows(bars', s)
         /\ \E part \in Frames : StoreRows(part)
<1>1. PICK last : StoreRows(Until(frame, last))
  BY DEF StoreFails
<1>2. Until(frame, last) \in Frames
  BY DEF Until, Frames
<1>3. excused'
  BY DEF StoreFails
<1> HIDE DEF StoreFails
<1> QED BY <1>1, <1>2, <1>3, RowsStored

\* A write of rows that are not older than any before leaves the newest rows.
LEMMA NewRowsStored ==
  ASSUME StoreTypes, NewestIsBounded, NEW kind, NEW frame \in Frames, Store(kind, frame),
         version' = version,
         ~excused => \A s \in Symbols : \A d \in Rows(frame, s) :
             /\ frame[s][d].price = frame[s][d].volume
             /\ newest[s][d] <= frame[s][d].price /\ frame[s][d].price <= version
  PROVE  NewestIsBounded'
<1> SUFFICES ASSUME ~excused'
             PROVE  /\ BarsAreNewest'
                    /\ \A s \in Symbols : \A d \in Days :
                         newest'[s][d] <= version /\ (bars'[s][d] = NoRow => newest'[s][d] = 0)
  BY DEF NewestIsBounded
<1>1. /\ ~excused
      /\ \A s \in Symbols : \A d \in Days :
           /\ bars'[s][d] = MergedRow(frame[s][d], bars[s][d])
           /\ newest'[s][d] = IF frame[s][d] # NoRow /\ frame[s][d].price > newest[s][d]
                              THEN frame[s][d].price ELSE newest[s][d]
  BY StoreMoves
<1>2. \A s \in Symbols : \A d \in Days :
        /\ newest[s][d] <= version /\ (bars[s][d] = NoRow => newest[s][d] = 0)
        /\ bars[s][d] # NoRow => bars[s][d].price = newest[s][d] /\ bars[s][d].volume = newest[s][d]
  BY <1>1 DEF NewestIsBounded, BarsAreNewest, Rows
<1>3. ASSUME NEW s \in Symbols, NEW d \in Days
      PROVE  /\ newest'[s][d] <= version /\ (bars'[s][d] = NoRow => newest'[s][d] = 0)
             /\ bars'[s][d] # NoRow =>
                  bars'[s][d].price = newest'[s][d] /\ bars'[s][d].volume = newest'[s][d]
  <2> DEFINE new == frame[s][d]
             old == bars[s][d]
             top == newest[s][d]
  <2>1. /\ new \in StoredRow \cup {NoRow} /\ old \in StoredRow \cup {NoRow} /\ top \in Nat
        /\ version \in Nat
    BY DEF StoreTypes, Frames
  <2>2. /\ bars'[s][d] = MergedRow(new, old)
        /\ newest'[s][d] = IF new # NoRow /\ new.price > top THEN new.price ELSE top
        /\ top <= version /\ (old = NoRow => top = 0)
        /\ old # NoRow => old.price = top /\ old.volume = top
    BY <1>1, <1>2
  <2>3. new # NoRow => new.price = new.volume /\ top <= new.price /\ new.price <= version
    BY <1>1 DEF Rows
  <2>4. new # NoRow => new.price \in Nat
    BY <2>1 DEF StoredRow
  <2> HIDE DEF new, old, top
  <2>5. CASE new = NoRow
    BY <2>1, <2>2, <2>5, RowMerged
  <2>6. CASE new # NoRow
    <3>1. newest'[s][d] = new.price
      BY <2>1, <2>2, <2>3, <2>4, <2>6
    <3>2. CASE old = NoRow
      BY <2>1, <2>2, <2>3, <2>6, <3>1, <3>2, RowMerged
    <3>3. CASE old # NoRow
      <4>1. /\ MergedRow(new, old).price = IF new.price = 0 THEN old.price ELSE new.price
            /\ MergedRow(new, old).volume = new.volume /\ MergedRow(new, old) # NoRow
        BY <2>1, <2>6, <3>3, RowMerged
      <4>2. MergedRow(new, old).price = new.price
        BY <2>1, <2>2, <2>3, <2>4, <2>6, <3>3, <4>1
      <4> QED BY <2>2, <2>3, <2>6, <3>1, <4>1, <4>2
    <3> QED BY <3>2, <3>3
  <2> QED BY <2>5, <2>6
<1> QED BY <1>3 DEF BarsAreNewest, Rows

-------------------------------------------------------------------------------
(* What the steps leave alone.                                             *)

\* A part of the invariant holds on while the variables it is about are unchanged.
LEMMA Untouched ==
  ASSUME DataInv
  PROVE  /\ UNCHANGED <<version, stores, life, memory, report, history>> => StoreTypes'
         /\ UNCHANGED flow => IsFlow(flow)' /\ FlowsAreWritten'
         /\ UNCHANGED fetch => IsFetch(fetch)'
         /\ UNCHANGED sync => IsSync(sync)'
         /\ (bars' = bars \/ excused' \/ sync.pc # "upsert")
              /\ UNCHANGED <<sync, lacked>> /\ (~excused' => ~excused) => GroundsAreGiven'
         /\ UNCHANGED <<version, fetch>> => RowsAreSound(fetch.frame)'
         /\ UNCHANGED <<version, sync>> => RowsAreSound(sync.frame)'
         /\ UNCHANGED <<version, bars, newest>> /\ (~excused' => ~excused) => NewestIsBounded'
         /\ UNCHANGED <<bars, newest, flow>> /\ (~excused' => ~excused) => FrameIsCurrent'
         /\ UNCHANGED <<newest, fetch, sync>> /\ (~excused' => ~excused) => WritersAreNew'
         /\ UNCHANGED <<bars, cache, flow, fetch>> /\ (~excused' => ~excused) => CacheIsCovered'
         /\ UNCHANGED <<report, bars>> => ImportedIsStored'
         /\ UNCHANGED <<report, bars>> /\ (~excused' => ~excused) => OkMeansStored'
<1>1. UNCHANGED <<version, stores, life, memory, report, history>> => StoreTypes'
  BY DEF DataInv, StoreTypes, stores, history
<1>2. UNCHANGED flow => IsFlow(flow)' /\ FlowsAreWritten'
  BY DEF DataInv, FlowsAreWritten, Flows, Rows
<1>3. (UNCHANGED fetch => IsFetch(fetch)') /\ (UNCHANGED sync => IsSync(sync)')
  BY DEF DataInv
<1>4. (bars' = bars \/ excused' \/ sync.pc # "upsert")
        /\ UNCHANGED <<sync, lacked>> /\ (~excused' => ~excused) => GroundsAreGiven'
  BY DEF DataInv, GroundsAreGiven, HasGrounds, Priced, Rows
<1>5. UNCHANGED <<version, fetch>> => RowsAreSound(fetch.frame)'
  BY DEF DataInv, RowsAreSound, Rows
<1>6. UNCHANGED <<version, sync>> => RowsAreSound(sync.frame)'
  BY DEF DataInv, RowsAreSound, Rows
<1>7. UNCHANGED <<version, bars, newest>> /\ (~excused' => ~excused) => NewestIsBounded'
  BY DEF DataInv, NewestIsBounded, BarsAreNewest, Rows
<1>8. UNCHANGED <<bars, newest, flow>> /\ (~excused' => ~excused) => FrameIsCurrent'
  BY DEF DataInv, FrameIsCurrent, Rows
<1>9. UNCHANGED <<newest, fetch, sync>> /\ (~excused' => ~excused) => WritersAreNew'
  BY DEF DataInv, WritersAreNew, RowsAreNew, Rows
<1>10. UNCHANGED <<bars, cache, flow, fetch>> /\ (~excused' => ~excused) => CacheIsCovered'
  BY DEF DataInv, CacheIsCovered, IsCovered, Rows
<1>11. UNCHANGED <<report, bars>> => ImportedIsStored'
  BY DEF DataInv, ImportedIsStored, Flows, Rows
<1>12. UNCHANGED <<report, bars>> /\ (~excused' => ~excused) => OkMeansStored'
  BY DEF DataInv, OkMeansStored, Flows, Rows
<1> QED BY <1>1, <1>2, <1>3, <1>4, <1>5, <1>6, <1>7, <1>8, <1>9, <1>10, <1>11, <1>12

-------------------------------------------------------------------------------
(* The lifecycle records and the answers of the sources.                   *)

\* A record is delisted after an upsert only if it was before, or the new one says so.
LEMMA UpsertDelists ==
  ASSUME NEW old, NEW new, IsDelisted(Upsert(old, new))
  PROVE  IsDelisted(old) \/ SaysDelisted(new)
<1>1. CASE old = Unknown
  BY <1>1 DEF Upsert, IsDelisted, SaysDelisted
<1>2. CASE old # Unknown
  <2> DEFINE l == Coalesce(new.listing, old.listing)
             d == Coalesce(new.delisted, old.delisted)
  <2>1. Upsert(old, new) = [listing |-> l, delisted |-> d, status |-> new.status]
    BY <1>2 DEF Upsert, Record
  <2>2. d # Unknown => new.delisted # Unknown \/ old.delisted # Unknown
    BY DEF Coalesce
  <2> HIDE DEF l, d
  <2>3. Upsert(old, new).delisted = d /\ Upsert(old, new).status = new.status
    BY <2>1
  <2> QED BY <1>2, <2>2, <2>3 DEF IsDelisted, SaysDelisted
<1> QED BY <1>1, <1>2

LEMMA ListedSaysNothing ==
  ASSUME NEW d
  PROVE  ~SaysDelisted(Record(d, Unknown, "listed"))
  BY DEF SaysDelisted, Record

\* Whatever the sources answer, the days of a symbol's flows are trading days.
LEMMA OutcomeFlows ==
  ASSUME NEW t \in Symbols, NEW skip, NEW o \in Outcomes(skip, Answers[t])
  PROVE  o.flows \subseteq Days
<1> DEFINE answers == Answers[t]
           fallbacks == {Fallback(s, b) : s \in answers, b \in answers}
<1>1. /\ \A a \in answers : a.flows \subseteq Days
      /\ \A c : NoAnswer(c).flows = {}
  BY DEF NoAnswer, Answer
<1>2. \A a \in answers : OrEmpty(a).flows \subseteq Days
  BY <1>1 DEF OrEmpty
<1>3. ASSUME NEW a, a.flows \subseteq Days, NEW p, NEW x, NEW y
      PROVE  Result(a, p, x, y).flows \subseteq Days
  BY <1>3 DEF Result
<1>4. ASSUME NEW s \in answers, NEW b \in answers
      PROVE  \E a, p, x, y : a.flows \subseteq Days /\ Fallback(s, b) = Result(a, p, x, y)
  <2>1. SinaRows(s).flows \subseteq Days /\ BaiduRows(b).flows \subseteq Days
    BY <1>2 DEF SinaRows, BaiduRows
  <2>2. Supplemented(SinaRows(s), BaiduRows(b)).flows \subseteq Days
    BY <2>1 DEF Supplemented, Answer
  <2>3. CASE SinaRows(s).code = "ok"
    BY <2>2, <2>3 DEF Fallback
  <2>4. CASE SinaRows(s).code # "ok" /\ BaiduRows(b).code = "ok"
    BY <2>1, <2>4 DEF Fallback
  <2>5. CASE SinaRows(s).code # "ok" /\ BaiduRows(b).code # "ok"
    BY <1>1, <2>5 DEF Fallback
  <2> QED BY <2>3, <2>4, <2>5
<1>5. PICK e \in answers, f \in fallbacks, g \in fallbacks : o = Fetch(skip, e, f, g)
  BY DEF Outcomes
<1>6. PICK a, p, x, y : a.flows \subseteq Days /\ f = Result(a, p, x, y)
  BY <1>4
<1>7. PICK a2, p2, x2, y2 : a2.flows \subseteq Days /\ g = Result(a2, p2, x2, y2)
  BY <1>4
<1> HIDE DEF fallbacks, answers
<1>8. ASSUME NEW v, o = Blamed(f, v) PROVE o.flows = a.flows
  BY <1>6, <1>8 DEF Blamed, Result
<1>9. ASSUME o = [f EXCEPT !.short = TRUE] PROVE o.flows = a.flows
  BY <1>6, <1>9 DEF Result
<1>10. ASSUME NEW v, o = Blamed([g EXCEPT !.short = TRUE], v) PROVE o.flows = a2.flows
  BY <1>7, <1>10 DEF Blamed, Result
<1>11. ASSUME o = Failed PROVE o.flows = {}
  BY <1>1, <1>11 DEF Failed, Result
<1>12. ASSUME o = Result(e, "eastmoney", FALSE, FALSE) PROVE o.flows = e.flows
  BY <1>12 DEF Result
<1>13. \/ \E v : o = Blamed(f, v)
       \/ o = Result(e, "eastmoney", FALSE, FALSE)
       \/ o = [f EXCEPT !.short = TRUE]
       \/ \E v : o = Blamed([g EXCEPT !.short = TRUE], v)
       \/ o = Failed
  BY <1>5, Zenon DEF Fetch
<1> QED BY <1>1, <1>6, <1>7, <1>8, <1>9, <1>10, <1>11, <1>12, <1>13

-------------------------------------------------------------------------------
(* Operations that are idle.                                               *)

LEMMA IdleIs ==
  /\ IsFlow(IdleFlow) /\ IdleFlow.pc = "idle"
  /\ IsFetch(IdleFetch) /\ IdleFetch.pc = "idle" /\ IdleFetch.frame = Empty
  /\ IsSync(IdleSync) /\ IdleSync.pc = "idle" /\ IdleSync.frame = Empty
  /\ NoReport \in Reports /\ NoReport.imported = {} /\ NoReport.status = "none"
  /\ NoReport.blank = {}
<1>1. /\ NoReport \in Reports /\ NoReport.imported = {} /\ NoReport.status = "none"
      /\ NoReport.blank = {}
  BY DEF NoReport, Reports
<1>2. IsFlow(IdleFlow) /\ IdleFlow.pc = "idle"
  <2> DEFINE f == IdleFlow
  <2>1. /\ f.pc = "idle" /\ f.frame = Empty /\ f.asked = {} /\ f.todo = {} /\ f.wave = {}
        /\ f.again = {} /\ f.seen = Empty /\ f.report = NoReport
        /\ f.got = [s \in Symbols |-> NoResult]
    BY DEF IdleFlow
  <2>2. f = [pc |-> f.pc, frame |-> f.frame, asked |-> f.asked, todo |-> f.todo,
             wave |-> f.wave, first |-> f.first, skip |-> f.skip, again |-> f.again,
             round |-> f.round, seen |-> f.seen, got |-> f.got, report |-> f.report]
    BY DEF IdleFlow
  <2>3. NoResult.flows = {}
    BY DEF NoResult
  <2> HIDE DEF f
  <2>4. f.got = [s \in Symbols |-> f.got[s]] /\ \A s \in Symbols : f.got[s].flows \subseteq Days
    BY <2>1, <2>3
  <2> QED BY <1>1, <2>1, <2>2, <2>4, EmptyFrame DEF IsFlow, f
<1>3. IsFetch(IdleFetch) /\ IdleFetch.pc = "idle" /\ IdleFetch.frame = Empty
  BY EmptyFrame DEF IdleFetch, IsFetch
<1>4. IsSync(IdleSync) /\ IdleSync.pc = "idle" /\ IdleSync.frame = Empty
  BY EmptyFrame DEF IdleSync, IsSync
<1> QED BY <1>1, <1>2, <1>3, <1>4

LEMMA HoldingIs ==
  ASSUME IsFlow(flow), IsFetch(fetch)
  PROVE  /\ "flow" \in Holding <=> flow.pc \in {"crawl", "cache", "write"}
         /\ "fetch" \in Holding <=> fetch.pc \in {"cache", "write"}
         /\ "sync" \in Holding <=> sync.pc \in {"upsert", "flush"}
<1>1. "flow" \in Holding <=> flow.pc \notin {"idle", "read"}
  BY DEF Holding
<1>2. "fetch" \in Holding <=> fetch.pc \notin {"idle", "list"}
  BY DEF Holding
<1>3. "sync" \in Holding <=> sync.pc \in {"upsert", "flush"}
  BY DEF Holding
<1> QED BY <1>1, <1>2, <1>3 DEF IsFlow, IsFetch

-------------------------------------------------------------------------------
(* The initial state and the steps of a daily-bars fetch.                  *)

LEMMA InitInv == Init => DataInv
<1> SUFFICES ASSUME Init PROVE DataInv
  OBVIOUS
<1>1. PICK upto \in Starts :
        bars = [s \in Symbols |-> [d \in Days |->
                  IF d \in ListedOn[s]..upto[s] THEN Row(1) ELSE NoRow]]
  BY DEF Init
<1>2. /\ Row(1) \in StoredRow /\ Row(1) # NoRow /\ Row(1).price = 1 /\ Row(1).volume = 1
      /\ Row(1).flow = FALSE
  BY RowOf DEF Row
<1>3. \A s \in Symbols : \A d \in Days : bars[s][d] \in {NoRow, Row(1)}
  BY <1>1
<1>4. bars \in Frames
  BY <1>1, <1>2 DEF Frames
<1>5. cache \in Frames /\ \A s \in Symbols : Rows(cache, s) \subseteq Rows(bars, s)
  BY <1>4, EmptyFrame DEF Init
<1>6. /\ newest = [s \in Symbols |-> [d \in Days |-> IF bars[s][d] = NoRow THEN 0 ELSE 1]]
      /\ newest \in [Symbols -> [Days -> Nat]]
  BY DEF Init
<1>7. \A s \in Symbols : \A d \in Days : newest[s][d] = IF bars[s][d] = NoRow THEN 0 ELSE 1
  BY <1>6
<1>8. /\ version = 1 /\ excused = FALSE /\ report = NoReport
      /\ flow = IdleFlow /\ fetch = IdleFetch /\ sync = IdleSync
      /\ memory = [s \in Symbols |-> NoMemory] /\ life = [s \in Symbols |-> Unknown]
  BY DEF Init
<1>9. StoreTypes
  <2>1. /\ memory = [s \in Symbols |-> memory[s]] /\ \A s \in Symbols : memory[s].flows = {}
        /\ life = [s \in Symbols |-> life[s]]
    BY <1>8 DEF NoMemory
  <2>2. version \in Nat /\ version >= 1 /\ report \in Reports
    BY <1>8, IdleIs
  <2>3. excused \in BOOLEAN
    BY <1>8
  <2> QED BY <1>4, <1>5, <1>6, <2>1, <2>2, <2>3 DEF StoreTypes
<1>10. IsFlow(flow) /\ FlowsAreWritten
  BY <1>8, IdleIs DEF FlowsAreWritten
<1>11. IsFetch(fetch) /\ IsSync(sync)
  BY <1>8, IdleIs
<1>12. GroundsAreGiven
  BY <1>8, IdleIs DEF GroundsAreGiven
<1>13. RowsAreSound(fetch.frame) /\ RowsAreSound(sync.frame)
  BY <1>8, EmptyFrame, IdleIs DEF RowsAreSound
<1>14. NewestIsBounded
  BY <1>2, <1>3, <1>7, <1>8 DEF NewestIsBounded, BarsAreNewest, Rows
<1>15. WritersAreNew /\ FrameIsCurrent
  BY <1>8, IdleIs DEF WritersAreNew, FrameIsCurrent
<1>16. CacheIsCovered
  BY <1>5, <1>8, IdleIs DEF CacheIsCovered, IsCovered
<1>17. ImportedIsStored /\ OkMeansStored
  BY <1>8, IdleIs DEF ImportedIsStored, OkMeansStored
<1> QED BY <1>9, <1>10, <1>11, <1>12, <1>13, <1>14, <1>15, <1>16, <1>17 DEF DataInv

-------------------------------------------------------------------------------
(* The steps of a daily-bars fetch, and an adjustment of the prices.       *)

LEMMA AdjustKeeps ==
  ASSUME DataInv, Adjust
  PROVE  DataInv'
<1>1. /\ version \in Nat /\ version' = version + 1
      /\ UNCHANGED <<bars, cache, life, memory, flow, report, fetch, sync, newest, excused, lacked>>
  BY DEF DataInv, StoreTypes, Adjust, stores, history
<1>2. StoreTypes'
  BY <1>1 DEF DataInv, StoreTypes
<1>3. RowsAreSound(fetch.frame)' /\ RowsAreSound(sync.frame)'
  BY <1>1 DEF DataInv, RowsAreSound, Rows
<1>4. NewestIsBounded'
  <2>1. newest \in [Symbols -> [Days -> Nat]]
    BY DEF DataInv, StoreTypes
  <2> QED BY <1>1, <2>1 DEF DataInv, NewestIsBounded, BarsAreNewest, Rows
<1> QED BY <1>1, <1>2, <1>3, <1>4, Untouched DEF DataInv

LEMMA FetchBarsKeeps ==
  ASSUME DataInv, NEW s \in Symbols, FetchBars(s)
  PROVE  DataInv'
<1>1. PICK flows \in {{}, Days}, known \in BOOLEAN, gap \in Suspended[s] :
        /\ Served(s, gap) # {}
        /\ fetch' = [IdleFetch EXCEPT !.pc = "cache", !.symbol = s, !.known = known, !.seen = cache,
                      !.frame[s] = [d \in Days |->
                          IF d \notin Served(s, gap) THEN NoRow
                          ELSE [Row(version) EXCEPT !.flow = d \in flows]]]
  BY Zenon DEF FetchBars
<1>2. /\ fetch.pc = "idle" /\ version \in Nat /\ version >= 1 /\ cache \in Frames
      /\ UNCHANGED <<version, bars, cache, life, memory, flow, report, sync, newest, excused, lacked>>
  BY DEF DataInv, StoreTypes, FetchBars, stores, history
<1> DEFINE new == [d \in Days |-> IF d \notin Served(s, gap) THEN NoRow
                                  ELSE [Row(version) EXCEPT !.flow = d \in flows]]
           frame == [Empty EXCEPT ![s] = new]
<1>3. \A d \in Days : new[d] \in StoredRow \cup {NoRow}
                      /\ (new[d] # NoRow => new[d].price = version /\ new[d].volume = version)
  <2> SUFFICES ASSUME NEW d \in Days
               PROVE  new[d] \in StoredRow \cup {NoRow}
                      /\ (new[d] # NoRow => new[d].price = version /\ new[d].volume = version)
    OBVIOUS
  <2> DEFINE f == d \in flows
             row == [Row(version) EXCEPT !.flow = f]
  <2>1. f \in BOOLEAN
    OBVIOUS
  <2>2. new[d] = NoRow \/ new[d] = row
    OBVIOUS
  <2> HIDE DEF new, f
  <2>3. row \in StoredRow /\ row.price = version /\ row.volume = version
    BY <1>2, <2>1, RowOf
  <2> QED BY <2>2, <2>3
<1>4. new \in [Days -> StoredRow \cup {NoRow}]
  BY <1>3
<1>5. fetch' = [pc |-> "cache", frame |-> frame, symbol |-> s, known |-> known, seen |-> cache]
  BY <1>1 DEF IdleFetch
<1> HIDE DEF new
<1>6. /\ frame \in Frames
      /\ \A t \in Symbols : frame[t] = IF t = s THEN new ELSE Empty[t]
  BY <1>4, EmptyFrame DEF Frames
<1>7. \A t \in Symbols : \A d \in Rows(frame, t) :
        frame[t][d].price = version /\ frame[t][d].volume = version
  BY <1>3, <1>6, EmptyFrame DEF Rows
<1> HIDE DEF frame
<1>8. fetch'.pc = "cache" /\ fetch'.frame = frame /\ fetch'.seen = cache
  BY <1>5
<1>9. IsFetch(fetch)'
  BY <1>2, <1>5, <1>6, <1>8 DEF IsFetch
<1>10. RowsAreSound(fetch.frame)'
  BY <1>2, <1>7, <1>8 DEF RowsAreSound, Rows
<1>11. WritersAreNew'
  <2> SUFFICES ASSUME ~excused
               PROVE  RowsAreNew(fetch.frame)' /\ (sync'.pc = "flush" => RowsAreNew(sync.frame)')
    BY <1>2 DEF WritersAreNew
  <2>1. RowsAreNew(fetch.frame)'
    BY <1>2, <1>7, <1>8 DEF RowsAreNew, Rows, DataInv, NewestIsBounded
  <2> QED BY <1>2, <2>1 DEF DataInv, WritersAreNew, RowsAreNew, Rows
<1>12. CacheIsCovered'
  BY <1>2, <1>8 DEF DataInv, CacheIsCovered, IsCovered, Rows
<1> QED BY <1>2, <1>9, <1>10, <1>11, <1>12, Untouched DEF DataInv, stores, history

LEMMA WriteBarsCacheKeeps ==
  ASSUME DataInv, WriteBarsCache
  PROVE  DataInv'
<1>1. /\ fetch.pc = "cache" /\ cache' = Merged(fetch.frame, fetch.seen)
      /\ UNCHANGED <<version, bars, life, memory, flow, report, sync, newest, excused, lacked>>
      /\ IsFetch(fetch)
  BY DEF WriteBarsCache, history, DataInv
<1>2. fetch' = [fetch EXCEPT !.pc = "write", !.seen = Empty]
  BY DEF WriteBarsCache
<1>3. /\ IsFetch(fetch)' /\ fetch'.pc = "write" /\ fetch'.frame = fetch.frame
  BY <1>1, <1>2, EmptyFrame DEF IsFetch
<1>4. /\ cache' \in Frames
      /\ \A s \in Symbols : Rows(cache', s) = Rows(fetch.frame, s) \cup Rows(fetch.seen, s)
  BY <1>1, FrameMerged DEF IsFetch
<1>5. StoreTypes'
  BY <1>1, <1>4 DEF DataInv, StoreTypes
<1>6. RowsAreSound(fetch.frame)'
  BY <1>1, <1>3 DEF DataInv, RowsAreSound, Rows
<1>7. WritersAreNew'
  BY <1>1, <1>3 DEF DataInv, WritersAreNew, RowsAreNew, Rows
<1>8. CacheIsCovered'
  <2> SUFFICES ASSUME ~excused
               PROVE  IsCovered(cache)' /\ (flow.pc = "cache" => IsCovered(flow.seen)')
    BY <1>1, <1>3 DEF CacheIsCovered
  <2>1. IsCovered(fetch.seen) /\ (flow.pc = "cache" => IsCovered(flow.seen))
    BY <1>1 DEF DataInv, CacheIsCovered
  <2>2. IsCovered(cache)'
    BY <1>1, <1>3, <1>4, <2>1 DEF IsCovered, Rows
  <2> QED BY <1>1, <1>3, <2>1, <2>2 DEF IsCovered, Rows
<1> QED BY <1>1, <1>3, <1>5, <1>6, <1>7, <1>8, Untouched DEF DataInv, history

LEMMA WriteBarsKeeps ==
  ASSUME DataInv, WriteBars
  PROVE  DataInv'
<1>1. /\ fetch.pc = "write" /\ Store("fetch", fetch.frame)
      /\ UNCHANGED <<version, cache, life, memory, flow, report, sync, lacked>>
      /\ StoreTypes /\ IsFetch(fetch) /\ fetch.frame \in Frames
  BY DEF WriteBars, DataInv, IsFetch
<1>2. fetch' = [fetch EXCEPT !.pc = "list", !.frame = Empty]
  BY DEF WriteBars
<1>3. IsFetch(fetch)' /\ fetch'.pc = "list" /\ fetch'.frame = Empty
  BY <1>1, <1>2, EmptyFrame DEF IsFetch
<1>4. /\ bars' \in Frames /\ newest' \in [Symbols -> [Days -> Nat]]
      /\ \A s \in Symbols : Rows(bars', s) = Rows(fetch.frame, s) \cup Rows(bars, s)
      /\ \A s \in Symbols : Flows(bars, s) \subseteq Flows(bars', s)
      /\ ~excused' => ~excused /\ Holding \subseteq {"fetch"}
  BY <1>1, StoreMoves
<1>5. ~excused' => flow.pc \in {"idle", "read"} /\ sync.pc \notin {"upsert", "flush"}
  <2>1. IsFlow(flow)
    BY DEF DataInv
  <2>2. ~excused' => "flow" \notin Holding /\ "sync" \notin Holding
    BY <1>4
  <2> QED BY <1>1, <2>1, <2>2, HoldingIs DEF IsFlow
<1>6. StoreTypes'
  <2>1. excused' \in BOOLEAN
    BY <1>1 DEF Store, StoreTypes
  <2> QED BY <1>1, <1>4, <2>1 DEF StoreTypes
<1>7. RowsAreSound(fetch.frame)'
  BY <1>3, EmptyFrame DEF RowsAreSound
<1>8. NewestIsBounded'
  <2>1. ~excused => \A s \in Symbols : \A d \in Rows(fetch.frame, s) :
          /\ fetch.frame[s][d].price = fetch.frame[s][d].volume
          /\ newest[s][d] <= fetch.frame[s][d].price /\ fetch.frame[s][d].price <= version
    BY <1>1 DEF DataInv, RowsAreSound, WritersAreNew, RowsAreNew, StoreTypes
  <2>2. NewestIsBounded
    BY DEF DataInv
  <2> QED BY <1>1, <2>1, <2>2, NewRowsStored
<1>9. WritersAreNew' /\ FrameIsCurrent'
  BY <1>1, <1>3, <1>5 DEF WritersAreNew, FrameIsCurrent
<1>10. CacheIsCovered'
  BY <1>1, <1>3, <1>4, <1>5 DEF DataInv, CacheIsCovered, IsCovered, Rows
<1>11. ImportedIsStored' /\ OkMeansStored'
  BY <1>1, <1>4 DEF DataInv, ImportedIsStored, OkMeansStored, StoreTypes, Reports
<1>12. GroundsAreGiven'
  BY <1>1, <1>4, <1>5, Untouched
<1> QED BY <1>1, <1>3, <1>6, <1>7, <1>8, <1>9, <1>10, <1>11, <1>12, Untouched DEF DataInv

\* What holds on whatever part of its rows a failing write has stored.
LEMMA FailureKeeps ==
  ASSUME DataInv, excused' = TRUE, bars' \in Frames, newest' \in [Symbols -> [Days -> Nat]],
         \A s \in Symbols : Flows(bars, s) \subseteq Flows(bars', s),
         UNCHANGED <<version, cache, life, memory, report>>
  PROVE  /\ StoreTypes' /\ NewestIsBounded' /\ WritersAreNew' /\ FrameIsCurrent' /\ CacheIsCovered'
         /\ ImportedIsStored' /\ OkMeansStored'
<1>1. StoreTypes'
  BY DEF DataInv, StoreTypes
<1>2. NewestIsBounded' /\ WritersAreNew' /\ FrameIsCurrent' /\ CacheIsCovered' /\ OkMeansStored'
  BY DEF NewestIsBounded, WritersAreNew, FrameIsCurrent, CacheIsCovered, OkMeansStored
<1>3. ImportedIsStored'
  BY DEF DataInv, ImportedIsStored, StoreTypes, Reports
<1> QED BY <1>1, <1>2, <1>3

LEMMA BarsFailKeeps ==
  ASSUME DataInv, BarsFail
  PROVE  DataInv'
<1>1. /\ fetch' = IdleFetch
      /\ UNCHANGED <<version, cache, life, memory, flow, report, sync, lacked>>
      /\ StoreTypes /\ fetch.frame \in Frames
  BY DEF BarsFail, DataInv, IsFetch
<1>2. \/ excused' = TRUE /\ UNCHANGED <<bars, newest>>
      \/ StoreFails(fetch.frame)
  BY DEF BarsFail
<1>3. /\ excused' = TRUE /\ bars' \in Frames /\ newest' \in [Symbols -> [Days -> Nat]]
      /\ \A s \in Symbols : Flows(bars, s) \subseteq Flows(bars', s)
  <2>1. CASE excused' = TRUE /\ UNCHANGED <<bars, newest>>
    BY <1>1, <2>1 DEF StoreTypes
  <2>2. CASE StoreFails(fetch.frame)
    BY <1>1, <2>2, FailureMoves DEF StoreFails
  <2> QED BY <1>2, <2>1, <2>2
<1>4. IsFetch(fetch)' /\ RowsAreSound(fetch.frame)'
  BY <1>1, IdleIs, EmptyFrame DEF RowsAreSound
<1>5. GroundsAreGiven'
  BY <1>1, <1>3, Untouched
<1> QED BY <1>1, <1>3, <1>4, <1>5, FailureKeeps, Untouched DEF DataInv

LEMMA ListSymbolKeeps ==
  ASSUME DataInv, ListSymbol
  PROVE  DataInv'
<1>1. /\ fetch.pc = "list" /\ fetch' = IdleFetch
      /\ UNCHANGED <<version, bars, cache, memory, flow, report, sync, newest, excused, lacked>>
      /\ life = [s \in Symbols |-> life[s]]
  BY DEF ListSymbol, stores, history, DataInv, StoreTypes
<1> DEFINE record == Record(ListedOn[fetch.symbol], Unknown, "listed")
<1>2. life' = life \/ life' = [life EXCEPT ![fetch.symbol] = Upsert(@, record)]
  BY DEF ListSymbol
<1> HIDE DEF record
<1>4. life' = [s \in Symbols |-> life'[s]]
  BY <1>1, <1>2
<1>6. StoreTypes'
  BY <1>1, <1>4 DEF DataInv, StoreTypes
<1>8. IsFetch(fetch)' /\ RowsAreSound(fetch.frame)'
  BY <1>1, IdleIs, EmptyFrame DEF RowsAreSound
<1>9. WritersAreNew' /\ CacheIsCovered'
  BY <1>1, IdleIs DEF DataInv, WritersAreNew, RowsAreNew, CacheIsCovered, IsCovered, Rows
<1> QED BY <1>1, <1>6, <1>8, <1>9, Untouched DEF DataInv

-------------------------------------------------------------------------------
(* The steps of a sync.                                                     *)

\* Steps that leave a sync without rows to write, and the marks as they were.
LEMMA SyncMoves ==
  ASSUME DataInv, IsSync(sync)', sync'.pc # "flush", sync'.pc # "upsert",
         UNCHANGED <<version, stores, life, memory, flow, report, fetch, history, lacked>>
  PROVE  DataInv'
<1>1. UNCHANGED <<version, bars, cache, life, memory, flow, report, fetch, newest, excused, lacked>>
  BY DEF stores, history
<1>2. sync'.frame = Empty
  BY DEF IsSync
<1>3. GroundsAreGiven'
  BY <1>1 DEF DataInv, GroundsAreGiven
<1>4. RowsAreSound(sync.frame)'
  BY <1>2, EmptyFrame DEF RowsAreSound
<1>5. WritersAreNew'
  BY <1>1 DEF DataInv, WritersAreNew, RowsAreNew, Rows
<1> QED BY <1>1, <1>3, <1>4, <1>5, Untouched DEF DataInv

LEMMA RefreshKeeps ==
  ASSUME DataInv, NEW listed \in SUBSET Symbols, NEW full, NEW dated, NEW fails,
         Refresh(listed, full, dated, fails)
  PROVE  DataInv'
<1> DEFINE priced == IF "symbols" \in fails THEN {} ELSE WithPrices
           recent == IF "recent" \in fails THEN {}
                     ELSE {s \in WithPrices : Priced(bars, s) \cap Recent # {}}
           last(s) == IF "last" \in fails THEN Unknown ELSE Max(Priced(bars, s))
           gone == Delistings(listed, full, priced, recent)
           marks == [s \in listed \cup gone |->
                       IF s \in listed
                       THEN Record(IF dated THEN ListedOn[s] ELSE Unknown, Unknown, "listed")
                       ELSE Record(Unknown, last(s), "delisted")]
<1>1. /\ sync' = [IdleSync EXCEPT !.pc = "upsert", !.marks = marks]
      /\ lacked' = IF full THEN lacked \cup (Symbols \ listed) ELSE lacked
      /\ excused' = (excused \/ "recent" \in fails)
  BY DEF Refresh
<1>2. /\ sync.pc = "idle"
      /\ UNCHANGED <<version, bars, cache, life, memory, flow, report, fetch, newest>>
      /\ excused \in BOOLEAN
  BY DEF Refresh, stores, DataInv, StoreTypes
<1>3. gone \subseteq Symbols /\ \A s \in gone : HasGrounds(s)'
  <2> SUFFICES ASSUME NEW s \in gone PROVE s \in Symbols /\ HasGrounds(s)'
    OBVIOUS
  <2>1. full /\ s \in WithPrices /\ s \in Symbols /\ s \notin listed /\ s \notin recent
    BY DEF Delistings, WithPrices
  <2>2. s \in lacked'
    BY <1>1, <2>1
  <2>3. "recent" \notin fails => Priced(bars, s) \cap Recent = {}
    BY <2>1
  <2>4. excused' \/ Priced(bars', s) \cap Recent = {}
    BY <1>1, <1>2, <2>3 DEF Priced, Rows
  <2> QED BY <2>1, <2>2, <2>4 DEF HasGrounds, Priced, Rows
<1>4. /\ DOMAIN marks \subseteq Symbols
      /\ \A s \in DOMAIN marks : SaysDelisted(marks[s]) => HasGrounds(s)'
  <2>1. \A s \in listed : ~SaysDelisted(marks[s])
    BY ListedSaysNothing
  <2> QED BY <1>3, <2>1
<1> HIDE DEF marks
<1>5. /\ IsSync(sync)' /\ sync'.pc = "upsert" /\ sync'.marks = marks /\ sync'.frame = Empty
  BY <1>1, IdleIs, EmptyFrame DEF IsSync, IdleSync
<1>6. GroundsAreGiven'
  BY <1>4, <1>5 DEF GroundsAreGiven, HasGrounds, Priced, Rows
<1>8. StoreTypes' /\ (~excused' => ~excused)
  <2>1. excused' \in BOOLEAN
    BY <1>1
  <2> QED BY <1>1, <1>2, <2>1 DEF DataInv, StoreTypes
<1>7. RowsAreSound(sync.frame)' /\ WritersAreNew'
  <2>1. RowsAreSound(sync.frame)'
    BY <1>5, EmptyFrame DEF RowsAreSound
  <2>2. WritersAreNew'
    BY <1>1, <1>2, <1>5 DEF DataInv, WritersAreNew, RowsAreNew, Rows
  <2> QED BY <2>1, <2>2
<1> QED BY <1>2, <1>5, <1>6, <1>7, <1>8, Untouched DEF DataInv

LEMMA UpsertMarksKeeps ==
  ASSUME DataInv, NEW fails, UpsertMarks(fails)
  PROVE  DataInv'
<1>1. /\ sync.pc = "upsert" /\ sync' = [sync EXCEPT !.pc = "pool", !.marks = <<>>]
      /\ UNCHANGED <<version, bars, cache, memory, flow, report, fetch, newest, excused, lacked>>
      /\ life = [s \in Symbols |-> life[s]] /\ IsSync(sync)
  BY DEF UpsertMarks, stores, history, DataInv, StoreTypes
<1>2. \/ life' = life
      \/ life' = [s \in Symbols |-> IF s \in DOMAIN sync.marks
                                    THEN Upsert(life[s], sync.marks[s]) ELSE life[s]]
  BY DEF UpsertMarks
<1>3. life' = [s \in Symbols |-> life'[s]]
  BY <1>1, <1>2
<1>4. /\ IsSync(sync)' /\ sync'.pc = "pool" /\ sync'.frame = Empty
  BY <1>1 DEF IsSync
<1>6. GroundsAreGiven' /\ StoreTypes'
  <2>1. GroundsAreGiven'
    BY <1>1, <1>4 DEF GroundsAreGiven
  <2>2. StoreTypes'
    BY <1>1, <1>3 DEF DataInv, StoreTypes
  <2> QED BY <2>1, <2>2
<1>7. RowsAreSound(sync.frame)'
  BY <1>4, EmptyFrame DEF RowsAreSound
<1>8. WritersAreNew'
  BY <1>1, <1>4 DEF DataInv, WritersAreNew, RowsAreNew, Rows
<1> QED BY <1>1, <1>4, <1>6, <1>7, <1>8, Untouched DEF DataInv

LEMMA PoolKeeps ==
  ASSUME DataInv, NEW readable, Pool(readable)
  PROVE  DataInv'
<1>1. PICK pool : sync' = [sync EXCEPT !.pc = "snapshot", !.pool = pool]
  BY DEF Pool
<1>2. IsSync(sync) /\ sync.pc = "pool"
  BY DEF DataInv, Pool
<1>3. IsSync(sync)' /\ sync'.pc = "snapshot"
  BY <1>1, <1>2 DEF IsSync
<1> QED BY <1>3, SyncMoves DEF Pool, history

LEMMA PoolOfSourceKeeps ==
  ASSUME DataInv, PoolOfSource
  PROVE  DataInv'
<1>1. CASE sync' = IdleSync
  <2>1. IsSync(sync)' /\ sync'.pc = "idle"
    BY <1>1, IdleIs
  <2> QED BY <2>1, SyncMoves DEF PoolOfSource, history
<1>2. CASE sync' # IdleSync
  <2>1. PICK pool : sync' = [sync EXCEPT !.pc = "snapshot", !.pool = pool]
    BY <1>2 DEF PoolOfSource
  <2>2. IsSync(sync) /\ sync.pc = "pool"
    BY DEF DataInv, PoolOfSource
  <2>3. IsSync(sync)' /\ sync'.pc = "snapshot"
    BY <2>1, <2>2 DEF IsSync
  <2> QED BY <2>3, SyncMoves DEF PoolOfSource, history
<1> QED BY <1>1, <1>2

LEMMA SnapshotKeeps ==
  ASSUME DataInv, NEW readable, Snapshot(readable)
  PROVE  DataInv'
<1>1. PICK complete : sync' = [sync EXCEPT !.pc = "next", !.complete = complete]
  BY DEF Snapshot
<1>2. IsSync(sync) /\ sync.pc = "snapshot"
  BY DEF DataInv, Snapshot
<1>3. IsSync(sync)' /\ sync'.pc = "next"
  BY <1>1, <1>2 DEF IsSync
<1> QED BY <1>3, SyncMoves DEF Snapshot, history

LEMMA EndSyncKeeps ==
  ASSUME DataInv, EndSync
  PROVE  DataInv'
<1>1. IsSync(sync)' /\ sync'.pc = "idle"
  BY IdleIs DEF EndSync
<1> QED BY <1>1, SyncMoves DEF EndSync, history

\* The two ways of a sync past a symbol without rows to write, and the one with.
LEMMA TakeSymbolMoves ==
  ASSUME DataInv, NEW s \in Symbols, TakeSymbol(s)
  PROVE  /\ sync.pc = "next" /\ s \in sync.pool
         /\ sync'.pool = sync.pool \ {s} /\ sync'.complete = sync.complete \ {s}
         /\ sync'.marks = sync.marks
         /\ sync'.unserved = [t \in Symbols |-> sync'.unserved[t]]
         /\ \A t \in Symbols : t # s => sync'.unserved[t] = sync.unserved[t]
         /\ \/ /\ sync'.pc = "next" /\ sync'.frame = Empty /\ sync'.done = sync.done \cup {s}
               /\ \/ s \in sync.complete /\ sync'.unserved[s] = sync.unserved[s]
                  \/ sync'.unserved[s] = Days
            \/ /\ sync'.pc = "flush" /\ sync'.symbol = s /\ sync'.done = sync.done
               /\ sync'.frame \in Frames
               /\ Rows(sync'.frame, s) = Days \ sync'.unserved[s]
               /\ \A t \in Symbols : \A d \in Rows(sync'.frame, t) :
                    sync'.frame[t][d].price = version /\ sync'.frame[t][d].volume = version
         /\ IsSync(sync')
<1>1. /\ sync.pc = "next" /\ s \in sync.pool /\ IsSync(sync) /\ sync.frame = Empty
      /\ sync.unserved = [t \in Symbols |-> sync.unserved[t]] /\ version \in Nat
  BY DEF TakeSymbol, DataInv, IsSync, StoreTypes
<1>2. CASE /\ s \in sync.complete
           /\ sync' = [sync EXCEPT !.pool = @ \ {s}, !.complete = @ \ {s}, !.done = @ \cup {s}]
  <2>1. sync' = [pc |-> sync.pc, marks |-> sync.marks, pool |-> sync.pool \ {s},
                 complete |-> sync.complete \ {s}, done |-> sync.done \cup {s},
                 symbol |-> sync.symbol, unserved |-> sync.unserved, frame |-> sync.frame]
    BY <1>1, <1>2 DEF IsSync
  <2>2. /\ sync'.pc = sync.pc /\ sync'.frame = sync.frame /\ sync'.unserved = sync.unserved
        /\ sync'.pool = sync.pool \ {s} /\ sync'.marks = sync.marks
        /\ sync'.done = sync.done \cup {s} /\ sync'.complete = sync.complete \ {s}
    BY <2>1
  <2>3. IsSync(sync')
    BY <1>1, <2>1, <2>2, EmptyFrame DEF IsSync
  <2> QED BY <1>1, <1>2, <2>2, <2>3
<1>3. CASE /\ s \notin sync.complete
           /\ sync' = [sync EXCEPT !.pool = @ \ {s}, !.done = @ \cup {s}, !.unserved[s] = Days]
  <2> DEFINE unserved == [sync.unserved EXCEPT ![s] = Days]
  <2>1. sync' = [pc |-> sync.pc, marks |-> sync.marks, pool |-> sync.pool \ {s},
                 complete |-> sync.complete, done |-> sync.done \cup {s},
                 symbol |-> sync.symbol, unserved |-> unserved, frame |-> sync.frame]
    BY <1>1, <1>3 DEF IsSync
  <2>2. /\ unserved = [t \in Symbols |-> unserved[t]] /\ unserved[s] = Days
        /\ \A t \in Symbols : t # s => unserved[t] = sync.unserved[t]
    BY <1>1
  <2> HIDE DEF unserved
  <2>3. /\ sync'.pc = sync.pc /\ sync'.frame = sync.frame /\ sync'.unserved = unserved
        /\ sync'.pool = sync.pool \ {s} /\ sync'.marks = sync.marks
        /\ sync'.done = sync.done \cup {s} /\ sync'.complete = sync.complete
    BY <2>1
  <2>4. IsSync(sync')
    BY <1>1, <2>1, <2>2, <2>3, EmptyFrame DEF IsSync
  <2> QED BY <1>1, <1>3, <2>2, <2>3, <2>4
<1>4. ASSUME NEW gap,
             sync' = [sync EXCEPT !.pc = "flush", !.pool = @ \ {s}, !.symbol = s,
                        !.unserved[s] = Days \ Served(s, gap),
                        !.frame[s] = [d \in Days |->
                            IF d \in Served(s, gap) THEN Row(version) ELSE NoRow]]
      PROVE  /\ sync'.pool = sync.pool \ {s} /\ sync'.marks = sync.marks
             /\ sync'.unserved = [t \in Symbols |-> sync'.unserved[t]]
             /\ \A t \in Symbols : t # s => sync'.unserved[t] = sync.unserved[t]
             /\ sync'.pc = "flush" /\ sync'.symbol = s /\ sync'.done = sync.done
             /\ sync'.complete = sync.complete /\ sync'.frame \in Frames
             /\ Rows(sync'.frame, s) = Days \ sync'.unserved[s]
             /\ \A t \in Symbols : \A d \in Rows(sync'.frame, t) :
                  sync'.frame[t][d].price = version /\ sync'.frame[t][d].volume = version
             /\ IsSync(sync')
  <2> DEFINE served == Served(s, gap)
             new == [d \in Days |-> IF d \in served THEN Row(version) ELSE NoRow]
             frame == [Empty EXCEPT ![s] = new]
             missing == Days \ served
             unserved == [sync.unserved EXCEPT ![s] = missing]
  <2>1. \A d \in Days : /\ new[d] \in StoredRow \cup {NoRow}
                        /\ new[d] # NoRow <=> d \in served
                        /\ new[d] # NoRow => new[d].price = version /\ new[d].volume = version
    <3> HIDE DEF served
    <3> QED BY <1>1, RowOf
  <2>2. new \in [Days -> StoredRow \cup {NoRow}]
    BY <2>1
  <2>3. sync' = [pc |-> "flush", marks |-> sync.marks, pool |-> sync.pool \ {s},
                 complete |-> sync.complete, done |-> sync.done, symbol |-> s,
                 unserved |-> unserved, frame |-> frame]
    BY <1>1, <1>4 DEF IsSync
  <2> HIDE DEF new, served
  <2>4. /\ frame \in Frames
        /\ \A t \in Symbols : frame[t] = IF t = s THEN new ELSE Empty[t]
    BY <2>2, EmptyFrame DEF Frames
  <2>5. /\ \A t \in Symbols : \A d \in Rows(frame, t) :
             frame[t][d].price = version /\ frame[t][d].volume = version
        /\ Rows(frame, s) = Days \cap served
    BY <2>1, <2>4, EmptyFrame DEF Rows
  <2> HIDE DEF missing
  <2>6. /\ unserved = [t \in Symbols |-> unserved[t]] /\ unserved[s] = missing
        /\ \A t \in Symbols : t # s => unserved[t] = sync.unserved[t]
    BY <1>1
  <2> HIDE DEF frame, unserved
  <2>7. /\ sync'.pc = "flush" /\ sync'.frame = frame /\ sync'.unserved = unserved
        /\ sync'.pool = sync.pool \ {s} /\ sync'.marks = sync.marks /\ sync'.symbol = s
        /\ sync'.done = sync.done /\ sync'.complete = sync.complete
    BY <2>3
  <2>8. IsSync(sync')
    BY <2>3, <2>4, <2>6, <2>7 DEF IsSync
  <2>9. Rows(sync'.frame, s) = Days \ sync'.unserved[s]
    BY <2>5, <2>6, <2>7 DEF missing
  <2> QED BY <2>4, <2>5, <2>6, <2>7, <2>8, <2>9
<1>5. CASE \E gap \in Suspended[s] :
              sync' = [sync EXCEPT !.pc = "flush", !.pool = @ \ {s}, !.symbol = s,
                         !.unserved[s] = Days \ Served(s, gap),
                         !.frame[s] = [d \in Days |->
                             IF d \in Served(s, gap) THEN Row(version) ELSE NoRow]]
           /\ s \notin sync.complete
  <2>1. sync.complete \ {s} = sync.complete
    BY <1>5
  <2>2. PICK gap \in Suspended[s] :
           sync' = [sync EXCEPT !.pc = "flush", !.pool = @ \ {s}, !.symbol = s,
                      !.unserved[s] = Days \ Served(s, gap),
                      !.frame[s] = [d \in Days |->
                          IF d \in Served(s, gap) THEN Row(version) ELSE NoRow]]
    BY <1>5, Zenon
  <2>3. /\ sync'.pool = sync.pool \ {s} /\ sync'.marks = sync.marks
        /\ sync'.unserved = [t \in Symbols |-> sync'.unserved[t]]
        /\ \A t \in Symbols : t # s => sync'.unserved[t] = sync.unserved[t]
        /\ sync'.pc = "flush" /\ sync'.symbol = s /\ sync'.done = sync.done
        /\ sync'.complete = sync.complete /\ sync'.frame \in Frames
        /\ Rows(sync'.frame, s) = Days \ sync'.unserved[s]
        /\ \A t \in Symbols : \A d \in Rows(sync'.frame, t) :
             sync'.frame[t][d].price = version /\ sync'.frame[t][d].volume = version
        /\ IsSync(sync')
    BY <1>4, <2>2, Zenon
  <2> QED BY <1>1, <2>1, <2>3
<1>6. \/ /\ s \in sync.complete
         /\ sync' = [sync EXCEPT !.pool = @ \ {s}, !.complete = @ \ {s}, !.done = @ \cup {s}]
      \/ /\ s \notin sync.complete
         /\ sync' = [sync EXCEPT !.pool = @ \ {s}, !.done = @ \cup {s}, !.unserved[s] = Days]
      \/ /\ s \notin sync.complete
         /\ \E gap \in Suspended[s] :
              sync' = [sync EXCEPT !.pc = "flush", !.pool = @ \ {s}, !.symbol = s,
                         !.unserved[s] = Days \ Served(s, gap),
                         !.frame[s] = [d \in Days |->
                             IF d \in Served(s, gap) THEN Row(version) ELSE NoRow]]
  BY Zenon DEF TakeSymbol
<1> QED BY <1>2, <1>3, <1>5, <1>6, Zenon

LEMMA TakeSymbolKeeps ==
  ASSUME DataInv, NEW s \in Symbols, TakeSymbol(s)
  PROVE  DataInv'
<1>1. /\ version \in Nat /\ version >= 1
      /\ UNCHANGED <<version, bars, cache, life, memory, flow, report, fetch, newest, excused, lacked>>
  BY DEF TakeSymbol, DataInv, StoreTypes, stores, history
<1>2. IsSync(sync)' /\ sync'.pc \in {"next", "flush"}
  BY TakeSymbolMoves
<1>3. \A t \in Symbols : \A d \in Rows(sync'.frame, t) :
        sync'.frame[t][d].price = version /\ sync'.frame[t][d].volume = version
  BY TakeSymbolMoves, EmptyFrame
<1>4. RowsAreSound(sync.frame)'
  BY <1>1, <1>3 DEF RowsAreSound, Rows
<1>5. WritersAreNew'
  <2> SUFFICES ASSUME ~excused
               PROVE  RowsAreNew(sync.frame)'
                      /\ (fetch'.pc \in {"cache", "write"} => RowsAreNew(fetch.frame)')
    BY <1>1 DEF WritersAreNew
  <2>1. RowsAreNew(sync.frame)'
    BY <1>1, <1>3 DEF RowsAreNew, Rows, DataInv, NewestIsBounded
  <2> QED BY <1>1, <2>1 DEF DataInv, WritersAreNew, RowsAreNew, Rows
<1>6. GroundsAreGiven'
  BY <1>2 DEF GroundsAreGiven
<1> QED BY <1>1, <1>2, <1>4, <1>5, <1>6, Untouched DEF DataInv, stores, history

LEMMA FlushSymbolKeeps ==
  ASSUME DataInv, FlushSymbol
  PROVE  DataInv'
<1>1. /\ sync.pc = "flush" /\ Store("sync", sync.frame)
      /\ UNCHANGED <<version, cache, life, memory, flow, report, fetch, lacked>>
      /\ StoreTypes /\ IsSync(sync) /\ sync.frame \in Frames
  BY DEF FlushSymbol, DataInv, IsSync
<1>2. PICK done, symbol :
        sync' = [sync EXCEPT !.pc = "next", !.done = done, !.symbol = symbol, !.frame = Empty]
  BY DEF FlushSymbol
<1>3. IsSync(sync)' /\ sync'.pc = "next" /\ sync'.frame = Empty
  BY <1>1, <1>2, EmptyFrame DEF IsSync
<1>4. /\ bars' \in Frames /\ newest' \in [Symbols -> [Days -> Nat]]
      /\ \A s \in Symbols : Rows(bars', s) = Rows(sync.frame, s) \cup Rows(bars, s)
      /\ \A s \in Symbols : Flows(bars, s) \subseteq Flows(bars', s)
      /\ ~excused' => ~excused /\ Holding \subseteq {"sync"}
  BY <1>1, StoreMoves
<1>5. ~excused' => flow.pc \in {"idle", "read"} /\ fetch.pc \in {"idle", "list"}
  <2>1. IsFlow(flow) /\ IsFetch(fetch)
    BY DEF DataInv
  <2>2. ~excused' => "flow" \notin Holding /\ "fetch" \notin Holding
    BY <1>4
  <2> QED BY <2>1, <2>2, HoldingIs DEF IsFlow, IsFetch
<1>6. StoreTypes'
  <2>1. excused' \in BOOLEAN
    BY <1>1 DEF Store, StoreTypes
  <2> QED BY <1>1, <1>4, <2>1 DEF StoreTypes
<1>7. RowsAreSound(sync.frame)' /\ GroundsAreGiven'
  <2>1. RowsAreSound(sync.frame)'
    BY <1>3, EmptyFrame DEF RowsAreSound
  <2>2. GroundsAreGiven'
    BY <1>3 DEF GroundsAreGiven
  <2> QED BY <2>1, <2>2
<1>8. NewestIsBounded'
  <2>1. ~excused => \A s \in Symbols : \A d \in Rows(sync.frame, s) :
          /\ sync.frame[s][d].price = sync.frame[s][d].volume
          /\ newest[s][d] <= sync.frame[s][d].price /\ sync.frame[s][d].price <= version
    BY <1>1 DEF DataInv, RowsAreSound, WritersAreNew, RowsAreNew, StoreTypes
  <2>2. NewestIsBounded
    BY DEF DataInv
  <2> QED BY <1>1, <2>1, <2>2, NewRowsStored
<1>9. WritersAreNew' /\ FrameIsCurrent'
  BY <1>1, <1>3, <1>5 DEF WritersAreNew, FrameIsCurrent
<1>10. CacheIsCovered'
  BY <1>1, <1>4, <1>5 DEF DataInv, CacheIsCovered, IsCovered, Rows
<1>11. ImportedIsStored' /\ OkMeansStored'
  BY <1>1, <1>4 DEF DataInv, ImportedIsStored, OkMeansStored, StoreTypes, Reports
<1> QED BY <1>1, <1>3, <1>6, <1>7, <1>8, <1>9, <1>10, <1>11, Untouched DEF DataInv

LEMMA SyncFailsKeeps ==
  ASSUME DataInv, SyncFails
  PROVE  DataInv'
<1>1. /\ sync' = IdleSync /\ StoreFails(sync.frame) /\ StoreTypes /\ sync.frame \in Frames
      /\ UNCHANGED <<version, cache, life, memory, flow, report, fetch, lacked>>
  BY DEF SyncFails, DataInv, IsSync
<1>2. /\ excused' = TRUE /\ bars' \in Frames /\ newest' \in [Symbols -> [Days -> Nat]]
      /\ \A s \in Symbols : Flows(bars, s) \subseteq Flows(bars', s)
  BY <1>1, FailureMoves DEF StoreFails
<1>3. IsSync(sync)' /\ RowsAreSound(sync.frame)' /\ GroundsAreGiven'
  BY <1>1, IdleIs, EmptyFrame DEF RowsAreSound, GroundsAreGiven
<1> QED BY <1>1, <1>2, <1>3, FailureKeeps, Untouched DEF DataInv

-------------------------------------------------------------------------------
(* The steps of a capital-flow fetch.                                       *)

\* Steps that end a fetch without writing: what it reports counts no row as imported.
LEMMA FlowEnds ==
  ASSUME DataInv, flow' = IdleFlow, report' \in Reports, report'.imported = {},
         UNCHANGED <<version, bars, cache, life, memory, fetch, sync, newest, lacked>>,
         excused' \in BOOLEAN, ~excused' => ~excused,
         report'.status = "ok" /\ ~excused' => \A s \in report'.asked \ report'.blank : Flows(bars, s) # {},
         flow.pc # "write"
  PROVE  DataInv'
<1>1. IsFlow(flow)' /\ flow'.pc = "idle"
  BY IdleIs
<1>2. StoreTypes'
  BY DEF DataInv, StoreTypes
<1>3. FlowsAreWritten' /\ FrameIsCurrent'
  BY <1>1 DEF FlowsAreWritten, FrameIsCurrent
<1>4. CacheIsCovered'
  BY <1>1 DEF DataInv, CacheIsCovered, IsCovered, Rows
<1>5. ImportedIsStored'
  BY DEF ImportedIsStored
<1>6. OkMeansStored'
  BY DEF OkMeansStored, Flows, Rows
<1> QED BY <1>1, <1>2, <1>3, <1>4, <1>5, <1>6, Untouched DEF DataInv

LEMMA StartFlowKeeps ==
  ASSUME DataInv, NEW asked \in SUBSET Symbols, StartFlow(asked)
  PROVE  DataInv'
<1>1. /\ flow.pc = "idle" /\ report' = NoReport
      /\ UNCHANGED <<version, bars, cache, life, memory, fetch, sync, newest, excused, lacked>>
  BY DEF StartFlow, stores, history
<1>2. flow' = [IdleFlow EXCEPT !.pc = "read", !.asked = asked]
  BY DEF StartFlow
<1>3. IsFlow(flow)' /\ flow'.pc = "read"
  <2> DEFINE f == IdleFlow
  <2>1. IsFlow(f) /\ f.todo = {} /\ f.again = {}
    BY IdleIs DEF IdleFlow
  <2>2. flow' = [f EXCEPT !.pc = "read", !.asked = asked]
    BY <1>2
  <2> HIDE DEF f
  <2> QED BY <2>1, <2>2 DEF IsFlow
<1>4. StoreTypes'
  BY <1>1, IdleIs DEF DataInv, StoreTypes
<1>5. FlowsAreWritten' /\ FrameIsCurrent'
  BY <1>3 DEF FlowsAreWritten, FrameIsCurrent
<1>6. CacheIsCovered'
  BY <1>1, <1>3 DEF DataInv, CacheIsCovered, IsCovered, Rows
<1>7. ImportedIsStored' /\ OkMeansStored'
  BY <1>1, IdleIs DEF ImportedIsStored, OkMeansStored
<1> QED BY <1>1, <1>3, <1>4, <1>5, <1>6, <1>7, Untouched DEF DataInv

LEMMA CrawlFailsKeeps ==
  ASSUME DataInv, CrawlFails
  PROVE  DataInv'
<1>1. /\ flow.pc = "crawl" /\ flow' = IdleFlow
      /\ UNCHANGED <<version, bars, cache, life, memory, fetch, sync, newest, excused, lacked>>
      /\ excused \in BOOLEAN /\ flow.asked \subseteq Symbols
  BY DEF CrawlFails, stores, history, DataInv, StoreTypes, IsFlow
<1>2. report' = [status |-> "partial", asked |-> flow.asked, imported |-> {}, blank |-> {}]
  BY DEF CrawlFails, NoReport
<1>3. report' \in Reports /\ report'.imported = {} /\ report'.status = "partial"
  BY <1>1, <1>2 DEF Reports
<1> QED BY <1>1, <1>3, FlowEnds

LEMMA FlowFailsKeeps ==
  ASSUME DataInv, FlowFails
  PROVE  DataInv'
<1>1. /\ flow' = IdleFlow
      /\ UNCHANGED <<version, cache, life, memory, report, fetch, sync, lacked>>
      /\ StoreTypes /\ flow.frame \in Frames
  BY DEF FlowFails, DataInv, IsFlow
<1>2. \/ excused' = TRUE /\ UNCHANGED <<bars, newest>>
      \/ StoreFails(flow.frame)
  BY DEF FlowFails
<1>3. /\ excused' = TRUE /\ bars' \in Frames /\ newest' \in [Symbols -> [Days -> Nat]]
      /\ \A s \in Symbols : Flows(bars, s) \subseteq Flows(bars', s)
  <2>1. CASE excused' = TRUE /\ UNCHANGED <<bars, newest>>
    BY <1>1, <2>1 DEF StoreTypes
  <2>2. CASE StoreFails(flow.frame)
    BY <1>1, <2>2, FailureMoves DEF StoreFails
  <2> QED BY <1>2, <2>1, <2>2
<1>4. IsFlow(flow)' /\ FlowsAreWritten'
  BY <1>1, IdleIs DEF FlowsAreWritten
<1>5. GroundsAreGiven'
  BY <1>1, <1>3, Untouched
<1> QED BY <1>1, <1>3, <1>4, <1>5, FailureKeeps, Untouched DEF DataInv

\* Steps of the crawl, which only concern what it has still to do.
LEMMA CrawlMoves ==
  ASSUME DataInv, IsFlow(flow)', flow.pc = "crawl", flow'.pc = "crawl",
         flow'.frame = flow.frame, flow'.asked = flow.asked, flow'.todo = flow.todo,
         memory' = [s \in Symbols |-> memory'[s]], \A s \in Symbols : memory'[s].flows \subseteq Days,
         UNCHANGED <<version, bars, cache, life, report, fetch, sync, newest, excused, lacked>>
  PROVE  DataInv'
<1>1. StoreTypes'
  BY DEF DataInv, StoreTypes
<1>2. FlowsAreWritten'
  BY DEF DataInv, FlowsAreWritten, Flows, Rows
<1>3. FrameIsCurrent'
  BY DEF DataInv, FrameIsCurrent
<1>4. CacheIsCovered'
  BY DEF DataInv, CacheIsCovered, IsCovered, Rows
<1> QED BY <1>1, <1>2, <1>3, <1>4, Untouched DEF DataInv

LEMMA RetryFlowKeeps ==
  ASSUME DataInv, RetryFlow
  PROVE  DataInv'
<1>1. PICK round, skip :
        flow' = [flow EXCEPT !.round = round, !.wave = flow.again, !.skip = skip]
  BY DEF RetryFlow
<1>2. /\ IsFlow(flow) /\ flow.pc = "crawl"
      /\ memory = [s \in Symbols |-> memory[s]] /\ \A s \in Symbols : memory[s].flows \subseteq Days
  BY DEF DataInv, RetryFlow, StoreTypes
<1>3. /\ IsFlow(flow)' /\ flow'.pc = "crawl"
      /\ flow'.frame = flow.frame /\ flow'.asked = flow.asked /\ flow'.todo = flow.todo
  BY <1>1, <1>2 DEF IsFlow
<1>4. /\ UNCHANGED <<version, bars, cache, life, memory, report, fetch, sync, newest, excused, lacked>>
  BY DEF RetryFlow, stores, history
<1> QED BY <1>2, <1>3, <1>4, CrawlMoves

LEMMA FetchFlowKeeps ==
  ASSUME DataInv, NEW s \in Symbols, FetchFlow(s)
  PROVE  DataInv'
<1>1. /\ flow.pc = "crawl" /\ s \in flow.wave /\ IsFlow(flow)
      /\ memory = [t \in Symbols |-> memory[t]] /\ \A t \in Symbols : memory[t].flows \subseteq Days
      /\ UNCHANGED <<version, bars, cache, life, report, fetch, sync, newest, excused, lacked>>
  BY DEF FetchFlow, stores, history, DataInv, StoreTypes
<1>2. PICK o \in (IF flow.skip THEN SkippingOutcomes[s] ELSE FreshOutcomes[s]) :
        LET stoodIn == o.code = "network_error" /\ memory[s].days # {} IN
        /\ flow' = [flow EXCEPT !.got[s] = Noted(s, o), !.wave = @ \ {s}, !.first = FALSE,
              !.skip = IF flow.first THEN o.blamed \/ o.code = "network_error" ELSE @,
              !.again = IF o.code = "ok" THEN @ \ {s}
                        ELSE IF flow.round = 0 /\ ~stoodIn THEN @ \cup {s} ELSE @]
        /\ memory' = IF o.code = "ok" /\ o.days # {}
                     THEN [memory EXCEPT ![s] = [days |-> o.days, flows |-> o.flows]]
                     ELSE memory
  BY DEF FetchFlow
<1>3. o.flows \subseteq Days
  <2>1. o \in Outcomes(TRUE, Answers[s]) \/ o \in Outcomes(FALSE, Answers[s])
    BY <1>2 DEF SkippingOutcomes, FreshOutcomes
  <2> QED BY <2>1, OutcomeFlows
<1>4. memory' = [t \in Symbols |-> memory'[t]] /\ \A t \in Symbols : memory'[t].flows \subseteq Days
  <2> DEFINE kept == [days |-> o.days, flows |-> o.flows]
  <2>1. kept.flows = o.flows
    OBVIOUS
  <2>2. memory' = memory \/ memory' = [memory EXCEPT ![s] = kept]
    BY <1>2
  <2> HIDE DEF kept
  <2> QED BY <1>1, <1>3, <2>1, <2>2
<1>5. PICK wave, first, skip, again :
        /\ flow' = [flow EXCEPT !.got[s] = Noted(s, o), !.wave = wave, !.first = first,
                                !.skip = skip, !.again = again]
        /\ wave \subseteq flow.todo /\ again \subseteq flow.todo
  <2> DEFINE stoodIn == o.code = "network_error" /\ memory[s].days # {}
             again == IF o.code = "ok" THEN flow.again \ {s}
                      ELSE IF flow.round = 0 /\ ~stoodIn THEN flow.again \cup {s} ELSE flow.again
             skip == IF flow.first THEN o.blamed \/ o.code = "network_error" ELSE flow.skip
             first == FALSE
             wave == flow.wave \ {s}
  <2>1. flow.wave \subseteq flow.todo /\ flow.again \subseteq flow.todo
    BY <1>1 DEF IsFlow
  <2>2. wave \subseteq flow.todo /\ again \subseteq flow.todo
    BY <1>1, <2>1
  <2>3. flow' = [flow EXCEPT !.got[s] = Noted(s, o), !.wave = wave, !.first = first,
                             !.skip = skip, !.again = again]
    BY <1>2
  <2> HIDE DEF stoodIn, again, skip, first, wave
  <2> QED BY <2>2, <2>3
<1>6. Noted(s, o).flows \subseteq Days
  <2>1. flow.got[s].flows \subseteq Days /\ memory[s].flows \subseteq Days
    BY <1>1 DEF IsFlow
  <2> QED BY <1>3, <2>1 DEF Noted
<1> DEFINE note == Noted(s, o)
           got == [flow.got EXCEPT ![s] = note]
<1> HIDE DEF note
<1>7. got = [t \in Symbols |-> got[t]] /\ \A t \in Symbols : got[t].flows \subseteq Days
  <2>1. flow.got = [t \in Symbols |-> flow.got[t]] /\ \A t \in Symbols : flow.got[t].flows \subseteq Days
    BY <1>1 DEF IsFlow
  <2>2. \A t \in Symbols : got[t] = IF t = s THEN note ELSE flow.got[t]
    BY <2>1
  <2>3. got = [t \in Symbols |-> got[t]]
    BY <2>1
  <2> QED BY <1>6, <2>1, <2>2, <2>3 DEF note
<1>8. flow' = [pc |-> flow.pc, frame |-> flow.frame, asked |-> flow.asked, todo |-> flow.todo,
               wave |-> wave, first |-> first, skip |-> skip, again |-> again,
               round |-> flow.round, seen |-> flow.seen, got |-> got, report |-> flow.report]
  BY <1>1, <1>5 DEF IsFlow, note
<1> HIDE DEF got
<1>9. /\ IsFlow(flow)' /\ flow'.pc = "crawl"
      /\ flow'.frame = flow.frame /\ flow'.asked = flow.asked /\ flow'.todo = flow.todo
  <2>1. /\ flow'.pc = flow.pc /\ flow'.frame = flow.frame /\ flow'.asked = flow.asked
        /\ flow'.todo = flow.todo /\ flow'.wave = wave /\ flow'.again = again
        /\ flow'.seen = flow.seen /\ flow'.got = got /\ flow'.report = flow.report
    BY <1>8
  <2>2. flow' = [pc |-> flow'.pc, frame |-> flow'.frame, asked |-> flow'.asked,
                 todo |-> flow'.todo, wave |-> flow'.wave, first |-> flow'.first,
                 skip |-> flow'.skip, again |-> flow'.again, round |-> flow'.round,
                 seen |-> flow'.seen, got |-> flow'.got, report |-> flow'.report]
    BY <1>8
  <2>3. /\ flow'.pc = "crawl" /\ flow'.frame \in Frames /\ flow'.seen \in Frames
        /\ flow'.asked \subseteq Symbols /\ flow'.todo \subseteq flow'.asked
        /\ flow'.wave \subseteq flow'.todo /\ flow'.again \subseteq flow'.todo
        /\ flow'.report \in Reports
    BY <1>1, <1>5, <2>1 DEF IsFlow
  <2>4. /\ flow'.got = [t \in Symbols |-> flow'.got[t]]
        /\ \A t \in Symbols : flow'.got[t].flows \subseteq Days
    BY <1>7, <2>1
  <2> QED BY <2>1, <2>2, <2>3, <2>4 DEF IsFlow
<1> QED BY <1>1, <1>4, <1>9, CrawlMoves

LEMMA ReadFlowKeeps ==
  ASSUME DataInv, NEW readable \in BOOLEAN, ReadFlow(readable)
  PROVE  DataInv'
<1> DEFINE frame == Existing(flow.asked, readable)
           todo == {s \in flow.asked : ~HasAllFlows(frame, s)}
<1>1. /\ flow.pc = "read" /\ IsFlow(flow) /\ StoreTypes
      /\ excused' = (excused \/ ~readable \/ Holding # {})
      /\ UNCHANGED <<version, bars, cache, life, memory, fetch, sync, newest, lacked>>
  BY DEF ReadFlow, stores, DataInv
<1>2. \/ /\ todo = {} /\ flow' = IdleFlow
         /\ report' = [NoReport EXCEPT !.status = "ok", !.asked = flow.asked]
      \/ /\ flow' = [flow EXCEPT !.pc = "crawl", !.frame = frame, !.todo = todo,
                                 !.wave = todo, !.first = TRUE]
         /\ report' = report
  BY DEF ReadFlow
<1>3. \A s \in Symbols : \A d \in Days :
        frame[s][d] = IF s \notin flow.asked THEN NoRow
                      ELSE IF readable /\ bars[s][d] # NoRow THEN bars[s][d] ELSE cache[s][d]
  BY DEF Existing
<1>4. frame = [s \in Symbols |-> [d \in Days |-> frame[s][d]]]
  BY DEF Existing
<1>5. todo \subseteq flow.asked /\ \A s \in flow.asked \ todo : Flows(frame, s) # {}
  BY DEF HasAllFlows
<1> HIDE DEF frame, todo
<1>6. frame \in Frames
  <2>1. \A s \in Symbols : \A d \in Days : frame[s][d] \in StoredRow \cup {NoRow}
    BY <1>1, <1>3 DEF StoreTypes, Frames
  <2>2. frame = [s \in Symbols |-> [d \in Days |-> frame[s][d]]]
    BY <1>4
  <2>3. \A s \in Symbols : frame[s] \in [Days -> StoredRow \cup {NoRow}]
    BY <2>1, <2>2
  <2> QED BY <2>2, <2>3 DEF Frames
<1>7. excused' \in BOOLEAN /\ (~excused' => ~excused)
  BY <1>1
<1>8. ~excused' => \A s \in Symbols : \A d \in Days :
        frame[s][d] = IF s \in flow.asked THEN bars[s][d] ELSE NoRow
  <2> SUFFICES ASSUME ~excused', NEW s \in Symbols, NEW d \in Days
               PROVE  frame[s][d] = IF s \in flow.asked THEN bars[s][d] ELSE NoRow
    OBVIOUS
  <2>1. ~excused /\ readable /\ "fetch" \notin Holding
    BY <1>1
  <2>2. IsCovered(cache) /\ flow.pc # "write" /\ fetch.pc # "write"
    <3>1. IsFetch(fetch)
      BY DEF DataInv
    <3> QED BY <1>1, <2>1, <3>1, HoldingIs DEF DataInv, CacheIsCovered
  <2>3. bars[s][d] = NoRow => cache[s][d] = NoRow
    BY <2>2 DEF IsCovered, Rows
  <2> QED BY <1>3, <2>1, <2>3
<1>9. CASE flow' = IdleFlow /\ todo = {}
           /\ report' = [NoReport EXCEPT !.status = "ok", !.asked = flow.asked]
  <2>1. report' = [status |-> "ok", asked |-> flow.asked, imported |-> {}, blank |-> {}]
    BY <1>9 DEF NoReport
  <2>2. flow.asked \subseteq Symbols
    BY <1>1 DEF IsFlow
  <2>3. /\ report' \in Reports /\ report'.imported = {} /\ report'.asked = flow.asked
    BY <2>1, <2>2 DEF Reports
  <2>4. ~excused' => \A s \in flow.asked : Flows(bars, s) # {}
    BY <1>5, <1>8, <1>9, <2>2 DEF Flows, Rows
  <2> QED BY <1>1, <1>7, <1>9, <2>3, <2>4, FlowEnds
<1>10. CASE /\ flow' = [flow EXCEPT !.pc = "crawl", !.frame = frame, !.todo = todo,
                                   !.wave = todo, !.first = TRUE]
           /\ report' = report
  <2> DEFINE first == TRUE
  <2>1. flow' = [flow EXCEPT !.pc = "crawl", !.frame = frame, !.todo = todo,
                             !.wave = todo, !.first = first]
    BY <1>10
  <2> HIDE DEF first
  <2>2. flow' = [pc |-> "crawl", frame |-> frame, asked |-> flow.asked, todo |-> todo,
                 wave |-> todo, first |-> first, skip |-> flow.skip, again |-> flow.again,
                 round |-> flow.round, seen |-> flow.seen, got |-> flow.got,
                 report |-> flow.report]
    BY <1>1, <2>1 DEF IsFlow
  <2>3. flow'.pc = "crawl" /\ flow'.frame = frame /\ flow'.asked = flow.asked
        /\ flow'.todo = todo /\ flow'.again = flow.again
    BY <2>2
  <2>4. flow.again = {}
    BY <1>1 DEF IsFlow
  <2>5. IsFlow(flow)'
    BY <1>1, <1>6, <1>5, <2>2, <2>3, <2>4 DEF IsFlow
  <2>6. StoreTypes'
    BY <1>1, <1>7, <1>10 DEF StoreTypes
  <2>7. FlowsAreWritten'
    BY <1>5, <2>3 DEF FlowsAreWritten, Flows, Rows
  <2>8. FrameIsCurrent'
    BY <1>1, <1>8, <2>3 DEF FrameIsCurrent
  <2>9. CacheIsCovered'
    BY <1>1, <1>7, <2>3 DEF DataInv, CacheIsCovered, IsCovered, Rows
  <2> QED BY <1>1, <1>7, <1>10, <2>5, <2>6, <2>7, <2>8, <2>9, Untouched DEF DataInv
<1> QED BY <1>2, <1>9, <1>10

LEMMA WriteFlowCacheKeeps ==
  ASSUME DataInv, WriteFlowCache
  PROVE  DataInv'
<1>1. /\ flow.pc = "cache" /\ cache' = Merged(flow.frame, flow.seen) /\ IsFlow(flow)
      /\ UNCHANGED <<version, bars, life, memory, report, fetch, sync, newest, excused, lacked>>
  BY DEF WriteFlowCache, history, DataInv
<1>2. flow' = [flow EXCEPT !.pc = "write", !.seen = Empty]
  BY DEF WriteFlowCache
<1>3. /\ IsFlow(flow)' /\ flow'.pc = "write" /\ flow'.frame = flow.frame
      /\ flow'.report = flow.report
  BY <1>1, <1>2, EmptyFrame DEF IsFlow
<1>4. /\ cache' \in Frames
      /\ \A s \in Symbols : Rows(cache', s) = Rows(flow.frame, s) \cup Rows(flow.seen, s)
  BY <1>1, FrameMerged DEF IsFlow
<1>5. StoreTypes'
  BY <1>1, <1>4 DEF DataInv, StoreTypes
<1>6. FlowsAreWritten'
  BY <1>1, <1>3 DEF DataInv, FlowsAreWritten, Flows, Rows
<1>7. FrameIsCurrent'
  BY <1>1, <1>3 DEF DataInv, FrameIsCurrent, Rows
<1>8. CacheIsCovered'
  <2> SUFFICES ASSUME ~excused
               PROVE  IsCovered(cache)' /\ (fetch.pc = "cache" => IsCovered(fetch.seen)')
    BY <1>1, <1>3 DEF CacheIsCovered
  <2>1. IsCovered(flow.seen) /\ (fetch.pc = "cache" => IsCovered(fetch.seen))
    BY <1>1 DEF DataInv, CacheIsCovered
  <2>2. IsCovered(cache)'
    BY <1>1, <1>3, <1>4, <2>1 DEF IsCovered, Rows
  <2> QED BY <1>1, <1>3, <2>1, <2>2 DEF IsCovered, Rows
<1> QED BY <1>1, <1>3, <1>5, <1>6, <1>7, <1>8, Untouched DEF DataInv, history

LEMMA WriteFlowKeeps ==
  ASSUME DataInv, WriteFlow
  PROVE  DataInv'
<1>1. /\ flow.pc = "write" /\ Store("flow", flow.frame) /\ flow' = IdleFlow
      /\ report' = flow.report
      /\ UNCHANGED <<version, cache, life, memory, fetch, sync, lacked>>
      /\ StoreTypes /\ IsFlow(flow) /\ flow.frame \in Frames /\ flow.report \in Reports
  BY DEF WriteFlow, DataInv, IsFlow
<1>2. IsFlow(flow)' /\ flow'.pc = "idle"
  BY <1>1, IdleIs
<1>3. /\ bars' \in Frames /\ newest' \in [Symbols -> [Days -> Nat]]
      /\ \A s \in Symbols : Rows(bars', s) = Rows(flow.frame, s) \cup Rows(bars, s)
      /\ \A s \in Symbols : Flows(flow.frame, s) \subseteq Flows(bars', s)
      /\ ~excused' => ~excused /\ Holding \subseteq {"flow"}
  BY <1>1, StoreMoves
<1>4. ~excused' => fetch.pc \in {"idle", "list"} /\ sync.pc \notin {"upsert", "flush"}
  <2>1. IsFlow(flow) /\ IsFetch(fetch)
    BY DEF DataInv
  <2>2. ~excused' => "fetch" \notin Holding /\ "sync" \notin Holding
    BY <1>3
  <2> QED BY <2>1, <2>2, HoldingIs DEF IsFetch
<1>5. StoreTypes'
  <2>1. excused' \in BOOLEAN
    BY <1>1 DEF Store, StoreTypes
  <2> QED BY <1>1, <1>3, <2>1 DEF StoreTypes
<1>6. FlowsAreWritten' /\ FrameIsCurrent'
  BY <1>2 DEF FlowsAreWritten, FrameIsCurrent
<1>7. NewestIsBounded'
  <2>1. ~excused => \A s \in Symbols : \A d \in Rows(flow.frame, s) :
          flow.frame[s][d].price = newest[s][d] /\ flow.frame[s][d].volume = newest[s][d]
    BY <1>1 DEF DataInv, FrameIsCurrent
  <2>2. ~excused => \A s \in Symbols : \A d \in Days : newest[s][d] <= version /\ newest[s][d] \in Nat
    BY DEF DataInv, NewestIsBounded, StoreTypes
  <2>3. ~excused => \A s \in Symbols : \A d \in Rows(flow.frame, s) :
          /\ flow.frame[s][d].price = flow.frame[s][d].volume
          /\ newest[s][d] <= flow.frame[s][d].price /\ flow.frame[s][d].price <= version
    BY <2>1, <2>2 DEF Rows
  <2>4. NewestIsBounded
    BY DEF DataInv
  <2> QED BY <1>1, <2>3, <2>4, NewRowsStored
<1>8. WritersAreNew'
  BY <1>1, <1>4 DEF WritersAreNew
<1>9. CacheIsCovered'
  BY <1>1, <1>2, <1>3, <1>4 DEF DataInv, CacheIsCovered, IsCovered, Rows
<1>10. ImportedIsStored' /\ OkMeansStored'
  <2>1. /\ \A c \in flow.report.imported : c[2] \in Flows(flow.frame, c[1])
        /\ flow.report.status = "ok" =>
             \A s \in flow.report.asked \ flow.report.blank : Flows(flow.frame, s) # {}
    BY <1>1 DEF DataInv, FlowsAreWritten
  <2>2. /\ \A c \in flow.report.imported : c[1] \in Symbols
        /\ flow.report.asked \subseteq Symbols
    BY <1>1 DEF Reports
  <2>3. ImportedIsStored'
    BY <1>1, <1>3, <2>1, <2>2 DEF ImportedIsStored
  <2>4. OkMeansStored'
    BY <1>1, <1>3, <2>1, <2>2 DEF OkMeansStored
  <2> QED BY <2>3, <2>4
<1>11. GroundsAreGiven'
  BY <1>1, <1>3, <1>4, Untouched
<1> QED BY <1>1, <1>2, <1>5, <1>6, <1>7, <1>8, <1>9, <1>10, <1>11, Untouched DEF DataInv

\* A row with a flow.
LEMMA FlowRow ==
  ASSUME NEW v \in Nat, NEW w \in Nat
  PROVE  LET row == [price |-> v, volume |-> w, flow |-> TRUE]
         IN  row \in StoredRow /\ row # NoRow /\ row.price = v /\ row.volume = w /\ row.flow
<1> DEFINE yes == TRUE
           row == [price |-> v, volume |-> w, flow |-> yes]
<1>1. yes \in BOOLEAN /\ yes
  OBVIOUS
<1> HIDE DEF yes
<1>2. row \in StoredRow
  BY <1>1 DEF StoredRow
<1>3. row.price = v /\ row.volume = w
  OBVIOUS
<1>4. row.flow = yes
  OBVIOUS
<1> HIDE DEF row
<1>5. row # NoRow
  BY <1>2
<1>6. row.flow
  BY <1>1, <1>4, Zenon
<1> QED BY <1>2, <1>3, <1>5, <1>6, Zenon DEF row, yes

\* What a crawl came to has the flows it is going to report: those the rows had, and
\* those of the rows that are imported.
LEMMA WrittenIs ==
  ASSUME IsFlow(flow)
  PROVE  /\ Written \in Frames
         /\ Imported \subseteq flow.todo \X Days
         /\ \A c \in Imported : c[2] \in Flows(Written, c[1])
         /\ \A s \in Symbols : Flows(flow.frame, s) \subseteq Flows(Written, s)
         /\ \A s \in flow.todo : flow.got[s].flows # {} => Flows(Written, s) # {}
         /\ \A s \in Symbols : \A d \in Days :
              /\ Written[s][d] # NoRow <=>
                   flow.frame[s][d] # NoRow \/ (s \in flow.todo /\ d \in flow.got[s].flows)
              /\ flow.frame[s][d] # NoRow =>
                   /\ Written[s][d].price = flow.frame[s][d].price
                   /\ Written[s][d].volume = flow.frame[s][d].volume
              /\ flow.frame[s][d] = NoRow /\ Written[s][d] # NoRow =>
                   s \in flow.asked /\ Written[s][d].price = 0 /\ Written[s][d].volume = 0
<1> DEFINE frame == flow.frame
           into(s, d) == <<s, d>> \in ImportedIntoRows
           alone(s, d) == <<s, d>> \in ImportedAlone
           made == [price |-> 0, volume |-> 0, flow |-> TRUE]
           filled(s, d) == [flow.frame[s][d] EXCEPT !.flow = TRUE]
<1>1. /\ frame \in Frames /\ flow.todo \subseteq Symbols /\ flow.todo \subseteq flow.asked
      /\ \A s \in Symbols : flow.got[s].flows \subseteq Days
  BY DEF IsFlow
<1>2. \A s \in Symbols : \A d \in Days :
        /\ into(s, d) <=> /\ s \in flow.todo /\ d \in flow.got[s].flows
                          /\ frame[s][d] # NoRow /\ ~frame[s][d].flow
        /\ alone(s, d) <=> /\ s \in flow.todo /\ d \in flow.got[s].flows
                           /\ frame[s][d] = NoRow
  BY DEF ImportedIntoRows, ImportedAlone, Returned
<1>3. Imported \subseteq flow.todo \X Days
  BY DEF Imported, ImportedIntoRows, ImportedAlone, Returned
<1>4. \A c \in Imported : into(c[1], c[2]) \/ alone(c[1], c[2])
  BY DEF Imported, ImportedIntoRows, ImportedAlone, Returned
<1>5. /\ made \in StoredRow /\ made # NoRow /\ made.price = 0 /\ made.volume = 0 /\ made.flow
  BY FlowRow
<1>6. Written = [s \in Symbols |-> [d \in Days |->
                   CASE into(s, d) -> filled(s, d)
                     [] alone(s, d) -> made
                     [] OTHER -> frame[s][d]]]
  BY Zenon DEF Written
<1> HIDE DEF frame, into, alone, made, filled
<1>7. ASSUME NEW s \in Symbols, NEW d \in Days, frame[s][d] # NoRow
      PROVE  /\ filled(s, d) \in StoredRow /\ filled(s, d) # NoRow /\ filled(s, d).flow
             /\ filled(s, d).price = frame[s][d].price
             /\ filled(s, d).volume = frame[s][d].volume
  <2> DEFINE old == frame[s][d]
  <2>1. old \in StoredRow
    BY <1>1, <1>7 DEF Frames
  <2> HIDE DEF old
  <2>2. PICK p \in Nat, v \in Nat, f \in BOOLEAN : old = [price |-> p, volume |-> v, flow |-> f]
    BY <2>1 DEF StoredRow
  <2>3. \A g : [old EXCEPT !.flow = g] = [price |-> p, volume |-> v, flow |-> g]
    BY <2>2
  <2>4. filled(s, d) = [price |-> p, volume |-> v, flow |-> TRUE]
    BY <2>3, Zenon DEF filled, old, frame
  <2>5. old.price = p /\ old.volume = v
    BY <2>2
  <2> QED BY <2>4, <2>5, FlowRow DEF old
<1>8. ASSUME NEW s \in Symbols, NEW d \in Days
      PROVE  /\ into(s, d) => Written[s][d] = filled(s, d)
             /\ alone(s, d) => Written[s][d] = made
             /\ ~into(s, d) /\ ~alone(s, d) => Written[s][d] = frame[s][d]
  BY <1>2, <1>6
<1>9. ASSUME NEW s \in Symbols, NEW d \in Days
      PROVE  /\ Written[s][d] \in StoredRow \cup {NoRow}
             /\ into(s, d) \/ alone(s, d) => Written[s][d] # NoRow /\ Written[s][d].flow
             /\ frame[s][d] # NoRow =>
                  /\ Written[s][d] # NoRow
                  /\ Written[s][d].price = frame[s][d].price
                  /\ Written[s][d].volume = frame[s][d].volume
             /\ frame[s][d] = NoRow /\ Written[s][d] # NoRow =>
                  /\ s \in flow.asked /\ Written[s][d].price = 0 /\ Written[s][d].volume = 0
  <2>1. CASE into(s, d)
    BY <1>2, <1>7, <1>8, <2>1
  <2>2. CASE alone(s, d)
    BY <1>1, <1>2, <1>5, <1>8, <2>2
  <2>3. CASE ~into(s, d) /\ ~alone(s, d)
    BY <1>1, <1>8, <2>3 DEF Frames
  <2> QED BY <2>1, <2>2, <2>3
<1>10. Written \in Frames
  <2>1. Written = [s \in Symbols |-> [d \in Days |-> Written[s][d]]]
    BY <1>6
  <2>2. \A s \in Symbols : Written[s] \in [Days -> StoredRow \cup {NoRow}]
    BY <1>9, <2>1
  <2> QED BY <2>1, <2>2 DEF Frames
<1>11. \A c \in Imported : c[2] \in Flows(Written, c[1])
  BY <1>1, <1>3, <1>4, <1>9 DEF Flows, Rows
<1>12. \A s \in Symbols : Flows(frame, s) \subseteq Flows(Written, s)
  <2> SUFFICES ASSUME NEW s \in Symbols, NEW d \in Flows(frame, s)
               PROVE  d \in Flows(Written, s)
    OBVIOUS
  <2>1. d \in Days /\ frame[s][d] # NoRow /\ frame[s][d].flow
    BY DEF Flows, Rows
  <2>2. ~into(s, d) /\ ~alone(s, d)
    BY <1>2, <2>1
  <2> QED BY <1>8, <2>1, <2>2 DEF Flows, Rows
<1>13. \A s \in flow.todo : flow.got[s].flows # {} => Flows(Written, s) # {}
  <2> SUFFICES ASSUME NEW s \in flow.todo, NEW d \in flow.got[s].flows
               PROVE  d \in Flows(Written, s)
    OBVIOUS
  <2>1. s \in Symbols /\ d \in Days
    BY <1>1
  <2>2. CASE into(s, d) \/ alone(s, d)
    BY <1>9, <2>1, <2>2 DEF Flows, Rows
  <2>3. CASE ~into(s, d) /\ ~alone(s, d)
    <3>1. frame[s][d] # NoRow /\ frame[s][d].flow
      BY <1>2, <2>1, <2>3
    <3>2. d \in Flows(frame, s)
      BY <2>1, <3>1 DEF Flows, Rows
    <3> QED BY <1>12, <2>1, <3>2
  <2> QED BY <2>2, <2>3
<1>14. \A s \in Symbols : \A d \in Days :
        Written[s][d] # NoRow <=>
          frame[s][d] # NoRow \/ (s \in flow.todo /\ d \in flow.got[s].flows)
  BY <1>2, <1>8, <1>9
<1> QED BY <1>3, <1>9, <1>10, <1>11, <1>12, <1>13, <1>14 DEF frame

LEMMA MergeFlowKeeps ==
  ASSUME DataInv, MergeFlow
  PROVE  DataInv'
<1>1. /\ flow.pc = "crawl" /\ IsFlow(flow) /\ StoreTypes
      /\ UNCHANGED <<version, bars, cache, life, memory, fetch, sync, newest, excused, lacked>>
  BY DEF MergeFlow, stores, history, DataInv
<1>2. /\ flow.asked \subseteq Symbols /\ flow.todo \subseteq flow.asked
      /\ \A s \in flow.asked \ flow.todo : Flows(flow.frame, s) # {}
  BY <1>1 DEF DataInv, IsFlow, FlowsAreWritten
<1>3. /\ FlowReport \in Reports /\ FlowReport.imported = Imported /\ FlowReport.asked = flow.asked
      /\ FlowReport.status = "ok" =>
            \A s \in flow.todo \ FlowReport.blank : flow.got[s].flows # {}
  <2> DEFINE missing == {s \in flow.todo : flow.got[s].days = {} \/ flow.got[s].code # "ok"} \cup Incomplete
             status == IF missing = {} THEN "ok" ELSE "partial"
             blank == {s \in flow.todo : flow.got[s].days # {} /\ flow.got[s].flows = {}}
  <2>1. FlowReport = [status |-> status, asked |-> flow.asked, imported |-> Imported, blank |-> blank]
    BY DEF FlowReport
  <2>2. status = "ok" => \A s \in flow.todo \ blank : flow.got[s].flows # {}
    OBVIOUS
  <2>3. status \in {"none", "ok", "partial"} /\ blank \subseteq flow.todo
    OBVIOUS
  <2>4. Imported \subseteq Symbols \X Days
    BY <1>1, <1>2, WrittenIs
  <2> HIDE DEF missing, status, blank
  <2>5. FlowReport \in Reports
    BY <1>2, <2>1, <2>3, <2>4 DEF Reports
  <2> QED BY <2>1, <2>2, <2>5
<1>4. FlowReport.status = "ok" => \A s \in flow.asked \ FlowReport.blank : Flows(Written, s) # {}
  BY <1>1, <1>2, <1>3, WrittenIs
<1>5. CASE Imported = {} /\ flow' = IdleFlow /\ report' = FlowReport
  <2>1. excused \in BOOLEAN
    BY <1>1 DEF StoreTypes
  <2>2. FlowReport.status = "ok" /\ ~excused =>
          \A s \in flow.asked \ FlowReport.blank : Flows(bars, s) # {}
    <3> SUFFICES ASSUME FlowReport.status = "ok", ~excused, NEW s \in flow.asked \ FlowReport.blank
                 PROVE  Flows(bars, s) # {}
      OBVIOUS
    <3>1. Flows(Written, s) # {} /\ s \in Symbols
      BY <1>2, <1>4
    <3>2. \A d \in Days : flow.frame[s][d] = bars[s][d]
      BY <1>1, <1>2 DEF DataInv, FrameIsCurrent
    <3>3. Written[s] = [d \in Days |-> flow.frame[s][d]]
      BY <1>5, <3>1, Zenon DEF Written, Imported
    <3>4. \A d \in Days : Written[s][d] = bars[s][d]
      BY <3>2, <3>3
    <3> QED BY <3>1, <3>4 DEF Flows, Rows
  <2> QED BY <1>1, <1>3, <1>5, <2>1, <2>2, FlowEnds
<1>6. CASE /\ flow' = [IdleFlow EXCEPT !.pc = "cache", !.frame = Written, !.seen = cache,
                                       !.report = FlowReport]
           /\ report' = report
  <2> DEFINE f == IdleFlow
             frame == Written
             told == FlowReport
  <2>1. IsFlow(f)
    BY IdleIs
  <2>2. flow' = [f EXCEPT !.pc = "cache", !.frame = frame, !.seen = cache, !.report = told]
    BY <1>6
  <2>3. frame \in Frames /\ cache \in Frames /\ told \in Reports
    BY <1>1, <1>3, WrittenIs DEF StoreTypes
  <2> HIDE DEF f, frame, told
  <2>4. flow' = [pc |-> "cache", frame |-> frame, asked |-> f.asked, todo |-> f.todo,
                 wave |-> f.wave, first |-> f.first, skip |-> f.skip, again |-> f.again,
                 round |-> f.round, seen |-> cache, got |-> f.got, report |-> told]
    BY <2>1, <2>2 DEF IsFlow
  <2>5. /\ flow'.pc = "cache" /\ flow'.frame = frame /\ flow'.seen = cache /\ flow'.report = told
        /\ flow'.asked = f.asked /\ flow'.todo = f.todo /\ flow'.wave = f.wave
        /\ flow'.again = f.again /\ flow'.got = f.got
    BY <2>4
  <2>6. IsFlow(flow)'
    BY <2>1, <2>3, <2>4, <2>5 DEF IsFlow
  <2>7. StoreTypes'
    BY <1>1, <1>6 DEF StoreTypes
  <2>8. FlowsAreWritten'
    <3>1. \A c \in told.imported : c[2] \in Flows(frame, c[1])
      BY <1>1, <1>3, WrittenIs DEF told, frame
    <3>2. told.status = "ok" => \A s \in told.asked \ told.blank : Flows(frame, s) # {}
      BY <1>3, <1>4 DEF told, frame
    <3> QED BY <2>5, <3>1, <3>2 DEF FlowsAreWritten, Flows, Rows
  <2>9. ASSUME ~excused, NEW s \in Symbols, NEW d \in Rows(frame, s)
        PROVE  frame[s][d].price = newest[s][d] /\ frame[s][d].volume = newest[s][d]
    <3>1. d \in Days /\ frame[s][d] # NoRow
      BY DEF Rows
    <3>2. flow.frame[s][d] = IF s \in flow.asked THEN bars[s][d] ELSE NoRow
      BY <1>1, <2>9, <3>1 DEF DataInv, FrameIsCurrent
    <3>3. /\ bars[s][d] = NoRow => newest[s][d] = 0
          /\ bars[s][d] # NoRow => bars[s][d].price = newest[s][d] /\ bars[s][d].volume = newest[s][d]
      BY <2>9, <3>1 DEF DataInv, NewestIsBounded, BarsAreNewest, Rows
    <3>4. /\ flow.frame[s][d] # NoRow =>
               frame[s][d].price = flow.frame[s][d].price
               /\ frame[s][d].volume = flow.frame[s][d].volume
          /\ flow.frame[s][d] = NoRow =>
               s \in flow.asked /\ frame[s][d].price = 0 /\ frame[s][d].volume = 0
      BY <1>1, <3>1, WrittenIs DEF frame
    <3> QED BY <3>2, <3>3, <3>4
  <2>10. FrameIsCurrent'
    BY <1>1, <2>5, <2>9 DEF FrameIsCurrent, Rows
  <2>11. CacheIsCovered'
    BY <1>1, <2>5 DEF DataInv, CacheIsCovered, IsCovered, Rows
  <2> QED BY <1>1, <1>6, <2>6, <2>7, <2>8, <2>10, <2>11, Untouched DEF DataInv
<1> QED BY <1>5, <1>6 DEF MergeFlow

-------------------------------------------------------------------------------
(* The theorems.                                                            *)

LEMMA StutterKeeps == DataInv /\ UNCHANGED vars => DataInv'
  BY Untouched DEF DataInv, vars, history, stores

LEMMA StepKeeps == DataInv /\ [Next]_vars => DataInv'
<1> SUFFICES ASSUME DataInv, [Next]_vars PROVE DataInv'
  OBVIOUS
<1>1. CASE Adjust
  BY <1>1, AdjustKeeps
<1>2. CASE FlowOps
  <2>1. ASSUME NEW asked \in (SUBSET Symbols) \ {{}}, StartFlow(asked) PROVE DataInv'
    BY <2>1, StartFlowKeeps
  <2>2. ASSUME NEW readable \in BOOLEAN, ReadFlow(readable) PROVE DataInv'
    BY <2>2, ReadFlowKeeps
  <2>3. ASSUME NEW s \in Symbols, FetchFlow(s) PROVE DataInv'
    BY <2>3, FetchFlowKeeps
  <2>4. CASE RetryFlow \/ CrawlFails \/ MergeFlow
    BY <2>4, RetryFlowKeeps, CrawlFailsKeeps, MergeFlowKeeps
  <2>5. CASE WriteFlowCache \/ WriteFlow \/ FlowFails
    BY <2>5, WriteFlowCacheKeeps, WriteFlowKeeps, FlowFailsKeeps
  <2> QED BY <1>2, <2>1, <2>2, <2>3, <2>4, <2>5 DEF FlowOps
<1>3. CASE FetchOps
  <2>1. ASSUME NEW s \in Symbols, FetchBars(s) PROVE DataInv'
    BY <2>1, FetchBarsKeeps
  <2>2. CASE WriteBarsCache \/ WriteBars \/ BarsFail \/ ListSymbol
    BY <2>2, WriteBarsCacheKeeps, WriteBarsKeeps, BarsFailKeeps, ListSymbolKeeps
  <2> QED BY <1>3, <2>1, <2>2 DEF FetchOps
<1>4. CASE SyncOps
  <2>1. ASSUME NEW listed \in Lists \ {{}}, NEW full \in BOOLEAN, NEW dated \in BOOLEAN,
               NEW fails \in SUBSET {"symbols", "recent", "last"},
               Refresh(listed, full, dated, fails)
        PROVE  DataInv'
    BY <2>1, RefreshKeeps
  <2>2. ASSUME NEW fails \in BOOLEAN, UpsertMarks(fails) PROVE DataInv'
    BY <2>2, UpsertMarksKeeps
  <2>3. ASSUME NEW readable \in BOOLEAN, Pool(readable) PROVE DataInv'
    BY <2>3, PoolKeeps
  <2>4. ASSUME NEW readable \in BOOLEAN, Snapshot(readable) PROVE DataInv'
    BY <2>4, SnapshotKeeps
  <2>5. ASSUME NEW s \in Symbols, TakeSymbol(s) PROVE DataInv'
    BY <2>5, TakeSymbolKeeps
  <2>6. CASE PoolOfSource \/ FlushSymbol \/ SyncFails \/ EndSync
    BY <2>6, PoolOfSourceKeeps, FlushSymbolKeeps, SyncFailsKeeps, EndSyncKeeps
  <2> QED BY <1>4, <2>1, <2>2, <2>3, <2>4, <2>5, <2>6 DEF SyncOps
<1>5. CASE UNCHANGED vars
  BY <1>5, StutterKeeps
<1> QED BY <1>1, <1>2, <1>3, <1>4, <1>5 DEF Next

LEMMA InvHolds == Spec => []DataInv
<1> QED BY InitInv, StepKeeps, PTL DEF Spec

\* What a capital-flow fetch counts as imported is in the warehouse when it returns,
\* and stays there, whatever overlaps, fails or is adjusted meanwhile
\* (fetch_capital_flow_into_cache, Warehouse.write_daily_bars).
THEOREM ImportsAreKept == Spec => []ImportedIsStored
<1>1. DataInv => ImportedIsStored
  BY DEF DataInv
<1> QED BY <1>1, InvHolds, PTL

\* A capital-flow fetch that answers "ok" leaves a flow for every symbol it was asked
\* for, but those all of whose rows came with a blank amount, unless operations
\* overlapped or the warehouse failed, although it takes the rows of the cache for
\* stored ones: every row of the cache is in the warehouse then
\* (_read_existing_daily_bars, _symbols_with_complete_capital_flow).
THEOREM OkIsKept == Spec => []OkMeansStored
<1>1. DataInv => OkMeansStored
  BY DEF DataInv
<1> QED BY <1>1, InvHolds, PTL

\* Without an overlap or a failure no write takes a row back to an older version of its
\* prices: neither the rows a capital-flow fetch writes back, nor those it makes for a
\* flow alone (_merge_capital_flow_rows, Warehouse.write_daily_bars).
THEOREM PricesGoForward == Spec => []BarsAreNewest
<1>1. DataInv => BarsAreNewest
  BY DEF DataInv, NewestIsBounded, BarsAreNewest
<1> QED BY <1>1, InvHolds, PTL

\* A symbol becomes delisted only on the word of a complete list that lacked it, which
\* reads and upserts fail besides; and, if the recent rows could be read and nothing
\* was stored since, only while the warehouse has no recent price of it: a write
\* between the refresh and its upsert is an overlap
\* (refresh_symbol_lifecycle, upsert_symbol_lifecycle).
THEOREM DelistingsAreGrounded == Spec => DelistingHasGrounds
<1>1. DataInv /\ [Next]_vars =>
        [\A s \in Symbols : ~IsDelisted(life[s]) /\ IsDelisted(life'[s]) =>
             /\ s \in lacked
             /\ excused \/ Priced(bars, s) \cap Recent = {}]_vars
  <2> SUFFICES ASSUME DataInv, [Next]_vars, NEW s \in Symbols,
                      ~IsDelisted(life[s]), IsDelisted(life'[s])
               PROVE  HasGrounds(s)
    BY DEF HasGrounds
  <2>1. ListSymbol \/ \E fails \in BOOLEAN : UpsertMarks(fails)
    <3>1. life' # life
      OBVIOUS
    <3> QED BY <3>1 DEF Next, vars, Adjust, FlowOps, StartFlow, ReadFlow, FetchFlow, RetryFlow,
              CrawlFails, MergeFlow, WriteFlowCache, WriteFlow, FlowFails, FetchOps, FetchBars,
              WriteBarsCache, WriteBars, BarsFail, SyncOps, Refresh, Pool, PoolOfSource,
              Snapshot, TakeSymbol, FlushSymbol, SyncFails, EndSync
  <2>2. CASE ListSymbol
    <3> DEFINE record == Record(ListedOn[fetch.symbol], Unknown, "listed")
    <3>1. life' = life \/ life' = [life EXCEPT ![fetch.symbol] = Upsert(@, record)]
      BY <2>2 DEF ListSymbol
    <3>2. ~SaysDelisted(record)
      BY ListedSaysNothing
    <3> HIDE DEF record
    <3>3. life = [t \in Symbols |-> life[t]]
      BY DEF DataInv, StoreTypes
    <3>4. life'[s] = life[s] \/ life'[s] = Upsert(life[s], record)
      BY <3>1, <3>3
    <3> QED BY <3>2, <3>4, UpsertDelists
  <2>3. CASE \E fails \in BOOLEAN : UpsertMarks(fails)
    <3>1. PICK fails \in BOOLEAN : UpsertMarks(fails)
      BY <2>3
    <3>2. \/ life'[s] = life[s]
          \/ s \in DOMAIN sync.marks /\ life'[s] = Upsert(life[s], sync.marks[s])
      BY <3>1 DEF UpsertMarks
    <3>3. s \in DOMAIN sync.marks => (SaysDelisted(sync.marks[s]) => HasGrounds(s))
      BY <3>1 DEF UpsertMarks, DataInv, GroundsAreGiven
    <3> QED BY <3>2, <3>3, UpsertDelists
  <2> QED BY <2>1, <2>2, <2>3
<1> QED BY <1>1, InvHolds, PTL DEF Spec, DelistingHasGrounds

-------------------------------------------------------------------------------
(* The coverage table after a sync.                                         *)

\* A record gives a symbol's listing, if any, right.
IsMark(s, record) == record \in LifecycleRecord /\ record.listing \in {Unknown, ListedOn[s]}

LifeIsKnown ==
    /\ \A s \in Symbols : life[s] = Unknown \/ IsMark(s, life[s])
    /\ sync.pc = "upsert" =>
          \A s \in DOMAIN sync.marks : s \in Symbols /\ IsMark(s, sync.marks[s])

\* A symbol has every row the sync asks for, but for those its fetch did not return.
IsFilled(s) == Required(1, LastDay, life[s]) \subseteq Rows(bars, s) \cup sync.unserved[s]

\* Whatever the sync is through with is filled, and so is what it is about to write; what
\* it has not taken up yet, it is not through with.
SyncIsFilling ==
    /\ sync.pc \in {"idle", "upsert", "pool", "snapshot"} => sync.complete = {} /\ sync.done = {}
    /\ sync.complete \subseteq sync.pool /\ sync.pool \cup sync.done \subseteq Symbols
    /\ sync.pool \cap sync.done = {}
    /\ \A s \in sync.complete \cup sync.done : IsFilled(s)
    /\ sync.pc = "flush" =>
          /\ sync.symbol \in Symbols \ sync.pool
          /\ Days \ sync.unserved[sync.symbol] \subseteq Rows(sync.frame, sync.symbol)

TableInv == LifeIsKnown /\ WithPrices = Symbols /\ SyncIsFilling

\* A write leaves the rows that were there, and the prices they had.
LEMMA StoreFills ==
  ASSUME StoreTypes, NEW frame \in Frames, StoreRows(frame)
  PROVE  /\ \A s \in Symbols : Rows(bars, s) \subseteq Rows(bars', s)
         /\ WithPrices \subseteq WithPrices'
<1>1. \A s \in Symbols : Rows(bars', s) = Rows(frame, s) \cup Rows(bars, s)
  BY RowsStored
<1>2. ASSUME NEW s \in Symbols, NEW d \in Priced(bars, s) PROVE d \in Priced(bars', s)
  <2> DEFINE new == frame[s][d]
             old == bars[s][d]
  <2>1. d \in Days /\ old # NoRow /\ old.price # 0
    BY DEF Priced, Rows
  <2>2. new \in StoredRow \cup {NoRow} /\ old \in StoredRow \cup {NoRow}
    BY <2>1 DEF StoreTypes, Frames
  <2>3. bars'[s][d] = MergedRow(new, old)
    BY <2>1, RowsStored
  <2> HIDE DEF new, old
  <2>4. MergedRow(new, old) # NoRow /\ MergedRow(new, old).price # 0
    BY <2>1, <2>2, RowMerged
  <2> QED BY <2>1, <2>3, <2>4 DEF Priced, Rows
<1> QED BY <1>1, <1>2 DEF WithPrices

\* No step takes a row away, or a price.
LEMMA RowsStay ==
  ASSUME DataInv, [Next]_vars
  PROVE  /\ \A s \in Symbols : Rows(bars, s) \subseteq Rows(bars', s)
         /\ WithPrices \subseteq WithPrices'
<1>1. StoreTypes /\ flow.frame \in Frames /\ fetch.frame \in Frames /\ sync.frame \in Frames
  BY DEF DataInv, IsFlow, IsFetch, IsSync
<1>2. CASE bars' = bars
  BY <1>2 DEF Rows, WithPrices, Priced
<1>3. CASE \E frame \in Frames : StoreRows(frame)
  BY <1>1, <1>3, StoreFills
<1>4. CASE WriteFlow \/ WriteBars \/ FlushSymbol
  BY <1>1, <1>3, <1>4 DEF WriteFlow, WriteBars, FlushSymbol, Store
<1>5. CASE FlowFails \/ BarsFail \/ SyncFails
  <2>1. bars' = bars \/ \E frame \in Frames : StoreFails(frame)
    BY <1>1, <1>5 DEF FlowFails, BarsFail, SyncFails
  <2> QED BY <1>1, <1>2, <1>3, <2>1, FailureMoves
<1>6. CASE Adjust \/ FlowOps \/ UNCHANGED vars
  <2>1. WriteFlow \/ FlowFails \/ bars' = bars
    BY <1>6 DEF Adjust, vars, stores, FlowOps, StartFlow, ReadFlow, FetchFlow, RetryFlow,
         CrawlFails, MergeFlow, WriteFlowCache
  <2> QED BY <1>2, <1>4, <1>5, <2>1
<1>7. CASE FetchOps
  <2>1. WriteBars \/ BarsFail \/ bars' = bars
    BY <1>7 DEF FetchOps, FetchBars, WriteBarsCache, ListSymbol, stores
  <2> QED BY <1>2, <1>4, <1>5, <2>1
<1>8. CASE SyncOps
  <2>1. FlushSymbol \/ SyncFails \/ bars' = bars
    BY <1>8 DEF SyncOps, Refresh, UpsertMarks, Pool, PoolOfSource, Snapshot, TakeSymbol, EndSync,
         stores
  <2> QED BY <1>2, <1>4, <1>5, <2>1
<1> QED BY <1>6, <1>7, <1>8 DEF Next

-------------------------------------------------------------------------------
(* The greatest and the least of a set of days.                              *)

LEMMA NaturalInduction ==
  ASSUME NEW T, 0 \in T, \A n \in Nat : n \in T => n + 1 \in T
  PROVE  Nat \subseteq T
<1> DEFINE B == {1..n : n \in Nat \ T}
<1> SUFFICES ASSUME B # {} PROVE FALSE
  OBVIOUS
<1>1. IsWellFoundedOn(StrictSubsetOrdering(Nat), FiniteSubsetsOf(Nat))
  BY FS_StrictSubsetOrderingWellFounded
<1>2. B \subseteq FiniteSubsetsOf(Nat)
  <2>1. \A n \in Nat : IsFiniteSet(1..n) /\ 1..n \subseteq Nat
    BY FS_Interval
  <2> QED BY <2>1 DEF FiniteSubsetsOf
<1> HIDE DEF B
<1>3. PICK s \in B : \A t \in B : <<t, s>> \notin StrictSubsetOrdering(Nat)
  BY <1>1, <1>2, WFMin
<1> USE DEF B
<1>4. PICK n \in Nat \ T : s = 1..n
  BY <1>3
<1>5. n # 0 /\ n - 1 \in Nat /\ n - 1 \notin T
  BY <1>4
<1>6. 1..(n - 1) \in B
  BY <1>5
<1>7. 1..(n - 1) \subseteq 1..n /\ n \in 1..n /\ n \notin 1..(n - 1)
  BY <1>5
<1>8. <<1..(n - 1), 1..n>> \in StrictSubsetOrdering(Nat)
  BY <1>7 DEF StrictSubsetOrdering
<1> QED BY <1>3, <1>4, <1>6, <1>8

LEMMA LeastDay ==
  ASSUME NEW S \in SUBSET Days, S # {}
  PROVE  Min(S) \in S /\ \A d \in S : Min(S) <= d
<1> DEFINE T == {n \in Nat : \A m \in 0..n : m \notin S}
<1>1. ASSUME \A m \in S : \E n \in S : n < m PROVE FALSE
  <2>1. 0 \in T
    BY DEF Days
  <2>2. ASSUME NEW n \in Nat, n \in T PROVE n + 1 \in T
    <3>1. n + 1 \notin S
      BY <1>1, <2>2 DEF Days
    <3> QED BY <2>2, <3>1
  <2>3. Nat \subseteq T
    <3> HIDE DEF T
    <3> QED BY <2>1, <2>2, NaturalInduction
  <2>4. PICK n \in S : n \in Nat
    <3> HIDE DEF T
    <3>1. PICK n : n \in S
      OBVIOUS
    <3>2. n \in Days
      BY <3>1
    <3> QED BY <3>1, <3>2 DEF Days
  <2>5. n \in T
    BY <2>3, <2>4
  <2> QED BY <2>4, <2>5
<1>2. \E m \in S : \A n \in S : m <= n
  BY <1>1 DEF Days
<1> QED BY <1>2 DEF Min

LEMMA GreatestDay ==
  ASSUME NEW S \in SUBSET Days, S # {}
  PROVE  Max(S) \in S /\ \A d \in S : d <= Max(S)
<1> DEFINE T == {n \in Nat : \A m \in S : m < LastDay - n + 1}
<1>1. ASSUME \A m \in S : \E n \in S : n > m PROVE FALSE
  <2>1. 0 \in T
    BY DEF Days
  <2>2. ASSUME NEW n \in Nat, n \in T PROVE n + 1 \in T
    <3>1. \A m \in S : m < LastDay - n
      <4> SUFFICES ASSUME NEW m \in S, ~(m < LastDay - n) PROVE FALSE
        OBVIOUS
      <4>1. PICK x \in S : x > m
        BY <1>1
      <4>2. x < LastDay - n + 1
        BY <2>2
      <4> QED BY <4>1, <4>2 DEF Days
    <3> QED BY <3>1 DEF Days
  <2>3. Nat \subseteq T
    <3> HIDE DEF T
    <3> QED BY <2>1, <2>2, NaturalInduction
  <2>4. PICK m \in S : m \in Nat /\ m >= 1
    <3> HIDE DEF T
    <3>1. PICK m : m \in S
      OBVIOUS
    <3>2. m \in Days
      BY <3>1
    <3> QED BY <3>1, <3>2 DEF Days
  <2>5. LastDay \in T
    BY <2>3
  <2>6. m < LastDay - LastDay + 1
    BY <2>5
  <2> QED BY <2>4, <2>6
<1>2. \E m \in S : \A n \in S : m >= n
  BY <1>1 DEF Days
<1> QED BY <1>2 DEF Max, Days

-------------------------------------------------------------------------------
(* The lifecycle records.                                                    *)

LEMMA RecordIs ==
  ASSUME NEW l, NEW d, NEW st
  PROVE  /\ Record(l, d, st).listing = l /\ Record(l, d, st).delisted = d
         /\ Record(l, d, st).status = st
         /\ l \in Days \cup {Unknown} /\ d \in Days \cup {Unknown} /\ st \in {"listed", "delisted"}
              => Record(l, d, st) \in LifecycleRecord
  BY DEF Record, LifecycleRecord

\* An upsert leaves a record that gives the listing, if any, right, and takes no listing
\* back.
LEMMA UpsertMarked ==
  ASSUME NEW s \in Symbols, NEW old, old = Unknown \/ IsMark(s, old), NEW new, IsMark(s, new)
  PROVE  /\ IsMark(s, Upsert(old, new))
         /\ new.delisted = Unknown =>
              Required(1, LastDay, Upsert(old, new)) \subseteq Required(1, LastDay, old)
<1>1. /\ ListedOn[s] \in Days
      /\ \A r \in LifecycleRecord : /\ r.listing \in Days \cup {Unknown} /\ r # Unknown
                                    /\ r.delisted \in Days \cup {Unknown}
                                    /\ r.status \in {"listed", "delisted"}
  BY DEF LifecycleRecord
<1>2. CASE old = Unknown
  <2>1. Upsert(old, new) = new
    BY <1>2 DEF Upsert
  <2>2. new.delisted = Unknown =>
          Required(1, LastDay, new) \subseteq Required(1, LastDay, Unknown)
    BY <1>1 DEF IsMark, Required, Listing, Delisting
  <2> QED BY <1>2, <2>1, <2>2
<1>3. CASE old # Unknown
  <2> DEFINE l == Coalesce(new.listing, old.listing)
             d == Coalesce(new.delisted, old.delisted)
  <2>1. Upsert(old, new) = Record(l, d, new.status)
    BY <1>3 DEF Upsert
  <2>2. /\ l \in {Unknown, ListedOn[s]} /\ (old.listing # Unknown => l = old.listing)
        /\ d \in Days \cup {Unknown} /\ (new.delisted = Unknown => d = old.delisted)
    BY <1>1, <1>3 DEF IsMark, Coalesce
  <2>3. new.status \in {"listed", "delisted"}
    BY <1>1 DEF IsMark
  <2> HIDE DEF l, d
  <2> DEFINE r == Record(l, d, new.status)
  <2>4. r \in LifecycleRecord /\ r.listing = l /\ r.delisted = d
    BY <1>1, <2>2, <2>3, RecordIs
  <2> HIDE DEF r
  <2>5. r # Unknown
    BY <1>1, <2>4
  <2>6. ASSUME new.delisted = Unknown, NEW x \in Required(1, LastDay, r)
        PROVE  x \in Required(1, LastDay, old)
    <3>1. /\ x \in 1..LastDay /\ (l = Unknown \/ l <= x) /\ (d = Unknown \/ x <= d)
      BY <2>4, <2>5, <2>6 DEF Required, Listing, Delisting
    <3>2. /\ old.listing = Unknown \/ old.listing <= x
          /\ old.delisted = Unknown \/ x <= old.delisted
      BY <2>2, <2>6, <3>1
    <3> QED BY <1>3, <3>1, <3>2 DEF Required, Listing, Delisting
  <2> QED BY <2>1, <2>2, <2>4, <2>6 DEF IsMark, r
<1> QED BY <1>2, <1>3

\* What a successful daily-bars fetch notes of a symbol's listing.
LEMMA ListedMark ==
  ASSUME NEW s \in Symbols, NEW l \in {Unknown, ListedOn[s]}
  PROVE  /\ IsMark(s, Record(l, Unknown, "listed"))
         /\ Record(l, Unknown, "listed").delisted = Unknown
<1>1. l \in Days \cup {Unknown}
  OBVIOUS
<1> QED BY <1>1, RecordIs DEF IsMark

\* A daily-bars fetch and a sync change a record by an upsert, the fetch without a
\* delisting.
LEMMA ListSymbolNarrows ==
  ASSUME DataInv, LifeIsKnown, ListSymbol, NEW s \in Symbols
  PROVE  /\ life'[s] = Unknown \/ IsMark(s, life'[s])
         /\ Required(1, LastDay, life'[s]) \subseteq Required(1, LastDay, life[s])
<1>1. life = [t \in Symbols |-> life[t]]
  BY DEF DataInv, StoreTypes
<1> DEFINE new == Record(ListedOn[s], Unknown, "listed")
<1>2. life'[s] = life[s] \/ life'[s] = Upsert(life[s], new)
  BY <1>1 DEF ListSymbol
<1>3. IsMark(s, new) /\ new.delisted = Unknown
  BY ListedMark
<1> HIDE DEF new
<1> QED BY <1>2, <1>3, UpsertMarked DEF LifeIsKnown

LEMMA RefreshMarks ==
  ASSUME DataInv, LifeIsKnown, NEW listed \in SUBSET Symbols, NEW full, NEW dated, NEW fails,
         Refresh(listed, full, dated, fails)
  PROVE  /\ LifeIsKnown' /\ sync'.pc = "upsert"
         /\ sync'.pool = {} /\ sync'.complete = {} /\ sync'.done = {}
<1> DEFINE priced == IF "symbols" \in fails THEN {} ELSE WithPrices
           recent == IF "recent" \in fails THEN {}
                     ELSE {s \in WithPrices : Priced(bars, s) \cap Recent # {}}
           last(s) == IF "last" \in fails THEN Unknown ELSE Max(Priced(bars, s))
           gone == Delistings(listed, full, priced, recent)
           marks == [s \in listed \cup gone |->
                       IF s \in listed
                       THEN Record(IF dated THEN ListedOn[s] ELSE Unknown, Unknown, "listed")
                       ELSE Record(Unknown, last(s), "delisted")]
<1>1. life' = life /\ sync' = [IdleSync EXCEPT !.pc = "upsert", !.marks = marks]
  BY DEF Refresh
<1>2. gone \subseteq WithPrices
  BY DEF Delistings
<1>3. ASSUME NEW s \in listed \cup gone PROVE s \in Symbols /\ IsMark(s, marks[s])
  <2>1. s \in Symbols
    BY <1>2 DEF WithPrices
  <2>2. CASE s \in listed
    BY <2>1, <2>2, ListedMark
  <2>3. CASE s \notin listed
    <3>1. Priced(bars, s) # {} /\ Priced(bars, s) \in SUBSET Days
      BY <1>2, <2>3 DEF WithPrices, Priced, Rows
    <3>2. last(s) \in Days \cup {Unknown}
      BY <3>1, GreatestDay
    <3>3. marks[s] = Record(Unknown, last(s), "delisted")
      BY <2>3
    <3> HIDE DEF marks, last
    <3> QED BY <2>1, <3>2, <3>3, RecordIs DEF IsMark
  <2> QED BY <2>1, <2>2, <2>3
<1>4. DOMAIN marks = listed \cup gone
  OBVIOUS
<1> HIDE DEF marks, gone
<1>5. /\ sync'.pc = "upsert" /\ sync'.marks = marks
      /\ sync'.pool = {} /\ sync'.complete = {} /\ sync'.done = {}
  BY <1>1 DEF IdleSync
<1>6. LifeIsKnown'
  BY <1>1, <1>3, <1>4, <1>5 DEF LifeIsKnown, IsMark
<1> QED BY <1>5, <1>6

LEMMA LifeStep ==
  ASSUME DataInv, LifeIsKnown, [Next]_vars
  PROVE  LifeIsKnown'
<1>1. CASE UNCHANGED <<life, sync>>
  BY <1>1 DEF LifeIsKnown, IsMark
<1>2. CASE ListSymbol
  <2>1. sync' = sync
    BY <1>2 DEF ListSymbol
  <2> QED BY <1>2, <2>1, ListSymbolNarrows DEF LifeIsKnown, IsMark
<1>3. CASE \E listed \in Lists \ {{}}, full \in BOOLEAN, dated \in BOOLEAN,
              fails \in SUBSET {"symbols", "recent", "last"} : Refresh(listed, full, dated, fails)
  BY <1>3, RefreshMarks
<1>4. CASE \E fails \in BOOLEAN : UpsertMarks(fails)
  <2>1. PICK fails \in BOOLEAN : UpsertMarks(fails)
    BY <1>4
  <2>2. /\ sync.pc = "upsert" /\ IsSync(sync) /\ sync' = [sync EXCEPT !.pc = "pool", !.marks = <<>>]
    BY <2>1 DEF UpsertMarks, DataInv
  <2>3. sync'.pc = "pool"
    BY <2>2 DEF IsSync
  <2>4. ASSUME NEW s \in Symbols PROVE life'[s] = Unknown \/ IsMark(s, life'[s])
    <3>1. life[s] = Unknown \/ IsMark(s, life[s])
      BY DEF LifeIsKnown
    <3>2. \/ life'[s] = life[s]
          \/ s \in DOMAIN sync.marks /\ life'[s] = Upsert(life[s], sync.marks[s])
      BY <2>1 DEF UpsertMarks
    <3>3. s \in DOMAIN sync.marks => IsMark(s, sync.marks[s])
      BY <2>2 DEF LifeIsKnown
    <3> QED BY <3>1, <3>2, <3>3, UpsertMarked
  <2> QED BY <2>3, <2>4 DEF LifeIsKnown, IsMark
<1>5. ASSUME NEW readable \in BOOLEAN, Pool(readable) \/ Snapshot(readable)
      PROVE  LifeIsKnown'
  <2>1. life' = life /\ sync'.pc # "upsert"
    BY <1>5 DEF Pool, Snapshot, DataInv, IsSync
  <2> QED BY <2>1 DEF LifeIsKnown, IsMark
<1>6. ASSUME \/ PoolOfSource \/ (\E s \in Symbols : TakeSymbol(s))
             \/ FlushSymbol \/ SyncFails \/ EndSync
      PROVE  LifeIsKnown'
  <2>1. life' = life
    BY <1>6 DEF PoolOfSource, TakeSymbol, FlushSymbol, SyncFails, EndSync
  <2>2. CASE PoolOfSource
    <3>1. CASE sync' = IdleSync
      BY <2>1, <3>1, IdleIs DEF LifeIsKnown, IsMark
    <3>2. CASE sync' # IdleSync
      <4>1. PICK pool : sync' = [sync EXCEPT !.pc = "snapshot", !.pool = pool]
        BY <2>2, <3>2 DEF PoolOfSource
      <4>2. sync'.pc = "snapshot"
        BY <4>1 DEF DataInv, IsSync
      <4> QED BY <2>1, <4>2 DEF LifeIsKnown, IsMark
    <3> QED BY <3>1, <3>2
  <2>3. CASE \E s \in Symbols : TakeSymbol(s)
    <3>1. sync'.pc \in {"next", "flush"}
      BY <2>3, TakeSymbolMoves
    <3> QED BY <2>1, <3>1 DEF LifeIsKnown, IsMark
  <2>4. CASE FlushSymbol
    <3>1. PICK done, symbol : sync' = [sync EXCEPT !.pc = "next", !.done = done,
                                                   !.symbol = symbol, !.frame = Empty]
      BY <2>4 DEF FlushSymbol
    <3>2. sync'.pc = "next"
      BY <3>1 DEF DataInv, IsSync
    <3> QED BY <2>1, <3>2 DEF LifeIsKnown, IsMark
  <2>5. CASE SyncFails \/ EndSync
    BY <2>1, <2>5, IdleIs DEF SyncFails, EndSync, LifeIsKnown, IsMark
  <2> QED BY <1>6, <2>2, <2>3, <2>4, <2>5
<1>7. CASE Adjust \/ FlowOps \/ UNCHANGED vars
  <2>1. UNCHANGED <<life, sync>>
    BY <1>7 DEF Adjust, vars, FlowOps, StartFlow, ReadFlow, FetchFlow, RetryFlow, CrawlFails,
         MergeFlow, WriteFlowCache, WriteFlow, FlowFails
  <2> QED BY <1>1, <2>1
<1>8. CASE FetchOps
  <2>1. ListSymbol \/ UNCHANGED <<life, sync>>
    BY <1>8 DEF FetchOps, FetchBars, WriteBarsCache, WriteBars, BarsFail
  <2> QED BY <1>1, <1>2, <2>1
<1>9. CASE SyncOps
  BY <1>3, <1>4, <1>5, <1>6, <1>9 DEF SyncOps
<1> QED BY <1>7, <1>8, <1>9 DEF Next

-------------------------------------------------------------------------------
(* What the sync is through with.                                            *)

\* A step that takes no row away and asks for no more days than before.
LEMMA FilledStays ==
  ASSUME NEW s \in Symbols, IsFilled(s), Rows(bars, s) \subseteq Rows(bars', s),
         sync'.unserved[s] = sync.unserved[s],
         Required(1, LastDay, life'[s]) \subseteq Required(1, LastDay, life[s])
  PROVE  IsFilled(s)'
<1>1. IsFilled(s)' <=> Required(1, LastDay, life'[s]) \subseteq Rows(bars', s) \cup sync'.unserved[s]
  BY DEF IsFilled, Rows
<1> QED BY <1>1 DEF IsFilled

\* A symbol is filled when all the days its fetch returned are stored.
LEMMA ServedIsFilled ==
  ASSUME NEW s \in Symbols, Days \subseteq Rows(bars', s) \cup sync'.unserved[s]
  PROVE  IsFilled(s)'
<1>1. IsFilled(s)' <=> Required(1, LastDay, life'[s]) \subseteq Rows(bars', s) \cup sync'.unserved[s]
  BY DEF IsFilled, Rows
<1>2. Required(1, LastDay, life'[s]) \subseteq Days
  BY DEF Required, Days
<1> QED BY <1>1, <1>2

LEMMA FillingStays ==
  ASSUME SyncIsFilling, sync' = sync,
         \A s \in Symbols : Rows(bars, s) \subseteq Rows(bars', s),
         \A s \in sync.complete \cup sync.done :
             Required(1, LastDay, life'[s]) \subseteq Required(1, LastDay, life[s])
  PROVE  SyncIsFilling'
<1>1. \A s \in sync.complete \cup sync.done : s \in Symbols /\ IsFilled(s)'
  <2>1. sync.complete \cup sync.done \subseteq Symbols
    BY DEF SyncIsFilling
  <2> QED BY <2>1, FilledStays DEF SyncIsFilling
<1> QED BY <1>1 DEF SyncIsFilling, Rows

LEMMA NoSyncFills ==
  ASSUME sync'.pc \in {"idle", "upsert", "pool", "snapshot"}, sync'.pool \subseteq Symbols,
         sync'.complete = {}, sync'.done = {}
  PROVE  SyncIsFilling'
  BY DEF SyncIsFilling

LEMMA FillStep ==
  ASSUME DataInv, LifeIsKnown, SyncIsFilling, [Next]_vars
  PROVE  SyncIsFilling'
<1>1. /\ StoreTypes /\ IsSync(sync) /\ \A s \in Symbols : Rows(bars, s) \subseteq Rows(bars', s)
      /\ sync.pool \cup sync.complete \cup sync.done \subseteq Symbols
  BY RowsStay DEF DataInv, SyncIsFilling
<1>2. CASE UNCHANGED <<life, sync>>
  BY <1>1, <1>2, FillingStays
<1>3. CASE ListSymbol
  <2>1. sync' = sync
    BY <1>3 DEF ListSymbol
  <2> QED BY <1>1, <1>3, <2>1, ListSymbolNarrows, FillingStays
<1>4. CASE \E listed \in Lists \ {{}}, full \in BOOLEAN, dated \in BOOLEAN,
              fails \in SUBSET {"symbols", "recent", "last"} : Refresh(listed, full, dated, fails)
  <2>1. /\ sync'.pc = "upsert" /\ sync'.pool = {} /\ sync'.complete = {} /\ sync'.done = {}
    BY <1>4, RefreshMarks
  <2> QED BY <2>1, NoSyncFills
<1>5. CASE \E fails \in BOOLEAN : UpsertMarks(fails)
  <2>1. sync.pc = "upsert" /\ sync' = [sync EXCEPT !.pc = "pool", !.marks = <<>>]
    BY <1>5 DEF UpsertMarks
  <2>2. /\ sync'.pc = "pool" /\ sync'.pool = sync.pool /\ sync'.complete = sync.complete
        /\ sync'.done = sync.done
    BY <1>1, <2>1 DEF IsSync
  <2> QED BY <1>1, <2>1, <2>2, NoSyncFills DEF SyncIsFilling
<1>6. ASSUME (\E readable \in BOOLEAN : Pool(readable)) \/ PoolOfSource
      PROVE  SyncIsFilling'
  <2>1. CASE sync' = IdleSync
    <3>1. sync'.pc = "idle" /\ sync'.pool = {} /\ sync'.complete = {} /\ sync'.done = {}
      BY <2>1 DEF IdleSync
    <3> QED BY <3>1, NoSyncFills
  <2>2. CASE sync' # IdleSync
    <3>1. PICK pool \in SUBSET Symbols :
            sync.pc = "pool" /\ sync' = [sync EXCEPT !.pc = "snapshot", !.pool = pool]
      <4>1. CASE \E readable \in BOOLEAN : Pool(readable)
        <5>1. PICK readable \in BOOLEAN : Pool(readable)
          BY <4>1
        <5> DEFINE pool == {s \in WithPrices : ~readable \/ ~IsDelisted(life[s])}
        <5>2. pool \subseteq Symbols
          BY DEF WithPrices
        <5>3. sync.pc = "pool" /\ sync' = [sync EXCEPT !.pc = "snapshot", !.pool = pool]
          BY <5>1 DEF Pool
        <5> HIDE DEF pool
        <5> QED BY <5>2, <5>3
      <4>2. CASE PoolOfSource
        BY <2>2, <4>2 DEF PoolOfSource
      <4> QED BY <1>6, <4>1, <4>2
    <3>2. /\ sync'.pc = "snapshot" /\ sync'.pool = pool /\ sync'.complete = sync.complete
          /\ sync'.done = sync.done
      BY <1>1, <3>1 DEF IsSync
    <3> QED BY <3>1, <3>2, NoSyncFills DEF SyncIsFilling
  <2> QED BY <2>1, <2>2
<1>7. ASSUME NEW readable \in BOOLEAN, Snapshot(readable) PROVE SyncIsFilling'
  <2> DEFINE complete == {s \in WithPrices \cap sync.pool :
                Required(1, LastDay, IF readable THEN life[s] ELSE Unknown) \subseteq Priced(bars, s)}
  <2>1. /\ sync.pc = "snapshot" /\ sync' = [sync EXCEPT !.pc = "next", !.complete = complete]
        /\ bars' = bars /\ life' = life
    BY <1>7 DEF Snapshot, stores
  <2>2. ASSUME NEW s \in complete PROVE s \in sync.pool /\ IsFilled(s)
    <3>1. /\ s \in Symbols /\ s \in sync.pool /\ Priced(bars, s) \subseteq Rows(bars, s)
          /\ Required(1, LastDay, IF readable THEN life[s] ELSE Unknown) \subseteq Priced(bars, s)
      BY DEF WithPrices, Priced
    <3>2. Required(1, LastDay, life[s]) \subseteq Required(1, LastDay, Unknown)
      BY DEF Required, Listing, Delisting
    <3> QED BY <3>1, <3>2 DEF IsFilled
  <2> HIDE DEF complete
  <2>3. /\ sync'.pc = "next" /\ sync'.complete = complete /\ sync'.pool = sync.pool
        /\ sync'.done = sync.done /\ sync'.unserved = sync.unserved
    BY <1>1, <2>1 DEF IsSync
  <2>4. sync.done = {}
    BY <2>1 DEF SyncIsFilling
  <2>5. \A s \in complete : IsFilled(s)'
    BY <2>1, <2>2, <2>3 DEF IsFilled, Rows
  <2> QED BY <1>1, <2>2, <2>3, <2>4, <2>5 DEF SyncIsFilling
<1>8. ASSUME NEW s \in Symbols, TakeSymbol(s) PROVE SyncIsFilling'
  <2>1. /\ bars' = bars /\ life' = life /\ sync.pc = "next" /\ s \in sync.pool
        /\ sync'.pool = sync.pool \ {s} /\ sync'.complete = sync.complete \ {s}
        /\ \A t \in Symbols : t # s => sync'.unserved[t] = sync.unserved[t]
    BY <1>8, TakeSymbolMoves DEF TakeSymbol, stores
  <2>2. \A t \in sync'.complete \cup sync.done : t \in Symbols /\ IsFilled(t)'
    <3> SUFFICES ASSUME NEW t \in sync'.complete \cup sync.done
                 PROVE  t \in Symbols /\ IsFilled(t)'
      OBVIOUS
    <3>1. t \in Symbols /\ t # s /\ IsFilled(t)
      BY <1>1, <2>1 DEF SyncIsFilling
    <3> QED BY <1>1, <2>1, <3>1, FilledStays
  <2>3. /\ sync'.complete \subseteq sync'.pool /\ sync'.pool \subseteq Symbols
        /\ sync'.pool \cap (sync.done \cup {s}) = {} /\ sync.done \subseteq Symbols
    BY <1>1, <2>1 DEF SyncIsFilling
  <2>4. CASE /\ sync'.pc = "next" /\ sync'.done = sync.done \cup {s}
             /\ \/ s \in sync.complete /\ sync'.unserved[s] = sync.unserved[s]
                \/ sync'.unserved[s] = Days
    <3>1. CASE s \in sync.complete /\ sync'.unserved[s] = sync.unserved[s]
      <4>1. IsFilled(s)
        BY <3>1 DEF SyncIsFilling
      <4>2. IsFilled(s)'
        BY <1>1, <2>1, <3>1, <4>1, FilledStays
      <4> QED BY <2>2, <2>3, <2>4, <4>2 DEF SyncIsFilling
    <3>2. CASE sync'.unserved[s] = Days
      <4>1. IsFilled(s)'
        BY <3>2, ServedIsFilled
      <4> QED BY <2>2, <2>3, <2>4, <4>1 DEF SyncIsFilling
    <3> QED BY <2>4, <3>1, <3>2
  <2>5. CASE /\ sync'.pc = "flush" /\ sync'.symbol = s /\ sync'.done = sync.done
             /\ Rows(sync'.frame, s) = Days \ sync'.unserved[s]
    <3>1. /\ sync'.symbol \in Symbols \ sync'.pool
          /\ Days \ sync'.unserved[sync'.symbol] \subseteq Rows(sync'.frame, sync'.symbol)
      BY <2>1, <2>5
    <3> QED BY <2>2, <2>3, <2>5, <3>1 DEF SyncIsFilling, Rows
  <2> QED BY <1>8, <2>4, <2>5, TakeSymbolMoves
<1>9. CASE FlushSymbol
  <2>1. /\ sync.pc = "flush" /\ StoreRows(sync.frame) /\ sync.frame \in Frames /\ life' = life
        /\ sync' = [sync EXCEPT !.pc = "next", !.done = @ \cup {sync.symbol},
                                !.symbol = Unknown, !.frame = Empty]
    BY <1>1, <1>9 DEF FlushSymbol, Store, IsSync
  <2>2. /\ sync'.pc = "next" /\ sync'.pool = sync.pool /\ sync'.complete = sync.complete
        /\ sync'.done = sync.done \cup {sync.symbol} /\ sync'.unserved = sync.unserved
    BY <1>1, <2>1 DEF IsSync
  <2>3. PICK s \in Symbols \ sync.pool :
           s = sync.symbol /\ Days \ sync.unserved[s] \subseteq Rows(sync.frame, s)
    BY <2>1 DEF SyncIsFilling
  <2>4. IsFilled(s)'
    <3>1. Rows(bars', s) = Rows(sync.frame, s) \cup Rows(bars, s)
      BY <1>1, <2>1, RowsStored
    <3> QED BY <2>2, <2>3, <3>1, ServedIsFilled
  <2>5. \A t \in sync.complete \cup sync.done : IsFilled(t)'
    <3>1. \A t \in sync.complete \cup sync.done : t \in Symbols /\ IsFilled(t)
      BY <1>1 DEF SyncIsFilling
    <3> QED BY <1>1, <2>1, <2>2, <3>1, FilledStays
  <2> QED BY <1>1, <2>2, <2>3, <2>4, <2>5 DEF SyncIsFilling
<1>10. CASE SyncFails \/ EndSync
  <2>1. sync' = IdleSync
    BY <1>10 DEF SyncFails, EndSync
  <2>2. sync'.pc = "idle" /\ sync'.pool = {} /\ sync'.complete = {} /\ sync'.done = {}
    BY <2>1 DEF IdleSync
  <2> QED BY <2>2, NoSyncFills
<1>11. CASE Adjust \/ FlowOps \/ UNCHANGED vars
  <2>1. UNCHANGED <<life, sync>>
    BY <1>11 DEF Adjust, vars, FlowOps, StartFlow, ReadFlow, FetchFlow, RetryFlow,
         CrawlFails, MergeFlow, WriteFlowCache, WriteFlow, FlowFails
  <2> QED BY <1>2, <2>1
<1>12. CASE FetchOps
  <2>1. ListSymbol \/ UNCHANGED <<life, sync>>
    BY <1>12 DEF FetchOps, FetchBars, WriteBarsCache, WriteBars, BarsFail
  <2> QED BY <1>2, <1>3, <2>1
<1>13. CASE SyncOps
  BY <1>4, <1>5, <1>6, <1>7, <1>8, <1>9, <1>10, <1>13 DEF SyncOps
<1> QED BY <1>11, <1>12, <1>13 DEF Next

LEMMA TableInit == Init => TableInv
<1> SUFFICES ASSUME Init PROVE TableInv
  OBVIOUS
<1>1. PICK upto \in Starts :
        bars = [s \in Symbols |-> [d \in Days |->
                  IF d \in ListedOn[s]..upto[s] THEN Row(1) ELSE NoRow]]
  BY DEF Init
<1>2. Row(1) # NoRow /\ Row(1).price # 0
  BY RowOf
<1>3. WithPrices = Symbols
  <2>1. ASSUME NEW s \in Symbols PROVE ListedOn[s] \in Priced(bars, s)
    <3>1. ListedOn[s] \in Days /\ upto[s] \in Days /\ ListedOn[s] \in ListedOn[s]..upto[s]
      BY DEF Days
    <3>2. bars[s][ListedOn[s]] = Row(1)
      BY <1>1, <3>1
    <3> QED BY <1>2, <3>1, <3>2 DEF Priced, Rows
  <2> QED BY <2>1 DEF WithPrices
<1>4. sync = IdleSync /\ \A s \in Symbols : life[s] = Unknown
  BY DEF Init
<1>5. sync.pc = "idle" /\ sync.pool = {} /\ sync.complete = {} /\ sync.done = {}
  BY <1>4 DEF IdleSync
<1> QED BY <1>3, <1>4, <1>5 DEF TableInv, LifeIsKnown, SyncIsFilling

LEMMA TableStep ==
  ASSUME DataInv, TableInv, [Next]_vars
  PROVE  TableInv'
<1>1. WithPrices \subseteq WithPrices' /\ WithPrices' \subseteq Symbols
  BY RowsStay DEF WithPrices
<1> QED BY <1>1, LifeStep, FillStep DEF TableInv

\* Of a symbol that is filled the table misses no day but those its fetch did not return: it
\* cuts the range to the days the sync asked for.
LEMMA FilledIsWhole ==
  ASSUME DataInv, TableInv
  PROVE  SyncFillsTheTable
<1> SUFFICES ASSUME NEW s \in sync.done
             PROVE  MissingInTable(Rows(bars, s),
                        Max(UNION {Priced(bars, t) : t \in WithPrices}), life[s])
                      \subseteq sync.unserved[s]
  BY DEF SyncFillsTheTable
<1> DEFINE rows == Rows(bars, s)
           prices == UNION {Priced(bars, t) : t \in WithPrices}
           newest_ == Max(prices)
           starts == {Min(rows)} \cup ({Listing(life[s])} \ {Unknown})
           last == Max({newest_, Max(rows)})
           ends == {last} \cup ({Delisting(life[s])} \ {Unknown})
<1>1. s \in WithPrices /\ s \in Symbols /\ IsFilled(s)
  BY DEF TableInv, SyncIsFilling
<1>2. rows \in SUBSET Days /\ rows # {} /\ prices \in SUBSET Days /\ prices # {}
  BY <1>1 DEF WithPrices, Priced, Rows
<1>3. life[s] = Unknown \/ IsMark(s, life[s])
  BY <1>1 DEF TableInv, LifeIsKnown
<1>4. /\ Listing(life[s]) \in {Unknown, ListedOn[s]}
      /\ Delisting(life[s]) \in Days \cup {Unknown}
      /\ ListedOn[s] \in Days
  BY <1>1, <1>3 DEF Listing, Delisting, IsMark, LifecycleRecord
<1> HIDE DEF rows, prices
<1>5. Min(rows) \in Days /\ Max(rows) \in Days /\ newest_ \in Days
  BY <1>2, LeastDay, GreatestDay
<1> HIDE DEF newest_
<1>6. last \in Days
  <2>1. {newest_, Max(rows)} \in SUBSET Days /\ {newest_, Max(rows)} # {}
    BY <1>5
  <2> QED BY <2>1, GreatestDay
<1> HIDE DEF last
<1>7. /\ Max(starts) \in Days
      /\ Listing(life[s]) # Unknown => Listing(life[s]) <= Max(starts)
  <2>1. starts \in SUBSET Days /\ starts # {}
    BY <1>4, <1>5
  <2> HIDE DEF starts
  <2>2. Max(starts) \in starts /\ \A d \in starts : d <= Max(starts)
    BY <2>1, GreatestDay
  <2>3. Max(starts) \in Days
    BY <2>1, <2>2
  <2> QED BY <2>2, <2>3 DEF starts
<1>8. /\ Min(ends) \in Days
      /\ Delisting(life[s]) # Unknown => Min(ends) <= Delisting(life[s])
  <2>1. ends \in SUBSET Days /\ ends # {}
    BY <1>4, <1>6
  <2> HIDE DEF ends
  <2>2. Min(ends) \in ends /\ \A d \in ends : Min(ends) <= d
    BY <2>1, LeastDay
  <2>3. Min(ends) \in Days
    BY <2>1, <2>2
  <2> QED BY <2>2, <2>3 DEF ends
<1>9. ASSUME NEW d \in Max(starts)..Min(ends) PROVE d \in Required(1, LastDay, life[s])
  <2> DEFINE from == Max(starts)
             to == Min(ends)
  <2>1. /\ from \in Days /\ to \in Days /\ d \in from..to
        /\ Listing(life[s]) # Unknown => Listing(life[s]) <= from
        /\ Delisting(life[s]) # Unknown => to <= Delisting(life[s])
    BY <1>7, <1>8
  <2> HIDE DEF from, to
  <2>2. /\ d \in Days
        /\ Listing(life[s]) # Unknown => Listing(life[s]) <= d
        /\ Delisting(life[s]) # Unknown => d <= Delisting(life[s])
    BY <1>4, <2>1 DEF Days
  <2> QED BY <2>2 DEF Required, Days
<1>10. MissingInTable(rows, newest_, life[s]) = (Max(starts)..Min(ends)) \ rows
  BY DEF MissingInTable, last
<1>11. Required(1, LastDay, life[s]) \subseteq rows \cup sync.unserved[s]
  BY <1>1 DEF IsFilled, rows
<1>12. MissingInTable(rows, newest_, life[s]) \subseteq sync.unserved[s]
  BY <1>9, <1>10, <1>11
<1> QED BY <1>12 DEF rows, newest_, prices

\* When a sync is through with a symbol, the coverage table misses no day of it but those
\* its fetch did not return, with whatever capital-flow and daily-bars fetches came in
\* between and whatever reads and writes failed: the table cuts the range to the days the
\* sync asked for (build_daily_bars_coverage, _lifecycle_clipped_required_dates).
THEOREM TableIsFilled == Spec => []SyncFillsTheTable
<1>1. Init => DataInv /\ TableInv
  BY InitInv, TableInit
<1>2. DataInv /\ TableInv /\ [Next]_vars => (DataInv /\ TableInv)'
  BY StepKeeps, TableStep
<1>3. DataInv /\ TableInv => SyncFillsTheTable
  BY FilledIsWhole
<1> QED BY <1>1, <1>2, <1>3, PTL DEF Spec

===============================================================================
