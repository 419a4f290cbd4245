-------------------------- MODULE BulkDownloadsProofs --------------------------
(***************************************************************************)
(* Proofs about the jobs and the scripts that fill the warehouse, for any  *)
(* number of symbols and any sizes of batches.                             *)
(***************************************************************************)
EXTENDS BulkDownloads, FiniteSetTheorems, TLAPS

\* How many symbols the batches begun so far hold.
Begun == IF next - 1 <= Symbols THEN next - 1 ELSE Symbols

\* A job whose range has no trading day is complete from the start.
NothingToDo ==
    /\ pc = "end" /\ job.status = "completed" /\ next = 1
    /\ job.processed = Symbols /\ job.failed = 0
    /\ job.completed = 0 /\ job.skipped = Symbols /\ job.imported = 0

\* The status and the flag go together until the thread ends.
StatusIsKept(late) ==
    /\ pc # "end" =>
          \/ job.status = "running" /\ ~cancelled
          \/ job.status = "cancelling" /\ cancelled
          \/ job.status = "cancelled" /\ cancelled /\ late
    /\ pc = "end" => job.status \in Terminal

\* The copy that is stored at the end agrees with the job but for the status.
CopyIsCurrent ==
    pc = "storefinal" =>
        /\ final.processed = job.processed /\ final.completed = job.completed
        /\ final.failed = job.failed /\ final.skipped = job.skipped
        /\ final.imported = job.imported
        /\ final.status = IF job.failed > 0 THEN "completed_with_errors" ELSE "completed"

SuccessIsWhole ==
    job.status \in Succeeded =>
        /\ job.processed = Symbols
        /\ job.status = IF job.failed > 0 THEN "completed_with_errors" ELSE "completed"

-------------------------------------------------------------------------------
(* The full-market job.                                                     *)

InBatch == pc \in {"take", "settle", "keep"}
Ending == pc \in {"getfinal", "storefinal"} \/ (pc \in {"flush", "count"} /\ back = "getfinal")
RowsWaiting == pc \in {"flush", "count", "except"} /\ back = "end"

LateIsCancelled == pc \in {"flush", "count"} /\ back = "end" => job.status = "cancelled"

MarketCounts ==
    /\ NothingToDo \/ job.processed + Cardinality(futures) = Begun
    /\ pc \notin {"take", "settle"} => futures = {}
    /\ job.processed =
         job.completed + job.failed + job.skipped + (IF pc = "settle" THEN 1 ELSE 0)
    /\ Ending => next > Symbols

\* The symbols of earlier batches, of this one, and of its results to come.
MarketSymbols ==
    /\ InBatch => next - BatchSize \in 1..Symbols
    /\ futures \subseteq 1..(next - 1) /\ fetched \subseteq 1..(next - 1)
    /\ futures \cap fetched = {}
    /\ pc = "settle" => symbol \in 1..(next - 1) /\ symbol \notin futures \cup fetched

\* Every fetched symbol is stored, pending or in the batch, in one of them only.
MarketRows ==
    /\ pc # "except" /\ job.status # "failed" =>
          fetched = stored \cup pending \cup (IF InBatch THEN frames ELSE {})
    /\ stored \cap pending = {}
    /\ InBatch => pending = {} /\ frames \cap stored = {}
    /\ pc \in {"check", "batch"} /\ pending # {} => next > Symbols
    /\ pc \in {"snapshot", "count", "getfinal", "storefinal", "except", "end"} => pending = {}
    /\ job.imported + (IF pc = "count" THEN Cardinality(frames) ELSE 0) <= Cardinality(stored)
    /\ pc # "except" /\ job.status # "failed" =>
          job.imported + (IF pc = "count" THEN Cardinality(frames) ELSE 0) = Cardinality(stored)

MarketInv ==
    /\ F!TypeOK /\ StatusIsKept(RowsWaiting) /\ LateIsCancelled
    /\ CopyIsCurrent /\ SuccessIsWhole
    /\ MarketCounts /\ MarketSymbols /\ MarketRows

-------------------------------------------------------------------------------
(* The capital-flow job.                                                    *)

FlowBegun == IF pc = "fetch" THEN next - BatchSize - 1 ELSE Begun

FlowCounts ==
    /\ pc = "fetch" => next - BatchSize \in 1..Symbols
    /\ pc = "storefinal" => next > Symbols
    /\ ~NothingToDo =>
          /\ job.processed = FlowBegun /\ filled \subseteq 1..FlowBegun
          /\ job.processed = job.completed + job.failed
          /\ job.completed = Cardinality(filled)
          /\ job.skipped <= job.completed

FlowInv == C!TypeOK /\ StatusIsKept(FALSE) /\ CopyIsCurrent /\ SuccessIsWhole /\ FlowCounts

\* Of the job that runs.
JobInv ==
    \/ mode = "full_market_bootstrap" /\ MarketInv
    \/ mode = "capital_flow_backfill" /\ FlowInv

USE SyncJobAssumption

-------------------------------------------------------------------------------
(* Types.                                                                   *)

LEMMA ChunkSize ==
    ASSUME NEW i \in 1..Symbols
    PROVE  LET last == IF i + BatchSize - 1 <= Symbols THEN i + BatchSize - 1 ELSE Symbols IN
           /\ Chunk(i) = i..last
           /\ IsFiniteSet(Chunk(i)) /\ Cardinality(Chunk(i)) = last - i + 1
           /\ Chunk(i) \subseteq 1..Symbols
<1> DEFINE last == IF i + BatchSize - 1 <= Symbols THEN i + BatchSize - 1 ELSE Symbols
<1>1. last \in Int /\ last >= i /\ i \in Int /\ Chunk(i) = i..last
  BY DEF Chunk
<1> HIDE DEF last
<1>2. IsFiniteSet(i..last) /\ Cardinality(i..last) = last - i + 1
  BY <1>1, FS_Interval
<1>3. Chunk(i) \subseteq 1..Symbols
  BY DEF Chunk
<1> QED BY <1>1, <1>2, <1>3 DEF last

\* The instances share the definitions of SyncJob.
LEMMA SameJob ==
    /\ \A i : F!Chunk(i) = Chunk(i) /\ C!Chunk(i) = Chunk(i)
    /\ F!JobTypeOK <=> JobTypeOK
    /\ C!JobTypeOK <=> JobTypeOK
    /\ F!JobRecord = JobRecord /\ C!JobRecord = JobRecord
  BY DEF F!Chunk, C!Chunk, Chunk, F!JobTypeOK, C!JobTypeOK, JobTypeOK, F!JobRecord,
         C!JobRecord, JobRecord, F!Statuses, C!Statuses, Statuses

LEMMA SameCardinality ==
    /\ \A S : F!Cardinality(S) = Cardinality(S)
    /\ \A S : C!Cardinality(S) = Cardinality(S)
    /\ \A S : Import!Cardinality(S) = Cardinality(S)
  BY DEF F!Cardinality, C!Cardinality, Import!Cardinality, Cardinality

LEMMA FiniteParts ==
    ASSUME NEW S \in SUBSET (1..Symbols)
    PROVE  IsFiniteSet(S) /\ Cardinality(S) \in Nat /\ Cardinality(S) <= Symbols
<1>1. IsFiniteSet(1..Symbols) /\ Cardinality(1..Symbols) = Symbols
  BY FS_Interval
<1> QED BY <1>1, FS_Subset, FS_CardinalityType

LEMMA DisjointUnion ==
    ASSUME NEW S \in SUBSET (1..Symbols), NEW T \in SUBSET (1..Symbols), S \cap T = {}
    PROVE  Cardinality(S \cup T) = Cardinality(S) + Cardinality(T)
<1>1. IsFiniteSet(S) /\ IsFiniteSet(T) /\ Cardinality(S) \in Nat /\ Cardinality(T) \in Nat
  BY FiniteParts
<1>2. Cardinality(S \cap T) = 0
  BY FS_EmptySet
<1>3. Cardinality(S \cup T) = Cardinality(S) + Cardinality(T) - Cardinality(S \cap T)
  BY <1>1, FS_Union
<1> QED BY <1>1, <1>2, <1>3

\* What every conjunct of the invariant needs.
MarketTypes ==
    /\ job \in JobRecord /\ cancelled \in BOOLEAN /\ next \in 1..(Symbols + BatchSize)
    /\ pc \in F!Labels
    /\ futures \subseteq 1..Symbols /\ symbol \in 0..Symbols /\ complete \subseteq 1..Symbols
    /\ batchFailed \in BOOLEAN /\ frames \subseteq 1..Symbols /\ pending \subseteq 1..Symbols
    /\ back \in {"check", "end", "getfinal"} /\ final \in JobRecord
    /\ fetched \subseteq 1..Symbols /\ stored \subseteq 1..Symbols

LEMMA MarketTyped == F!TypeOK <=> MarketTypes
  BY SameJob DEF F!TypeOK, MarketTypes, JobTypeOK

-------------------------------------------------------------------------------
(* The full-market job keeps its invariant.                                 *)

LEMMA MarketType == MarketInv /\ F!Next => MarketTypes'
<1> SUFFICES ASSUME MarketInv, F!Next PROVE MarketTypes'
  OBVIOUS
<1>0. MarketTypes /\ (InBatch => next - BatchSize \in 1..Symbols)
      /\ (pc = "settle" => symbol \in 1..(next - 1))
  BY MarketTyped DEF MarketInv, MarketSymbols
<1>a. \A S \in SUBSET (1..Symbols) : Cardinality(S) \in Nat
  BY FiniteParts
<1>b. \A i : F!Chunk(i) \subseteq 1..Symbols
  BY DEF F!Chunk
<1> USE DEF F!jobVars, F!fmVars
<1>1. CASE F!Cancel
  BY <1>0, <1>a, <1>b, <1>1 DEF F!Cancel, F!CancelJob, MarketTypes, JobRecord, Statuses, F!Labels
<1>2. CASE F!Snapshot
  BY <1>0, <1>a, <1>b, <1>2 DEF F!Snapshot, MarketTypes, JobRecord, Statuses, F!Labels
<1>3. CASE F!StartBatch
  <2>1. next' \in 1..(Symbols + BatchSize)
    BY <1>0, <1>3 DEF F!StartBatch, MarketTypes
  <2>2. futures' \subseteq 1..Symbols
    BY <1>b, <1>3 DEF F!StartBatch
  <2> QED BY <1>0, <2>1, <2>2, <1>3 DEF F!StartBatch, MarketTypes, F!Labels
<1>4. CASE F!CancelAtTop
  BY <1>0, <1>a, <1>b, <1>4 DEF F!CancelAtTop, F!FinishCancelled, MarketTypes, JobRecord, Statuses, F!Labels
<1>5. CASE F!Take
  BY <1>0, <1>a, <1>b, <1>5 DEF F!Take, MarketTypes, JobRecord, Statuses, F!Labels
<1>6. CASE F!Settle
  <2>1. job' \in JobRecord
    BY <1>0, <1>6 DEF F!Settle, MarketTypes, JobRecord
  <2>2. frames' \subseteq 1..Symbols /\ fetched' \subseteq 1..Symbols /\ batchFailed' \in BOOLEAN
    <3>1. symbol \in 1..Symbols
      BY <1>0, <1>6 DEF F!Settle, MarketTypes
    <3> QED BY <1>0, <3>1, <1>6 DEF F!Settle, MarketTypes
  <2> QED BY <1>0, <2>1, <2>2, <1>6 DEF F!Settle, MarketTypes, F!Labels
<1>7. CASE F!Keep
  BY <1>0, <1>a, <1>b, <1>7 DEF F!Keep, MarketTypes, JobRecord, Statuses, F!Labels
<1>8. CASE F!FlushWrite
  BY <1>0, <1>a, <1>b, <1>8, ZenonT(40) DEF F!FlushWrite, MarketTypes, JobRecord, Statuses, F!Labels
<1>9. CASE F!FlushCount
  <2>1. Cardinality(frames) \in Nat
    BY <1>0, <1>a DEF MarketTypes
  <2> DEFINE n == Cardinality(frames)
  <2>2. job' = [job EXCEPT !.imported = job.imported + n]
    BY <1>9, SameCardinality DEF F!FlushCount
  <2> HIDE DEF n
  <2>3. job' \in JobRecord
    <3>1. n \in Nat
      BY <2>1 DEF n
    <3> QED BY <1>0, <3>1, <2>2 DEF MarketTypes, JobRecord
  <2> QED BY <1>0, <2>3, <1>9 DEF F!FlushCount, MarketTypes, F!Labels
<1>10. CASE F!CancelAtBottom
  BY <1>0, <1>a, <1>b, <1>10 DEF F!CancelAtBottom, F!FinishCancelled, MarketTypes, JobRecord, Statuses, F!Labels
<1>11. CASE F!NoCancelAtBottom
  BY <1>0, <1>a, <1>b, <1>11 DEF F!NoCancelAtBottom, MarketTypes, JobRecord, Statuses, F!Labels
<1>12. CASE F!WrapUp
  BY <1>0, <1>a, <1>b, <1>12 DEF F!WrapUp, MarketTypes, JobRecord, Statuses, F!Labels
<1>13. CASE F!GetFinal
  BY <1>0, <1>a, <1>b, <1>13 DEF F!GetFinal, F!FinalCopy, MarketTypes, JobRecord, Statuses, F!Labels
<1>14. CASE F!PutFinal
  BY <1>0, <1>a, <1>b, <1>14 DEF F!PutFinal, F!StoreFinal, MarketTypes, JobRecord, Statuses, F!Labels
<1>15. CASE F!Except
  BY <1>0, <1>a, <1>b, <1>15 DEF F!Except, F!FailJob, MarketTypes, JobRecord, Statuses, F!Labels
<1> QED BY <1>1, <1>2, <1>3, <1>4, <1>5, <1>6, <1>7, <1>8, <1>9, <1>10, <1>11, <1>12, <1>13, <1>14, <1>15 DEF F!Next, F!Worker

LEMMA MarketStatus ==
    MarketInv /\ F!Next =>
        StatusIsKept(RowsWaiting)' /\ LateIsCancelled' /\ CopyIsCurrent' /\ SuccessIsWhole'
<1> SUFFICES ASSUME MarketInv, F!Next
             PROVE  StatusIsKept(RowsWaiting)' /\ LateIsCancelled' /\ CopyIsCurrent' /\ SuccessIsWhole'
  OBVIOUS
<1>0. MarketTypes /\ StatusIsKept(RowsWaiting) /\ LateIsCancelled /\ CopyIsCurrent /\ SuccessIsWhole
  BY MarketTyped DEF MarketInv
<1>a. pc = "storefinal" => job.processed = Symbols
  <2>1. pc = "storefinal" => next > Symbols /\ futures = {} /\ ~NothingToDo
    BY DEF MarketInv, MarketCounts, Ending, NothingToDo
  <2>2. next > Symbols => Begun = Symbols
    BY <1>0 DEF Begun, MarketTypes
  <2>3. Cardinality({}) = 0
    BY FS_EmptySet
  <2>4. job.processed \in Nat
    BY <1>0 DEF MarketTypes, JobRecord
  <2> QED BY <2>1, <2>2, <2>3, <2>4 DEF MarketInv, MarketCounts
<1> USE DEF F!jobVars, F!fmVars
<1>1. CASE F!Cancel
  BY <1>0, <1>1 DEF F!Cancel, F!CancelJob, MarketTypes, JobRecord, Statuses, Terminal, Succeeded, StatusIsKept, RowsWaiting, LateIsCancelled, CopyIsCurrent, SuccessIsWhole
<1>2. CASE F!Snapshot
  BY <1>0, <1>2 DEF F!Snapshot, MarketTypes, JobRecord, Statuses, Terminal, Succeeded, StatusIsKept, RowsWaiting, LateIsCancelled, CopyIsCurrent, SuccessIsWhole
<1>3. CASE F!StartBatch
  BY <1>0, <1>3 DEF F!StartBatch, MarketTypes, JobRecord, Statuses, Terminal, Succeeded, StatusIsKept, RowsWaiting, LateIsCancelled, CopyIsCurrent, SuccessIsWhole
<1>4. CASE F!CancelAtTop
  BY <1>0, <1>4 DEF F!CancelAtTop, F!FinishCancelled, MarketTypes, JobRecord, Statuses, Terminal, Succeeded, StatusIsKept, RowsWaiting, LateIsCancelled, CopyIsCurrent, SuccessIsWhole
<1>5. CASE F!Take
  BY <1>0, <1>5 DEF F!Take, MarketTypes, JobRecord, Statuses, Terminal, Succeeded, StatusIsKept, RowsWaiting, LateIsCancelled, CopyIsCurrent, SuccessIsWhole
<1>6. CASE F!Settle
  BY <1>0, <1>6 DEF F!Settle, MarketTypes, JobRecord, Statuses, Terminal, Succeeded, StatusIsKept, RowsWaiting, LateIsCancelled, CopyIsCurrent, SuccessIsWhole
<1>7. CASE F!Keep
  BY <1>0, <1>7 DEF F!Keep, MarketTypes, JobRecord, Statuses, Terminal, Succeeded, StatusIsKept, RowsWaiting, LateIsCancelled, CopyIsCurrent, SuccessIsWhole
<1>8. CASE F!FlushWrite
  BY <1>0, <1>8 DEF F!FlushWrite, MarketTypes, JobRecord, Statuses, Terminal, Succeeded, StatusIsKept, RowsWaiting, LateIsCancelled, CopyIsCurrent, SuccessIsWhole
<1>9. CASE F!FlushCount
  <2>1. /\ job'.status = job.status /\ job'.processed = job.processed /\ job'.failed = job.failed
        /\ cancelled' = cancelled /\ back' = back /\ pc = "count" /\ pc' = back
    BY <1>0, <1>9 DEF F!FlushCount, MarketTypes, JobRecord
  <2> QED BY <1>0, <2>1, <1>9 DEF F!FlushCount, MarketTypes, Terminal, Statuses, StatusIsKept, RowsWaiting, LateIsCancelled, CopyIsCurrent, SuccessIsWhole, Succeeded
<1>10. CASE F!CancelAtBottom
  BY <1>0, <1>10 DEF F!CancelAtBottom, F!FinishCancelled, MarketTypes, JobRecord, Statuses, Terminal, Succeeded, StatusIsKept, RowsWaiting, LateIsCancelled, CopyIsCurrent, SuccessIsWhole
<1>11. CASE F!NoCancelAtBottom
  BY <1>0, <1>11 DEF F!NoCancelAtBottom, MarketTypes, JobRecord, Statuses, Terminal, Succeeded, StatusIsKept, RowsWaiting, LateIsCancelled, CopyIsCurrent, SuccessIsWhole
<1>12. CASE F!WrapUp
  BY <1>0, <1>12 DEF F!WrapUp, MarketTypes, JobRecord, Statuses, Terminal, Succeeded, StatusIsKept, RowsWaiting, LateIsCancelled, CopyIsCurrent, SuccessIsWhole
<1>13. CASE F!GetFinal
  BY <1>0, <1>13 DEF F!GetFinal, F!FinalCopy, MarketTypes, JobRecord, Statuses, Terminal, Succeeded, StatusIsKept, RowsWaiting, LateIsCancelled, CopyIsCurrent, SuccessIsWhole
<1>14. CASE F!PutFinal
  <2>1. job' = final /\ pc = "storefinal" /\ pc' = "end" /\ job.processed = Symbols
    BY <1>0, <1>a, <1>14 DEF F!PutFinal, F!StoreFinal, MarketTypes
  <2>2. /\ final.processed = job.processed /\ final.failed = job.failed
        /\ final.status = IF job.failed > 0 THEN "completed_with_errors" ELSE "completed"
    BY <1>0, <2>1 DEF CopyIsCurrent
  <2> QED BY <2>1, <2>2 DEF Terminal, Statuses, StatusIsKept, LateIsCancelled, CopyIsCurrent, SuccessIsWhole, Succeeded
<1>15. CASE F!Except
  BY <1>0, <1>15 DEF F!Except, F!FailJob, MarketTypes, JobRecord, Statuses, Terminal, Succeeded, StatusIsKept, RowsWaiting, LateIsCancelled, CopyIsCurrent, SuccessIsWhole
<1> QED BY <1>1, <1>2, <1>3, <1>4, <1>5, <1>6, <1>7, <1>8, <1>9, <1>10, <1>11, <1>12, <1>13, <1>14, <1>15 DEF F!Next, F!Worker

LEMMA MarketSymbolsStep == MarketInv /\ F!Next => MarketSymbols'
<1> SUFFICES ASSUME MarketInv, F!Next PROVE MarketSymbols'
  OBVIOUS
<1>0. MarketTypes /\ MarketSymbols /\ (pc \notin {"take", "settle"} => futures = {})
  BY MarketTyped DEF MarketInv, MarketCounts
<1> USE DEF F!jobVars, F!fmVars
<1>1. CASE F!Cancel
  BY <1>0, <1>1 DEF F!Cancel, F!CancelJob, MarketTypes, MarketSymbols, InBatch, F!Chunk
<1>2. CASE F!Snapshot
  BY <1>0, <1>2 DEF F!Snapshot, MarketTypes, MarketSymbols, InBatch, F!Chunk
<1>3. CASE F!StartBatch
  BY <1>0, <1>3 DEF F!StartBatch, MarketTypes, MarketSymbols, InBatch, F!Chunk
<1>4. CASE F!CancelAtTop
  BY <1>0, <1>4 DEF F!CancelAtTop, F!FinishCancelled, MarketTypes, MarketSymbols, InBatch, F!Chunk
<1>5. CASE F!Take
  BY <1>0, <1>5 DEF F!Take, MarketTypes, MarketSymbols, InBatch, F!Chunk
<1>6. CASE F!Settle
  BY <1>0, <1>6 DEF F!Settle, MarketTypes, MarketSymbols, InBatch, F!Chunk
<1>7. CASE F!Keep
  BY <1>0, <1>7 DEF F!Keep, MarketTypes, MarketSymbols, InBatch, F!Chunk
<1>8. CASE F!FlushWrite
  BY <1>0, <1>8 DEF F!FlushWrite, MarketTypes, MarketSymbols, InBatch, F!Chunk
<1>9. CASE F!FlushCount
  BY <1>0, <1>9 DEF F!FlushCount, MarketTypes, MarketSymbols, InBatch, F!Chunk
<1>10. CASE F!CancelAtBottom
  BY <1>0, <1>10 DEF F!CancelAtBottom, F!FinishCancelled, MarketTypes, MarketSymbols, InBatch, F!Chunk
<1>11. CASE F!NoCancelAtBottom
  BY <1>0, <1>11 DEF F!NoCancelAtBottom, MarketTypes, MarketSymbols, InBatch, F!Chunk
<1>12. CASE F!WrapUp
  BY <1>0, <1>12 DEF F!WrapUp, MarketTypes, MarketSymbols, InBatch, F!Chunk
<1>13. CASE F!GetFinal
  BY <1>0, <1>13 DEF F!GetFinal, F!FinalCopy, MarketTypes, MarketSymbols, InBatch, F!Chunk
<1>14. CASE F!PutFinal
  BY <1>0, <1>14 DEF F!PutFinal, F!StoreFinal, MarketTypes, MarketSymbols, InBatch, F!Chunk
<1>15. CASE F!Except
  BY <1>0, <1>15 DEF F!Except, F!FailJob, MarketTypes, MarketSymbols, InBatch, F!Chunk
<1> QED BY <1>1, <1>2, <1>3, <1>4, <1>5, <1>6, <1>7, <1>8, <1>9, <1>10, <1>11, <1>12, <1>13, <1>14, <1>15 DEF F!Next, F!Worker

LEMMA MarketCountsStep == MarketInv /\ F!Next => MarketCounts'
<1> SUFFICES ASSUME MarketInv, F!Next PROVE MarketCounts'
  OBVIOUS
<1>0. MarketTypes /\ MarketCounts /\ MarketSymbols /\ StatusIsKept(RowsWaiting)
  BY MarketTyped DEF MarketInv
<1>a. \A S \in SUBSET (1..Symbols) : Cardinality(S) \in Nat /\ IsFiniteSet(S)
  BY FiniteParts
<1>b. Cardinality({}) = 0
  BY FS_EmptySet
<1>c. /\ job.processed \in Nat /\ job.completed \in Nat /\ job.failed \in Nat
      /\ job.skipped \in Nat /\ Begun \in Nat
  BY <1>0 DEF MarketTypes, JobRecord, Begun
<1> USE DEF F!jobVars, F!fmVars
<1>1. CASE F!Cancel
  BY <1>0, <1>c, <1>1 DEF F!Cancel, F!CancelJob, MarketTypes, JobRecord, MarketCounts, NothingToDo, Ending, Begun, StatusIsKept, Terminal, Statuses
<1>2. CASE F!Snapshot
  BY <1>0, <1>c, <1>2 DEF F!Snapshot, MarketTypes, JobRecord, MarketCounts, NothingToDo, Ending, Begun, StatusIsKept, Terminal, Statuses
<1>3. CASE F!StartBatch
  <2>1. /\ pc = "batch" /\ next <= Symbols /\ next' = next + BatchSize /\ futures = {}
        /\ futures' = Chunk(next) /\ pc' = "take" /\ job' = job
    BY <1>0, <1>3, SameJob DEF F!StartBatch, MarketCounts
  <2>2. Cardinality(Chunk(next)) =
            (IF next + BatchSize - 1 <= Symbols THEN next + BatchSize - 1 ELSE Symbols) - next + 1
    BY <1>0, <2>1, ChunkSize DEF MarketTypes
  <2>3. job.processed = next - 1
    BY <1>0, <1>b, <1>c, <2>1 DEF MarketCounts, NothingToDo, Begun, MarketTypes
  <2>4. job'.processed + Cardinality(futures') = Begun'
    BY <1>0, <2>1, <2>2, <2>3 DEF Begun, MarketTypes
  <2> QED BY <1>0, <2>1, <2>4 DEF MarketCounts, Ending
<1>4. CASE F!CancelAtTop
  BY <1>0, <1>c, <1>4 DEF F!CancelAtTop, F!FinishCancelled, MarketTypes, JobRecord, MarketCounts, NothingToDo, Ending, Begun, StatusIsKept, Terminal, Statuses
<1>5. CASE F!Take
  <2>1. PICK s \in futures : symbol' = s /\ futures' = futures \ {s}
    BY <1>5 DEF F!Take
  <2>2. Cardinality(futures') = Cardinality(futures) - 1 /\ Cardinality(futures) \in Nat
    BY <1>0, <1>a, <2>1, FS_RemoveElement DEF MarketTypes
  <2>3. /\ job'.processed = job.processed + 1 /\ job'.completed = job.completed
        /\ job'.failed = job.failed /\ job'.skipped = job.skipped
        /\ pc = "take" /\ pc' = "settle" /\ next' = next
    BY <1>0, <1>5 DEF F!Take, MarketTypes, JobRecord
  <2> QED BY <1>0, <1>c, <2>2, <2>3 DEF MarketCounts, Ending, NothingToDo, Begun
<1>6. CASE F!Settle
  BY <1>0, <1>c, <1>6 DEF F!Settle, MarketTypes, JobRecord, MarketCounts, NothingToDo, Ending, Begun, StatusIsKept, Terminal, Statuses
<1>7. CASE F!Keep
  BY <1>0, <1>c, <1>7 DEF F!Keep, MarketTypes, JobRecord, MarketCounts, NothingToDo, Ending, Begun, StatusIsKept, Terminal, Statuses
<1>8. CASE F!FlushWrite
  BY <1>0, <1>c, <1>8 DEF F!FlushWrite, MarketTypes, JobRecord, MarketCounts, NothingToDo, Ending, Begun, StatusIsKept, Terminal, Statuses
<1>9. CASE F!FlushCount
  <2>1. /\ job'.processed = job.processed /\ job'.completed = job.completed
        /\ job'.failed = job.failed /\ job'.skipped = job.skipped
        /\ pc = "count" /\ pc' = back /\ next' = next /\ futures' = futures
    BY <1>0, <1>9 DEF F!FlushCount, MarketTypes, JobRecord
  <2> QED BY <1>0, <1>c, <2>1 DEF MarketCounts, MarketTypes, Ending, NothingToDo, Begun
<1>10. CASE F!CancelAtBottom
  BY <1>0, <1>c, <1>10 DEF F!CancelAtBottom, F!FinishCancelled, MarketTypes, JobRecord, MarketCounts, NothingToDo, Ending, Begun, StatusIsKept, Terminal, Statuses
<1>11. CASE F!NoCancelAtBottom
  BY <1>0, <1>c, <1>11 DEF F!NoCancelAtBottom, MarketTypes, JobRecord, MarketCounts, NothingToDo, Ending, Begun, StatusIsKept, Terminal, Statuses
<1>12. CASE F!WrapUp
  BY <1>0, <1>c, <1>12 DEF F!WrapUp, MarketTypes, JobRecord, MarketCounts, NothingToDo, Ending, Begun, StatusIsKept, Terminal, Statuses
<1>13. CASE F!GetFinal
  BY <1>0, <1>c, <1>13 DEF F!GetFinal, F!FinalCopy, MarketTypes, JobRecord, MarketCounts, NothingToDo, Ending, Begun, StatusIsKept, Terminal, Statuses
<1>14. CASE F!PutFinal
  <2>1. /\ job'.processed = job.processed /\ job'.completed = job.completed
        /\ job'.failed = job.failed /\ job'.skipped = job.skipped
        /\ pc = "storefinal" /\ pc' = "end" /\ next' = next /\ futures' = futures
    BY <1>0, <1>14 DEF F!PutFinal, F!StoreFinal, MarketInv, CopyIsCurrent
  <2> QED BY <1>0, <1>c, <2>1 DEF MarketCounts, Ending, NothingToDo, Begun
<1>15. CASE F!Except
  BY <1>0, <1>c, <1>15 DEF F!Except, F!FailJob, MarketTypes, JobRecord, MarketCounts, NothingToDo, Ending, Begun, StatusIsKept, Terminal, Statuses
<1> QED BY <1>1, <1>2, <1>3, <1>4, <1>5, <1>6, <1>7, <1>8, <1>9, <1>10, <1>11, <1>12, <1>13, <1>14, <1>15 DEF F!Next, F!Worker

LEMMA MarketRowsStep == MarketInv /\ F!Next => MarketRows'
<1> SUFFICES ASSUME MarketInv, F!Next PROVE MarketRows'
  OBVIOUS
<1>0. /\ MarketTypes /\ MarketRows /\ MarketSymbols /\ StatusIsKept(RowsWaiting)
  BY MarketTyped DEF MarketInv
<1>a. \A S \in SUBSET (1..Symbols) : Cardinality(S) \in Nat
  BY FiniteParts
<1>b. Cardinality({}) = 0
  BY FS_EmptySet
<1>c. job.imported \in Nat /\ Cardinality(stored) \in Nat /\ Cardinality(frames) \in Nat
  BY <1>0, <1>a DEF MarketTypes, JobRecord
<1> USE DEF F!jobVars, F!fmVars
<1>1. CASE F!Cancel
  BY <1>0, <1>c, <1>1 DEF F!Cancel, F!CancelJob, MarketTypes, JobRecord, MarketRows, InBatch, StatusIsKept, RowsWaiting
<1>2. CASE F!Snapshot
  BY <1>0, <1>c, <1>2 DEF F!Snapshot, MarketTypes, JobRecord, MarketRows, InBatch, StatusIsKept, RowsWaiting
<1>3. CASE F!StartBatch
  BY <1>0, <1>c, <1>3 DEF F!StartBatch, MarketTypes, JobRecord, MarketRows, InBatch, StatusIsKept, RowsWaiting
<1>4. CASE F!CancelAtTop
  BY <1>0, <1>c, <1>4 DEF F!CancelAtTop, F!FinishCancelled, MarketTypes, JobRecord, MarketRows, InBatch, StatusIsKept, RowsWaiting
<1>5. CASE F!Take
  BY <1>0, <1>c, <1>5 DEF F!Take, MarketTypes, JobRecord, MarketRows, InBatch, StatusIsKept, RowsWaiting
<1>6. CASE F!Settle
  <2>1. /\ pc = "settle" /\ pc' \in {"keep", "take"} /\ stored' = stored /\ pending' = pending
        /\ job'.imported = job.imported /\ job'.status = job.status
        /\ \/ frames' = frames /\ fetched' = fetched
           \/ frames' = frames \cup {symbol} /\ fetched' = fetched \cup {symbol}
    BY <1>0, <1>6 DEF F!Settle, MarketTypes, JobRecord
  <2>2. symbol \notin fetched /\ job.status # "failed"
    BY <1>0, <2>1 DEF MarketSymbols, StatusIsKept
  <2>3. fetched = stored \cup pending \cup frames /\ pending = {} /\ frames \cap stored = {}
    BY <1>0, <2>1, <2>2 DEF MarketRows, InBatch
  <2>4. fetched' = stored' \cup pending' \cup frames' /\ frames' \cap stored' = {}
    BY <2>1, <2>2, <2>3
  <2> QED BY <1>0, <1>c, <2>1, <2>3, <2>4 DEF MarketRows, InBatch
<1>7. CASE F!Keep
  <2>1. /\ pc = "keep" /\ pc' \in {"flush", "check"} /\ stored' = stored /\ fetched' = fetched
        /\ pending' = pending \cup frames /\ frames' = frames /\ job' = job /\ next' = next
        /\ pc' = "check" /\ frames # {} => Cardinality(F!Batch) # BatchSize
    BY <1>7, SameCardinality DEF F!Keep
  <2>2. pending = {} /\ frames \cap stored = {} /\ next - BatchSize \in 1..Symbols
    BY <1>0, <2>1 DEF MarketRows, MarketSymbols, InBatch
  <2>3. Cardinality(F!Batch) =
          (IF next - BatchSize + BatchSize - 1 <= Symbols
           THEN next - BatchSize + BatchSize - 1 ELSE Symbols) - (next - BatchSize) + 1
    BY <2>2, SameJob, ChunkSize DEF F!Batch
  <2>4. pc' = "check" /\ frames # {} => next > Symbols
    BY <1>0, <2>1, <2>2, <2>3 DEF MarketTypes
  <2>5. job.status # "failed" => fetched = stored \cup frames
    BY <1>0, <2>1, <2>2 DEF MarketRows, InBatch
  <2> QED BY <1>0, <1>c, <2>1, <2>2, <2>4, <2>5 DEF MarketRows, InBatch
<1>8. CASE F!FlushWrite
  <2>1. /\ pc = "flush" /\ pending' = {} /\ frames' = pending /\ job' = job /\ next' = next
        /\ fetched' = fetched
        /\ \/ stored' = stored \cup pending /\ pc' = "count"
           \/ pc' = "except" /\ \E part \in SUBSET pending : stored' = stored \cup part
    BY <1>8 DEF F!FlushWrite
  <2>2. /\ stored \cap pending = {} /\ job.imported = Cardinality(stored)
        /\ fetched = stored \cup pending /\ job.status # "failed"
    BY <1>0, <1>c, <2>1 DEF MarketRows, InBatch, StatusIsKept
  <2>3. CASE stored' = stored \cup pending /\ pc' = "count"
    <3>1. Cardinality(stored \cup pending) = Cardinality(stored) + Cardinality(pending)
      BY <1>0, <2>2, DisjointUnion DEF MarketTypes
    <3>2. Cardinality(pending) \in Nat
      BY <1>0, <1>a DEF MarketTypes
    <3> QED BY <1>c, <2>1, <2>2, <2>3, <3>1, <3>2 DEF MarketRows, InBatch
  <2>4. CASE pc' = "except" /\ \E part \in SUBSET pending : stored' = stored \cup part
    <3>1. stored \subseteq stored' /\ stored' \subseteq 1..Symbols
      BY <1>0, <2>4 DEF MarketTypes
    <3>2. Cardinality(stored) <= Cardinality(stored') /\ Cardinality(stored') \in Nat
      BY <3>1, FiniteParts, FS_Subset
    <3> QED BY <1>c, <2>1, <2>2, <2>4, <3>2 DEF MarketRows, InBatch
  <2> QED BY <2>1, <2>3, <2>4
<1>9. CASE F!FlushCount
  <2> DEFINE n == Cardinality(frames)
  <2>1. job' = [job EXCEPT !.imported = job.imported + n]
    BY <1>9, SameCardinality DEF F!FlushCount
  <2>2. n \in Nat
    BY <1>c
  <2>3. /\ pc = "count" /\ pc' = back /\ stored' = stored /\ fetched' = fetched
        /\ pending' = pending /\ frames' = frames /\ next' = next
    BY <1>9 DEF F!FlushCount
  <2>4. job.imported + n = Cardinality(stored) /\ pending = {} /\ fetched = stored
    BY <1>0, <2>3 DEF MarketRows, InBatch, StatusIsKept
  <2> HIDE DEF n
  <2>5. job'.imported = job.imported + n /\ job'.status = job.status
    BY <1>0, <2>1, <2>2 DEF MarketTypes, JobRecord
  <2> QED BY <1>0, <1>c, <2>2, <2>3, <2>4, <2>5 DEF MarketRows, MarketTypes, InBatch
<1>10. CASE F!CancelAtBottom
  BY <1>0, <1>c, <1>10 DEF F!CancelAtBottom, F!FinishCancelled, MarketTypes, JobRecord, MarketRows, InBatch, StatusIsKept, RowsWaiting
<1>11. CASE F!NoCancelAtBottom
  BY <1>0, <1>c, <1>11 DEF F!NoCancelAtBottom, MarketTypes, JobRecord, MarketRows, InBatch, StatusIsKept, RowsWaiting
<1>12. CASE F!WrapUp
  BY <1>0, <1>c, <1>12 DEF F!WrapUp, MarketTypes, JobRecord, MarketRows, InBatch, StatusIsKept, RowsWaiting
<1>13. CASE F!GetFinal
  BY <1>0, <1>c, <1>13 DEF F!GetFinal, F!FinalCopy, MarketTypes, JobRecord, MarketRows, InBatch, StatusIsKept, RowsWaiting
<1>14. CASE F!PutFinal
  <2>1. /\ job' = final /\ pc = "storefinal" /\ pc' = "end" /\ final.imported = job.imported
        /\ stored' = stored /\ fetched' = fetched /\ pending' = pending /\ next' = next
    BY <1>0, <1>14 DEF F!PutFinal, F!StoreFinal, MarketInv, CopyIsCurrent
  <2>2. job.status # "failed"
    BY <1>0, <2>1 DEF StatusIsKept
  <2>3. fetched = stored /\ pending = {} /\ job.imported = Cardinality(stored)
    BY <1>0, <1>c, <2>1, <2>2 DEF MarketRows, InBatch
  <2> QED BY <1>0, <1>c, <2>1, <2>3 DEF MarketRows, InBatch
<1>15. CASE F!Except
  <2>1. /\ job'.status = "failed" /\ job'.imported = job.imported /\ pc = "except" /\ pc' = "end"
        /\ stored' = stored /\ fetched' = fetched /\ pending' = pending /\ next' = next
    BY <1>0, <1>15 DEF F!Except, F!FailJob, MarketTypes, JobRecord
  <2> QED BY <1>0, <1>c, <2>1 DEF MarketRows, InBatch
<1> QED BY <1>1, <1>2, <1>3, <1>4, <1>5, <1>6, <1>7, <1>8, <1>9, <1>10, <1>11, <1>12, <1>13, <1>14, <1>15 DEF F!Next, F!Worker

-------------------------------------------------------------------------------
(* The capital-flow job keeps its invariant.                                *)

FlowTypes ==
    /\ job \in JobRecord /\ cancelled \in BOOLEAN /\ next \in 1..(Symbols + BatchSize)
    /\ pc \in C!Labels
    /\ skipEastmoney \in BOOLEAN /\ final \in JobRecord /\ filled \subseteq 1..Symbols

LEMMA FlowTyped == C!TypeOK <=> FlowTypes
  BY SameJob DEF C!TypeOK, FlowTypes, JobTypeOK

\* Each symbol of a batch is completed or has a reason of failure, never both.
LEMMA CompletedOrFailed ==
    ASSUME NEW B \in SUBSET (1..Symbols), NEW r \in C!Results(B)
    PROVE  LET done == C!CompletedSymbols(B, r)
               why == C!FailureReasons(B, r)
           IN  /\ done \subseteq B /\ why \subseteq B /\ r.skipped \subseteq done
               /\ r.fetched \subseteq B
               /\ done = r.skipped \cup (r.fetched \ (r.failures \cup r.shortfall))
               /\ Cardinality(done) \in Nat /\ Cardinality(why) \in Nat
               /\ Cardinality(r.skipped) \in Nat /\ Cardinality(r.fetched) \in Nat
               /\ Cardinality(done) + Cardinality(why) = Cardinality(B)
               /\ Cardinality(r.skipped) <= Cardinality(done)
<1> DEFINE done == C!CompletedSymbols(B, r)
           why == C!FailureReasons(B, r)
<1>1. /\ r.skipped \subseteq B /\ r.fetched \subseteq B /\ r.failures \subseteq B
      /\ r.shortfall \subseteq B
      /\ r.skipped \cap (r.fetched \cup r.failures \cup r.shortfall) = {}
  BY DEF C!Results
<1>2. /\ done \subseteq B /\ why \subseteq B /\ r.skipped \subseteq done
      /\ done = r.skipped \cup (r.fetched \ (r.failures \cup r.shortfall))
      /\ done \cap why = {} /\ done \cup why = B
  BY <1>1 DEF C!CompletedSymbols, C!FailureReasons, C!Missing
<1> HIDE DEF done, why
<1>3. /\ Cardinality(done) \in Nat /\ Cardinality(why) \in Nat /\ IsFiniteSet(done)
      /\ Cardinality(r.skipped) \in Nat /\ Cardinality(r.fetched) \in Nat
  <2>1. /\ done \in SUBSET (1..Symbols) /\ why \in SUBSET (1..Symbols)
        /\ r.skipped \in SUBSET (1..Symbols) /\ r.fetched \in SUBSET (1..Symbols)
    BY <1>1, <1>2
  <2> QED BY <2>1, FiniteParts
<1>4. Cardinality(done) + Cardinality(why) = Cardinality(B)
  BY <1>2, DisjointUnion
<1>5. Cardinality(r.skipped) <= Cardinality(done)
  BY <1>2, <1>3, FS_Subset
<1> QED BY <1>1, <1>2, <1>3, <1>4, <1>5 DEF done, why

\* The batch that is fetched, the symbols before it and the symbols up to its end.
LEMMA FlowBatch ==
    ASSUME FlowInv, pc = "fetch"
    PROVE  LET B == C!Batch IN
           /\ B \in SUBSET (1..Symbols) /\ Cardinality(B) \in Nat
           /\ FlowBegun + Cardinality(B) = Begun
           /\ FlowBegun \in Nat /\ Begun \in Nat /\ Begun <= Symbols
           /\ filled \cap B = {} /\ B \cup (1..FlowBegun) \subseteq 1..Begun
           /\ filled \subseteq 1..FlowBegun /\ ~NothingToDo
<1>1. FlowTypes /\ next - BatchSize \in 1..Symbols
  BY FlowTyped DEF FlowInv, FlowCounts
<1>2. C!Batch = Chunk(next - BatchSize)
  BY SameJob DEF C!Batch
<1> DEFINE i == next - BatchSize
           last == IF i + BatchSize - 1 <= Symbols THEN i + BatchSize - 1 ELSE Symbols
<1>3. /\ C!Batch = i..last /\ Cardinality(C!Batch) = last - i + 1
      /\ C!Batch \subseteq 1..Symbols
  BY <1>1, <1>2, ChunkSize
<1>4. last = Begun /\ FlowBegun = i - 1 /\ i \in 1..Symbols /\ last \in 1..Symbols /\ i <= last
  BY <1>1 DEF Begun, FlowBegun, FlowTypes
<1>5. ~NothingToDo /\ filled \subseteq 1..FlowBegun
  BY DEF NothingToDo, FlowInv, FlowCounts
<1> HIDE DEF i, last
<1> QED BY <1>3, <1>4, <1>5

LEMMA FlowCountsStep == FlowInv /\ C!Next => FlowCounts'
<1> SUFFICES ASSUME FlowInv, C!Next PROVE FlowCounts'
  OBVIOUS
<1>0. FlowTypes /\ FlowCounts /\ CopyIsCurrent /\ StatusIsKept(FALSE)
  BY FlowTyped DEF FlowInv
<1>a. Cardinality(filled) \in Nat
  BY <1>0, FiniteParts DEF FlowTypes
<1> USE DEF C!jobVars, C!cfVars
<1>1. CASE C!Cancel
  <2>1. /\ job'.processed = job.processed /\ job'.completed = job.completed
        /\ job'.failed = job.failed /\ job'.skipped = job.skipped /\ job'.imported = job.imported
        /\ filled' = filled /\ next' = next /\ pc' = pc /\ job.status = "running"
    BY <1>0, <1>1 DEF C!Cancel, C!CancelJob, FlowTypes, JobRecord
  <2>2. pc # "end"
    BY <1>0, <2>1 DEF StatusIsKept, Terminal
  <2> QED BY <1>0, <1>a, <2>1, <2>2 DEF FlowCounts, FlowBegun, Begun, NothingToDo
<1>2. CASE C!NotConfigured
  <2>1. /\ job'.processed = job.processed /\ job'.completed = job.completed
        /\ job'.failed = job.failed /\ job'.skipped = job.skipped /\ job'.imported = job.imported
        /\ filled' = filled /\ next' = next
        /\ pc # "end" /\ pc # "fetch" /\ pc' # "fetch" /\ (pc' = "storefinal" => next > Symbols)
    BY <1>0, <1>2 DEF C!NotConfigured, FlowTypes, JobRecord
  <2> QED BY <1>0, <1>a, <2>1 DEF FlowCounts, FlowBegun, Begun, NothingToDo
<1>3. CASE C!StartBatch
  <2>1. /\ job' = job /\ filled' = filled /\ next' = next + BatchSize
        /\ pc = "batch" /\ pc' = "fetch" /\ next <= Symbols
    BY <1>3 DEF C!StartBatch
  <2>2. next \in 1..Symbols
    BY <1>0, <2>1 DEF FlowTypes
  <2> QED BY <1>0, <1>a, <2>1, <2>2 DEF FlowCounts, FlowBegun, Begun, NothingToDo, FlowTypes, JobRecord
<1>4. CASE C!FetchBatch
  <2> DEFINE B == C!Batch
  <2>1. PICK r \in C!Results(B), down \in BOOLEAN :
            /\ job' = [job EXCEPT
                    !.processed = job.processed + Cardinality(B),
                    !.completed = job.completed + Cardinality(C!CompletedSymbols(B, r)),
                    !.failed    = job.failed + Cardinality(C!FailureReasons(B, r)),
                    !.skipped   = job.skipped + Cardinality(r.skipped),
                    !.imported  = job.imported + Cardinality(r.fetched)]
            /\ filled' = filled \cup r.skipped \cup (r.fetched \ (r.failures \cup r.shortfall))
    BY <1>4, SameCardinality DEF C!FetchBatch
  <2>2. pc = "fetch" /\ pc' = "check" /\ next' = next
    BY <1>4 DEF C!FetchBatch
  <2> DEFINE done == C!CompletedSymbols(B, r)
             why == C!FailureReasons(B, r)
             all == Cardinality(B)  cd == Cardinality(done)  cw == Cardinality(why)
             cs == Cardinality(r.skipped)
  <2>3. /\ B \in SUBSET (1..Symbols) /\ all \in Nat
        /\ FlowBegun + all = Begun /\ FlowBegun \in Nat /\ Begun \in Nat
        /\ filled \cap B = {} /\ B \cup (1..FlowBegun) \subseteq 1..Begun
        /\ filled \subseteq 1..FlowBegun /\ ~NothingToDo
    BY <2>2, FlowBatch
  <2>4. /\ done \subseteq B /\ r.skipped \subseteq done
        /\ done = r.skipped \cup (r.fetched \ (r.failures \cup r.shortfall))
        /\ cd \in Nat /\ cw \in Nat /\ cs \in Nat /\ cd + cw = all /\ cs <= cd
    BY <2>3, CompletedOrFailed
  <2>5. /\ job'.processed = job.processed + all /\ job'.completed = job.completed + cd
        /\ job'.failed = job.failed + cw /\ job'.skipped = job.skipped + cs
    BY <1>0, <2>1 DEF FlowTypes, JobRecord
  <2> HIDE DEF B, done, why, all, cd, cw, cs
  <2>6. filled' = filled \cup done /\ filled \cap done = {} /\ done \in SUBSET (1..Symbols)
    BY <2>1, <2>3, <2>4
  <2>7. Cardinality(filled') = Cardinality(filled) + cd
    BY <1>0, <2>6, DisjointUnion DEF FlowTypes, cd
  <2>8. filled' \subseteq 1..Begun /\ FlowBegun' = Begun /\ next' = next /\ pc' = "check"
    BY <2>2, <2>3, <2>4, <2>6 DEF FlowBegun, Begun
  <2>9. /\ job.processed = FlowBegun /\ job.processed = job.completed + job.failed
        /\ job.completed = Cardinality(filled) /\ job.skipped <= job.completed
    BY <1>0, <2>3 DEF FlowCounts
  <2>10. job.completed \in Nat /\ job.failed \in Nat /\ job.skipped \in Nat
    BY <1>0 DEF FlowTypes, JobRecord
  <2> QED BY <1>a, <2>3, <2>4, <2>5, <2>7, <2>8, <2>9, <2>10 DEF FlowCounts
<1>5. CASE C!BatchRaises
  <2> DEFINE all == Cardinality(C!Batch)
  <2>1. /\ job' = [job EXCEPT !.processed = job.processed + all, !.failed = job.failed + all]
        /\ filled' = filled /\ pc = "fetch" /\ pc' = "check" /\ next' = next
    BY <1>5, SameCardinality DEF C!BatchRaises
  <2>2. /\ all \in Nat /\ FlowBegun + all = Begun /\ FlowBegun \in Nat
        /\ filled \subseteq 1..Begun /\ ~NothingToDo
    BY <2>1, FlowBatch
  <2> HIDE DEF all
  <2>3. /\ job'.processed = job.processed + all /\ job'.completed = job.completed
        /\ job'.failed = job.failed + all /\ job'.skipped = job.skipped
    BY <1>0, <2>1 DEF FlowTypes, JobRecord
  <2>4. /\ job.processed = FlowBegun /\ job.processed = job.completed + job.failed
        /\ job.completed = Cardinality(filled) /\ job.skipped <= job.completed
    BY <1>0, <2>2 DEF FlowCounts
  <2>5. job.completed \in Nat /\ job.failed \in Nat /\ FlowBegun' = Begun
    BY <1>0, <2>1 DEF FlowTypes, JobRecord, FlowBegun, Begun
  <2> QED BY <1>a, <2>1, <2>2, <2>3, <2>4, <2>5 DEF FlowCounts
<1>6. CASE C!CancelSeen
  <2>1. /\ job'.processed = job.processed /\ job'.completed = job.completed
        /\ job'.failed = job.failed /\ job'.skipped = job.skipped /\ job'.imported = job.imported
        /\ filled' = filled /\ next' = next
        /\ pc # "end" /\ pc # "fetch" /\ pc' # "fetch" /\ (pc' = "storefinal" => next > Symbols)
    BY <1>0, <1>6 DEF C!CancelSeen, C!FinishCancelled, FlowTypes, JobRecord
  <2> QED BY <1>0, <1>a, <2>1 DEF FlowCounts, FlowBegun, Begun, NothingToDo
<1>7. CASE C!NoCancelSeen
  <2>1. /\ job'.processed = job.processed /\ job'.completed = job.completed
        /\ job'.failed = job.failed /\ job'.skipped = job.skipped /\ job'.imported = job.imported
        /\ filled' = filled /\ next' = next
        /\ pc # "end" /\ pc # "fetch" /\ pc' # "fetch" /\ (pc' = "storefinal" => next > Symbols)
    BY <1>0, <1>7 DEF C!NoCancelSeen, FlowTypes, JobRecord
  <2> QED BY <1>0, <1>a, <2>1 DEF FlowCounts, FlowBegun, Begun, NothingToDo
<1>8. CASE C!GetFinal
  <2>1. /\ job'.processed = job.processed /\ job'.completed = job.completed
        /\ job'.failed = job.failed /\ job'.skipped = job.skipped /\ job'.imported = job.imported
        /\ filled' = filled /\ next' = next
        /\ pc # "end" /\ pc # "fetch" /\ pc' # "fetch" /\ (pc' = "storefinal" => next > Symbols)
    BY <1>0, <1>8 DEF C!GetFinal, C!FinalCopy, FlowTypes, JobRecord
  <2> QED BY <1>0, <1>a, <2>1 DEF FlowCounts, FlowBegun, Begun, NothingToDo
<1>9. CASE C!PutFinal
  <2>1. /\ job'.processed = job.processed /\ job'.completed = job.completed
        /\ job'.failed = job.failed /\ job'.skipped = job.skipped /\ job'.imported = job.imported
        /\ filled' = filled /\ next' = next
        /\ pc # "end" /\ pc # "fetch" /\ pc' # "fetch" /\ (pc' = "storefinal" => next > Symbols)
    BY <1>0, <1>9 DEF C!PutFinal, C!StoreFinal, FlowTypes, JobRecord, CopyIsCurrent
  <2> QED BY <1>0, <1>a, <2>1 DEF FlowCounts, FlowBegun, Begun, NothingToDo
<1>10. CASE C!Except
  <2>1. /\ job'.processed = job.processed /\ job'.completed = job.completed
        /\ job'.failed = job.failed /\ job'.skipped = job.skipped /\ job'.imported = job.imported
        /\ filled' = filled /\ next' = next
        /\ pc # "end" /\ pc # "fetch" /\ pc' # "fetch" /\ (pc' = "storefinal" => next > Symbols)
    BY <1>0, <1>10 DEF C!Except, C!FailJob, FlowTypes, JobRecord
  <2> QED BY <1>0, <1>a, <2>1 DEF FlowCounts, FlowBegun, Begun, NothingToDo
<1> QED BY <1>1, <1>2, <1>3, <1>4, <1>5, <1>6, <1>7, <1>8, <1>9, <1>10 DEF C!Next, C!Worker

LEMMA FlowType == FlowInv /\ C!Next => FlowTypes'
<1> SUFFICES ASSUME FlowInv, C!Next PROVE FlowTypes'
  OBVIOUS
<1>0. FlowTypes
  BY FlowTyped DEF FlowInv
<1> USE DEF C!jobVars, C!cfVars
<1>1. CASE C!Cancel
  BY <1>0, <1>1 DEF C!Cancel, C!CancelJob, FlowTypes, JobRecord, Statuses, C!Labels
<1>2. CASE C!NotConfigured
  BY <1>0, <1>2 DEF C!NotConfigured, FlowTypes, JobRecord, Statuses, C!Labels
<1>3. CASE C!StartBatch
  <2>1. next' \in 1..(Symbols + BatchSize)
    BY <1>0, <1>3 DEF C!StartBatch, FlowTypes
  <2> QED BY <1>0, <2>1, <1>3 DEF C!StartBatch, FlowTypes, C!Labels
<1>4. CASE C!FetchBatch
  <2> DEFINE B == C!Batch
  <2>1. PICK r \in C!Results(B), down \in BOOLEAN :
            /\ job' = [job EXCEPT
                    !.processed = job.processed + Cardinality(B),
                    !.completed = job.completed + Cardinality(C!CompletedSymbols(B, r)),
                    !.failed    = job.failed + Cardinality(C!FailureReasons(B, r)),
                    !.skipped   = job.skipped + Cardinality(r.skipped),
                    !.imported  = job.imported + Cardinality(r.fetched)]
            /\ filled' = filled \cup r.skipped \cup (r.fetched \ (r.failures \cup r.shortfall))
            /\ skipEastmoney' = (skipEastmoney \/ down)
    BY <1>4, SameCardinality DEF C!FetchBatch
  <2>2. B \in SUBSET (1..Symbols) /\ Cardinality(B) \in Nat
    BY <1>4, FlowBatch DEF C!FetchBatch
  <2>3. /\ Cardinality(C!CompletedSymbols(B, r)) \in Nat
        /\ Cardinality(C!FailureReasons(B, r)) \in Nat
        /\ Cardinality(r.skipped) \in Nat /\ Cardinality(r.fetched) \in Nat
        /\ r.skipped \subseteq 1..Symbols /\ r.fetched \subseteq 1..Symbols
    BY <2>2, CompletedOrFailed
  <2>4. job' \in JobRecord
    <3> DEFINE all == Cardinality(B)
               cd == Cardinality(C!CompletedSymbols(B, r))
               cw == Cardinality(C!FailureReasons(B, r))
               cs == Cardinality(r.skipped)
               ci == Cardinality(r.fetched)
    <3>1. /\ job' = [job EXCEPT
                    !.processed = job.processed + all, !.completed = job.completed + cd,
                    !.failed = job.failed + cw, !.skipped = job.skipped + cs,
                    !.imported = job.imported + ci]
          /\ all \in Nat /\ cd \in Nat /\ cw \in Nat /\ cs \in Nat /\ ci \in Nat
      BY <2>1, <2>2, <2>3
    <3> HIDE DEF all, cd, cw, cs, ci
    <3> DEFINE p == job.processed + all  c == job.completed + cd  f == job.failed + cw
               k == job.skipped + cs  i == job.imported + ci
    <3>2. /\ p \in Nat /\ c \in Nat /\ f \in Nat /\ k \in Nat /\ i \in Nat
          /\ job' = [job EXCEPT !.processed = p, !.completed = c, !.failed = f,
                                !.skipped = k, !.imported = i]
      BY <1>0, <3>1 DEF FlowTypes, JobRecord
    <3> HIDE DEF p, c, f, k, i
    <3> QED BY <1>0, <3>2 DEF FlowTypes, JobRecord
  <2>5. filled' \subseteq 1..Symbols
    BY <1>0, <2>1, <2>3 DEF FlowTypes
  <2> QED BY <1>0, <2>1, <2>4, <2>5, <1>4 DEF C!FetchBatch, FlowTypes, C!Labels
<1>5. CASE C!BatchRaises
  <2> DEFINE all == Cardinality(C!Batch)
  <2>1. job' = [job EXCEPT !.processed = job.processed + all, !.failed = job.failed + all]
    BY <1>5, SameCardinality DEF C!BatchRaises
  <2>2. all \in Nat
    BY <1>5, FlowBatch DEF C!BatchRaises
  <2> HIDE DEF all
  <2>3. job' \in JobRecord
    <3> DEFINE p == job.processed + all  f == job.failed + all
    <3>1. /\ p \in Nat /\ f \in Nat
          /\ job' = [job EXCEPT !.processed = p, !.failed = f]
      BY <1>0, <2>1, <2>2 DEF FlowTypes, JobRecord
    <3> HIDE DEF p, f
    <3> QED BY <1>0, <3>1 DEF FlowTypes, JobRecord
  <2> QED BY <1>0, <2>3, <1>5 DEF C!BatchRaises, FlowTypes, C!Labels
<1>6. CASE C!CancelSeen
  BY <1>0, <1>6 DEF C!CancelSeen, C!FinishCancelled, FlowTypes, JobRecord, Statuses, C!Labels
<1>7. CASE C!NoCancelSeen
  BY <1>0, <1>7 DEF C!NoCancelSeen, FlowTypes, JobRecord, Statuses, C!Labels
<1>8. CASE C!GetFinal
  BY <1>0, <1>8 DEF C!GetFinal, C!FinalCopy, FlowTypes, JobRecord, Statuses, C!Labels
<1>9. CASE C!PutFinal
  BY <1>0, <1>9 DEF C!PutFinal, C!StoreFinal, FlowTypes, JobRecord, Statuses, C!Labels
<1>10. CASE C!Except
  BY <1>0, <1>10 DEF C!Except, C!FailJob, FlowTypes, JobRecord, Statuses, C!Labels
<1> QED BY <1>1, <1>2, <1>3, <1>4, <1>5, <1>6, <1>7, <1>8, <1>9, <1>10 DEF C!Next, C!Worker

LEMMA FlowStatus ==
    FlowInv /\ C!Next => StatusIsKept(FALSE)' /\ CopyIsCurrent' /\ SuccessIsWhole'
<1> SUFFICES ASSUME FlowInv, C!Next
             PROVE  StatusIsKept(FALSE)' /\ CopyIsCurrent' /\ SuccessIsWhole'
  OBVIOUS
<1>0. FlowTypes /\ StatusIsKept(FALSE) /\ CopyIsCurrent /\ SuccessIsWhole
  BY FlowTyped DEF FlowInv
<1>a. pc = "storefinal" => job.processed = Symbols
  BY <1>0 DEF FlowInv, FlowCounts, FlowBegun, Begun, NothingToDo, FlowTypes
<1> USE DEF C!jobVars, C!cfVars
<1>1. CASE C!Cancel
  BY <1>0, <1>1 DEF C!Cancel, C!CancelJob, FlowTypes, JobRecord, Statuses, Terminal, Succeeded, StatusIsKept, CopyIsCurrent, SuccessIsWhole
<1>2. CASE C!NotConfigured
  BY <1>0, <1>2 DEF C!NotConfigured, FlowTypes, JobRecord, Statuses, Terminal, Succeeded, StatusIsKept, CopyIsCurrent, SuccessIsWhole
<1>3. CASE C!StartBatch
  BY <1>0, <1>3 DEF C!StartBatch, FlowTypes, JobRecord, Statuses, Terminal, Succeeded, StatusIsKept, CopyIsCurrent, SuccessIsWhole
<1>4. CASE C!FetchBatch
  <2>1. job'.status = job.status /\ cancelled' = cancelled /\ pc = "fetch" /\ pc' = "check"
    BY <1>0, <1>4 DEF C!FetchBatch, FlowTypes, JobRecord
  <2> QED BY <1>0, <2>1 DEF StatusIsKept, Terminal, Statuses, CopyIsCurrent, SuccessIsWhole, Succeeded
<1>5. CASE C!BatchRaises
  <2>1. job'.status = job.status /\ cancelled' = cancelled /\ pc = "fetch" /\ pc' = "check"
    BY <1>0, <1>5 DEF C!BatchRaises, FlowTypes, JobRecord
  <2> QED BY <1>0, <2>1 DEF StatusIsKept, Terminal, Statuses, CopyIsCurrent, SuccessIsWhole, Succeeded
<1>6. CASE C!CancelSeen
  BY <1>0, <1>6 DEF C!CancelSeen, C!FinishCancelled, FlowTypes, JobRecord, Statuses, Terminal, Succeeded, StatusIsKept, CopyIsCurrent, SuccessIsWhole
<1>7. CASE C!NoCancelSeen
  BY <1>0, <1>7 DEF C!NoCancelSeen, FlowTypes, JobRecord, Statuses, Terminal, Succeeded, StatusIsKept, CopyIsCurrent, SuccessIsWhole
<1>8. CASE C!GetFinal
  BY <1>0, <1>8 DEF C!GetFinal, C!FinalCopy, FlowTypes, JobRecord, Statuses, Terminal, Succeeded, StatusIsKept, CopyIsCurrent, SuccessIsWhole
<1>9. CASE C!PutFinal
  <2>1. job' = final /\ pc = "storefinal" /\ pc' = "end" /\ job.processed = Symbols
    BY <1>a, <1>9 DEF C!PutFinal, C!StoreFinal
  <2>2. /\ final.processed = job.processed /\ final.failed = job.failed
        /\ final.status = IF job.failed > 0 THEN "completed_with_errors" ELSE "completed"
    BY <1>0, <2>1 DEF CopyIsCurrent
  <2> QED BY <2>1, <2>2 DEF Terminal, Statuses, StatusIsKept, CopyIsCurrent, SuccessIsWhole, Succeeded
<1>10. CASE C!Except
  BY <1>0, <1>10 DEF C!Except, C!FailJob, FlowTypes, JobRecord, Statuses, Terminal, Succeeded, StatusIsKept, CopyIsCurrent, SuccessIsWhole
<1> QED BY <1>1, <1>2, <1>3, <1>4, <1>5, <1>6, <1>7, <1>8, <1>9, <1>10 DEF C!Next, C!Worker

-------------------------------------------------------------------------------
(* Either job keeps its invariant while the scripts do nothing to it.       *)

LEMMA MarketStepKeeps == MarketInv /\ F!Next => MarketInv'
<1> SUFFICES ASSUME MarketInv, F!Next PROVE MarketInv'
  OBVIOUS
<1>1. F!TypeOK' <=> MarketTypes'
  BY MarketTyped, PTL
<1> QED BY <1>1, MarketType, MarketStatus, MarketSymbolsStep, MarketCountsStep, MarketRowsStep
        DEF MarketInv

LEMMA FlowStepKeeps == FlowInv /\ C!Next => FlowInv'
<1> SUFFICES ASSUME FlowInv, C!Next PROVE FlowInv'
  OBVIOUS
<1>1. C!TypeOK' <=> FlowTypes'
  BY FlowTyped, PTL
<1> QED BY <1>1, FlowType, FlowStatus, FlowCountsStep DEF FlowInv

LEMMA MarketBegins == F!Init => MarketInv
<1> SUFFICES ASSUME F!Init PROVE MarketInv
  OBVIOUS
<1>1. PICK needed \in BOOLEAN :
        job = [status |-> IF needed THEN "running" ELSE "completed",
               processed |-> IF needed THEN 0 ELSE Symbols, completed |-> 0, failed |-> 0,
               skipped |-> IF needed THEN 0 ELSE Symbols, imported |-> 0]
  BY DEF F!Init, F!JobInit
<1>2. /\ job \in JobRecord
      /\ job.status = (IF needed THEN "running" ELSE "completed")
      /\ job.processed = (IF needed THEN 0 ELSE Symbols)
      /\ job.skipped = (IF needed THEN 0 ELSE Symbols)
      /\ job.completed = 0 /\ job.failed = 0 /\ job.imported = 0
  BY <1>1 DEF JobRecord, Statuses
<1>3. /\ cancelled = FALSE /\ next = 1 /\ final = job
      /\ pc = (IF job.status = "running" THEN "snapshot" ELSE "end")
      /\ futures = {} /\ symbol = 0 /\ complete = {} /\ batchFailed = FALSE /\ frames = {}
      /\ pending = {} /\ back = "check" /\ fetched = {} /\ stored = {}
  BY DEF F!Init, F!JobInit, F!NoSymbol
<1>4. Cardinality({}) = 0
  BY FS_EmptySet
<1>5. MarketTypes
  <2>1. next \in 1..(Symbols + BatchSize)
    BY <1>3
  <2>3. cancelled \in BOOLEAN /\ batchFailed \in BOOLEAN
    BY <1>3
  <2>4. pc \in F!Labels /\ back \in {"check", "end", "getfinal"} /\ symbol \in 0..Symbols
    BY <1>3 DEF F!Labels
  <2>2. job \in JobRecord /\ final \in JobRecord
    BY <1>2, <1>3
  <2> QED BY <1>3, <2>1, <2>2, <2>3, <2>4 DEF MarketTypes
<1>6. StatusIsKept(RowsWaiting) /\ LateIsCancelled /\ CopyIsCurrent /\ SuccessIsWhole
  BY <1>2, <1>3 DEF StatusIsKept, LateIsCancelled, CopyIsCurrent, SuccessIsWhole,
                    Terminal, Statuses, Succeeded
<1>7. MarketCounts /\ MarketSymbols
  BY <1>2, <1>3, <1>4 DEF MarketCounts, MarketSymbols, InBatch, Ending, NothingToDo, Begun
<1>8. MarketRows
  BY <1>2, <1>3, <1>4 DEF MarketRows, InBatch
<1> QED BY <1>5, <1>6, <1>7, <1>8, MarketTyped DEF MarketInv

LEMMA FlowBegins == C!Init => FlowInv
<1> SUFFICES ASSUME C!Init PROVE FlowInv
  OBVIOUS
<1>1. PICK needed \in BOOLEAN :
        job = [status |-> IF needed THEN "running" ELSE "completed",
               processed |-> IF needed THEN 0 ELSE Symbols, completed |-> 0, failed |-> 0,
               skipped |-> IF needed THEN 0 ELSE Symbols, imported |-> 0]
  BY DEF C!Init, C!JobInit
<1>2. /\ job \in JobRecord
      /\ job.status = (IF needed THEN "running" ELSE "completed")
      /\ job.processed = (IF needed THEN 0 ELSE Symbols)
      /\ job.skipped = (IF needed THEN 0 ELSE Symbols)
      /\ job.completed = 0 /\ job.failed = 0 /\ job.imported = 0
  BY <1>1 DEF JobRecord, Statuses
<1>3. /\ cancelled = FALSE /\ next = 1 /\ final = job
      /\ pc = (IF job.status = "running" THEN "batch" ELSE "end")
      /\ skipEastmoney = FALSE /\ filled = {}
  BY DEF C!Init, C!JobInit
<1>4. Cardinality({}) = 0
  BY FS_EmptySet
<1>5. FlowTypes
  <2>1. next \in 1..(Symbols + BatchSize)
    BY <1>3
  <2>3. cancelled \in BOOLEAN /\ skipEastmoney \in BOOLEAN
    BY <1>3
  <2>4. pc \in C!Labels
    BY <1>3 DEF C!Labels
  <2>2. job \in JobRecord /\ final \in JobRecord
    BY <1>2, <1>3
  <2> QED BY <1>3, <2>1, <2>2, <2>3, <2>4 DEF FlowTypes
<1>6. StatusIsKept(FALSE) /\ CopyIsCurrent /\ SuccessIsWhole
  BY <1>2, <1>3 DEF StatusIsKept, CopyIsCurrent, SuccessIsWhole, Terminal, Statuses, Succeeded
<1>7. FlowCounts
  BY <1>2, <1>3, <1>4 DEF FlowCounts, FlowBegun, NothingToDo, Begun
<1> QED BY <1>5, <1>6, <1>7, FlowTyped DEF FlowInv

LEMMA JobInvHolds == BulkSpec => []JobInv
<1>1. BulkInit => JobInv
  BY MarketBegins, FlowBegins DEF BulkInit, Init, JobInv
<1>2. JobInv /\ [BulkNext]_bulkVars => JobInv'
  <2> SUFFICES ASSUME JobInv, [BulkNext]_bulkVars PROVE JobInv'
    OBVIOUS
  <2>1. CASE MarketStep
    BY <2>1, MarketStepKeeps DEF JobInv, MarketStep
  <2>2. CASE FlowStep
    BY <2>2, FlowStepKeeps DEF JobInv, FlowStep
  <2>3. CASE UNCHANGED vars
    BY <2>3 DEF JobInv, vars, jobVars, marketVars, flowVars, MarketInv, FlowInv, F!TypeOK,
        F!JobTypeOK, C!TypeOK, C!JobTypeOK, StatusIsKept, RowsWaiting, LateIsCancelled,
        CopyIsCurrent, SuccessIsWhole, MarketCounts, MarketSymbols, MarketRows, InBatch,
        Ending, NothingToDo, Begun, FlowCounts, FlowBegun
  <2>4. MarketStep \/ FlowStep \/ UNCHANGED vars
    BY DEF BulkNext, JobStep, ImportStep, BackfillStep, Next, bulkVars
  <2> QED BY <2>1, <2>2, <2>3, <2>4
<1> QED BY <1>1, <1>2, PTL DEF BulkSpec

-------------------------------------------------------------------------------

\* Whatever the number of symbols, the size of the batches and the order of the
\* results, the progress a client reads of a full-market job adds up, every row it
\* counts is in the warehouse, and every row in the warehouse is counted unless a
\* write that raised stored a part of its rows and failed the job
\* (sync.py:265-303, 316-320, 382-411; warehouse.py:125-143).
THEOREM ProgressIsCounted == BulkSpec => []ProgressAddsUp
<1>1. JobInv => ProgressAddsUp
  <2> SUFFICES ASSUME JobInv, mode = "full_market_bootstrap" PROVE F!ProgressAddsUp
    BY DEF ProgressAddsUp
  <2>1. MarketCounts /\ MarketRows /\ SuccessIsWhole /\ MarketTypes
    BY MarketTyped DEF JobInv, MarketInv
  <2>2. Cardinality(stored) \in Nat
    BY <2>1, FiniteParts DEF MarketTypes
  <2>3. Cardinality(frames) \in Nat /\ job.imported \in Nat
    BY <2>1, FiniteParts DEF MarketTypes, JobRecord
  <2>4. /\ job.imported <= Cardinality(stored)
        /\ pc \notin {"count", "except"} /\ job.status # "failed" =>
              job.imported = Cardinality(stored)
    BY <2>1, <2>2, <2>3 DEF MarketRows
  <2>5. /\ job.processed =
             job.completed + job.failed + job.skipped + (IF pc = "settle" THEN 1 ELSE 0)
        /\ job.status \in Succeeded => job.processed = Symbols
    BY <2>1 DEF MarketCounts, SuccessIsWhole
  <2> QED BY <2>4, <2>5, SameCardinality DEF F!ProgressAddsUp, F!Succeeded, Succeeded
<1> QED BY <1>1, JobInvHolds, PTL

\* Whenever the thread of a full-market job has ended without failing, after a
\* cancel too, every symbol it counted as completed has its rows in the warehouse
\* (sync.py:304-315, 382-411).
THEOREM DownloadsAreKept == BulkSpec => []CompletedIsStored
<1>1. JobInv => CompletedIsStored
  BY DEF JobInv, MarketInv, MarketRows, InBatch, CompletedIsStored, F!CompletedIsStored
<1> QED BY <1>1, JobInvHolds, PTL

\* A capital-flow job counts a symbol with a gap as failed and never as completed,
\* and reports success without errors only when every symbol is filled
\* (sync.py:487-518, 546-613).
THEOREM GapsAreReported == BulkSpec => []GapsAreNotCompleted
<1>1. JobInv => GapsAreNotCompleted
  <2> SUFFICES ASSUME JobInv, mode = "capital_flow_backfill", next > 1
               PROVE  /\ job.processed = job.completed + job.failed
                      /\ job.completed = Cardinality(filled)
                      /\ job.skipped <= job.completed
                      /\ job.status = "completed" => filled = 1..Symbols
    BY SameCardinality DEF GapsAreNotCompleted, C!GapsAreNotCompleted
  <2>1. FlowCounts /\ SuccessIsWhole /\ FlowTypes
    BY FlowTyped DEF JobInv, FlowInv
  <2>2. /\ job.processed = job.completed + job.failed
        /\ job.completed = Cardinality(filled)
        /\ job.skipped <= job.completed
    BY <2>1 DEF FlowCounts, NothingToDo
  <2>3. ASSUME job.status = "completed" PROVE filled = 1..Symbols
    <3>1. job.processed = Symbols /\ job.failed = 0 /\ job.completed \in Nat
      BY <2>1, <2>3 DEF SuccessIsWhole, Succeeded, FlowTypes, JobRecord
    <3>2. filled \subseteq 1..Symbols /\ Cardinality(filled) = Symbols
      BY <2>1, <2>2, <3>1 DEF FlowTypes
    <3>3. IsFiniteSet(1..Symbols) /\ Cardinality(1..Symbols) = Symbols
      BY FS_Interval
    <3> QED BY <3>2, <3>3, FS_Subset
  <2> QED BY <2>2, <2>3
<1> QED BY <1>1, JobInvHolds, PTL

-------------------------------------------------------------------------------
(* Either job does what JobLifecycle promises, step by step.                *)

\* A step that leaves what a client sees of the job as it is.
LEMMA Unseen ==
    ASSUME job'.status = job.status, next' = next,
           job'.processed = job.processed, job'.failed = job.failed
    PROVE  UNCHANGED Life!lifeVars
  BY DEF Life!lifeVars

\* Seen of a job that is written: the counters stay below what was begun.
LEMMA Finishes ==
    ASSUME next' = next, job'.processed = job.processed, job'.failed = job.failed,
           \/ job.status \in {"running", "cancelling"} /\ job'.status = "failed"
           \/ job.status = "cancelled" /\ job'.status = "failed"
           \/ job.status = "cancelling" /\ job'.status = "cancelled"
           \/ /\ job.status \in {"running", "cancelling"} /\ job.processed = Symbols
              /\ job'.status = IF job.failed > 0 THEN "completed_with_errors" ELSE "completed"
    PROVE  Life!LifeNext
  BY DEF Life!LifeNext, Life!Finish, Life!FailLate, Life!Live

LEMMA MarketImplements ==
    MarketInv /\ F!Next => Life!LifeNext \/ UNCHANGED Life!lifeVars
<1> SUFFICES ASSUME MarketInv, F!Next PROVE Life!LifeNext \/ UNCHANGED Life!lifeVars
  OBVIOUS
<1>0. MarketTypes /\ StatusIsKept(RowsWaiting) /\ CopyIsCurrent /\ MarketCounts
  BY MarketTyped DEF MarketInv
<1>a. pc \notin {"end", "flush", "count", "except"} =>
        \/ job.status = "running" /\ ~cancelled
        \/ job.status = "cancelling" /\ cancelled
  BY <1>0 DEF StatusIsKept, RowsWaiting
<1>b. pc # "end" => Begun \in Nat /\ Begun <= Symbols /\ Begun <= next - 1 /\ ~NothingToDo
                    /\ job.processed + Cardinality(futures) = Begun
  BY <1>0 DEF Begun, NothingToDo, MarketCounts, MarketTypes
<1>c. Cardinality(futures) \in Nat
  BY <1>0, FiniteParts DEF MarketTypes
<1> USE DEF F!jobVars, F!fmVars
<1>1. CASE F!Cancel
  <2>1. job.status = "running" /\ job' = [job EXCEPT !.status = "cancelling"] /\ next' = next
    BY <1>1 DEF F!Cancel, F!CancelJob
  <2>2. /\ job'.status = "cancelling" /\ job'.processed = job.processed
        /\ job'.failed = job.failed
    BY <1>0, <2>1 DEF MarketTypes, JobRecord
  <2> QED BY <2>1, <2>2 DEF Life!LifeNext, Life!Acknowledge
<1>2. CASE F!Snapshot
  <2>1. job' = job /\ next' = next
    BY <1>2 DEF F!Snapshot
  <2> QED BY <2>1, Unseen
<1>3. CASE F!StartBatch
  <2>1. job' = job /\ next' = next + BatchSize /\ pc = "batch" /\ next <= Symbols /\ ~cancelled
    BY <1>3 DEF F!StartBatch
  <2>2. job.status = "running" /\ next \in Nat
    BY <1>0, <1>a, <2>1 DEF MarketTypes
  <2>3. next - 1 < Symbols /\ next' - 1 = (next - 1) + BatchSize
    BY <2>1, <2>2
  <2> QED BY <2>1, <2>2, <2>3 DEF Life!LifeNext, Life!BeginBatch
<1>4. CASE F!CancelAtTop
  <2>1. cancelled /\ job' = [job EXCEPT !.status = "cancelled"] /\ next' = next
        /\ pc \in {"batch", "check"}
    BY <1>4 DEF F!CancelAtTop, F!FinishCancelled
  <2>2. /\ job'.status = "cancelled" /\ job'.processed = job.processed
        /\ job'.failed = job.failed /\ job.status = "cancelling"
    BY <1>0, <1>a, <2>1 DEF MarketTypes, JobRecord
  <2> QED BY <2>1, <2>2, Finishes
<1>5. CASE F!Take
  <2>1. job' = [job EXCEPT !.processed = job.processed + 1] /\ next' = next /\ pc = "take"
        /\ futures # {}
    BY <1>5 DEF F!Take
  <2>2. /\ job'.processed = job.processed + 1 /\ job'.failed = job.failed
        /\ job'.status = job.status /\ job.processed \in Nat /\ job.failed \in Nat
    BY <1>0, <2>1 DEF MarketTypes, JobRecord
  <2>3. Cardinality(futures) # 0
    BY <1>0, <2>1, FiniteParts, FS_EmptySet DEF MarketTypes
  <2>4. job.status \in {"running", "cancelling"}
    BY <1>a, <2>1
  <2>5. job.failed <= job.processed
    BY <1>0, <2>1, <2>2 DEF MarketCounts, MarketTypes, JobRecord
  <2>6. job'.processed \in job.processed..Symbols /\ job'.processed <= next - 1
        /\ job'.failed \in job.failed..Symbols /\ next' - 1 = next - 1
    BY <1>0, <1>b, <1>c, <2>1, <2>2, <2>3, <2>5 DEF MarketTypes
  <2> QED BY <2>2, <2>4, <2>6 DEF Life!LifeNext, Life!Progress, Life!Live
<1>6. CASE F!Settle
  <2>1. /\ next' = next /\ pc = "settle"
        /\ \/ job' = [job EXCEPT !.skipped = job.skipped + 1]
           \/ job' = [job EXCEPT !.failed = job.failed + 1]
           \/ job' = [job EXCEPT !.completed = job.completed + 1]
    BY <1>6 DEF F!Settle
  <2>2. /\ job'.processed = job.processed /\ job'.status = job.status
        /\ job.processed \in Nat /\ job.failed \in Nat /\ job.completed \in Nat
        /\ job.skipped \in Nat /\ (job'.failed = job.failed \/ job'.failed = job.failed + 1)
    BY <1>0, <2>1 DEF MarketTypes, JobRecord
  <2>3. job.status \in {"running", "cancelling"}
    BY <1>a, <2>1
  <2>4. job.failed + 1 <= job.processed
    BY <1>0, <2>1, <2>2 DEF MarketCounts
  <2>5. job'.processed \in job.processed..Symbols /\ job'.processed <= next - 1
        /\ job'.failed \in job.failed..Symbols /\ next' - 1 = next - 1
    BY <1>0, <1>b, <1>c, <2>1, <2>2, <2>4 DEF MarketTypes
  <2> QED BY <2>2, <2>3, <2>5 DEF Life!LifeNext, Life!Progress, Life!Live
<1>7. CASE F!Keep
  <2>1. job' = job /\ next' = next
    BY <1>7 DEF F!Keep
  <2> QED BY <2>1, Unseen
<1>8. CASE F!FlushWrite
  <2>1. job' = job /\ next' = next
    BY <1>8 DEF F!FlushWrite
  <2> QED BY <2>1, Unseen
<1>9. CASE F!FlushCount
  <2> DEFINE n == job.imported + Cardinality(frames)
  <2>1. job' = [job EXCEPT !.imported = n] /\ next' = next
    BY <1>9, SameCardinality DEF F!FlushCount
  <2> HIDE DEF n
  <2>2. job'.status = job.status /\ job'.processed = job.processed /\ job'.failed = job.failed
    BY <1>0, <2>1 DEF MarketTypes, JobRecord
  <2> QED BY <2>1, <2>2, Unseen
<1>10. CASE F!CancelAtBottom
  <2>1. cancelled /\ job' = [job EXCEPT !.status = "cancelled"] /\ next' = next
        /\ pc \in {"batch", "check"}
    BY <1>10 DEF F!CancelAtBottom, F!FinishCancelled
  <2>2. /\ job'.status = "cancelled" /\ job'.processed = job.processed
        /\ job'.failed = job.failed /\ job.status = "cancelling"
    BY <1>0, <1>a, <2>1 DEF MarketTypes, JobRecord
  <2> QED BY <2>1, <2>2, Finishes
<1>11. CASE F!NoCancelAtBottom
  <2>1. job' = job /\ next' = next
    BY <1>11 DEF F!NoCancelAtBottom
  <2> QED BY <2>1, Unseen
<1>12. CASE F!WrapUp
  <2>1. job' = job /\ next' = next
    BY <1>12 DEF F!WrapUp
  <2> QED BY <2>1, Unseen
<1>13. CASE F!GetFinal
  <2>1. job' = job /\ next' = next
    BY <1>13 DEF F!GetFinal, F!FinalCopy
  <2> QED BY <2>1, Unseen
<1>14. CASE F!PutFinal
  <2>1. job' = final /\ next' = next /\ pc = "storefinal"
    BY <1>14 DEF F!PutFinal, F!StoreFinal
  <2>2. /\ job'.processed = job.processed /\ job'.failed = job.failed
        /\ job'.status = IF job.failed > 0 THEN "completed_with_errors" ELSE "completed"
    BY <1>0, <2>1 DEF CopyIsCurrent
  <2>3. job.processed = Symbols
    <3>1. futures = {} /\ next > Symbols
      BY <1>0, <2>1 DEF MarketCounts, Ending
    <3>2. Cardinality(futures) = 0
      BY <3>1, FS_EmptySet
    <3> QED BY <1>0, <1>b, <2>1, <3>1, <3>2 DEF Begun, MarketTypes, JobRecord
  <2>4. job.status \in {"running", "cancelling"}
    BY <1>a, <2>1
  <2> QED BY <2>1, <2>2, <2>3, <2>4, Finishes
<1>15. CASE F!Except
  <2>1. job' = [job EXCEPT !.status = "failed"] /\ next' = next /\ pc = "except"
    BY <1>15 DEF F!Except, F!FailJob
  <2>2. job'.status = "failed" /\ job'.processed = job.processed /\ job'.failed = job.failed
    BY <1>0, <2>1 DEF MarketTypes, JobRecord
  <2>3. job.status \in {"running", "cancelling", "cancelled"}
    BY <1>0, <2>1 DEF StatusIsKept
  <2> QED BY <2>1, <2>2, <2>3, Finishes
<1> QED BY <1>1, <1>2, <1>3, <1>4, <1>5, <1>6, <1>7, <1>8, <1>9, <1>10, <1>11, <1>12, <1>13, <1>14, <1>15 DEF F!Next, F!Worker

LEMMA FlowImplements ==
    FlowInv /\ FlowInv' /\ C!Next => Life!LifeNext \/ UNCHANGED Life!lifeVars
<1> SUFFICES ASSUME FlowInv, FlowInv', C!Next
             PROVE  Life!LifeNext \/ UNCHANGED Life!lifeVars
  OBVIOUS
<1>0. FlowTypes /\ StatusIsKept(FALSE) /\ CopyIsCurrent /\ FlowCounts
  BY FlowTyped DEF FlowInv
<1>a. pc # "end" =>
        \/ job.status = "running" /\ ~cancelled
        \/ job.status = "cancelling" /\ cancelled
  BY <1>0 DEF StatusIsKept
<1>b. pc # "end" => ~NothingToDo
  BY DEF NothingToDo
<1>c. FlowTypes' /\ FlowCounts'
  <2>1. C!TypeOK' <=> FlowTypes'
    BY FlowTyped, PTL
  <2> QED BY <2>1 DEF FlowInv
<1> USE DEF C!jobVars, C!cfVars
<1>1. CASE C!Cancel
  <2>1. job.status = "running" /\ job' = [job EXCEPT !.status = "cancelling"] /\ next' = next
    BY <1>1 DEF C!Cancel, C!CancelJob
  <2>2. /\ job'.status = "cancelling" /\ job'.processed = job.processed
        /\ job'.failed = job.failed
    BY <1>0, <2>1 DEF FlowTypes, JobRecord
  <2> QED BY <2>1, <2>2 DEF Life!LifeNext, Life!Acknowledge
<1>2. CASE C!NotConfigured
  <2>1. job' = job /\ next' = next
    BY <1>2 DEF C!NotConfigured
  <2> QED BY <2>1, Unseen
<1>3. CASE C!StartBatch
  <2>1. job' = job /\ next' = next + BatchSize /\ pc = "batch" /\ next <= Symbols /\ ~cancelled
    BY <1>3 DEF C!StartBatch
  <2>2. job.status = "running" /\ next \in Nat
    BY <1>0, <1>a, <2>1 DEF FlowTypes
  <2>3. next - 1 < Symbols /\ next' - 1 = (next - 1) + BatchSize
    BY <2>1, <2>2
  <2> QED BY <2>1, <2>2, <2>3 DEF Life!LifeNext, Life!BeginBatch
<1>4. CASE C!FetchBatch
  <2>1. /\ \E p, f \in Nat :
              /\ job'.processed = job.processed + p /\ job'.failed = job.failed + f
        /\ job'.status = job.status
    <3> DEFINE B == C!Batch
    <3>1. PICK r \in C!Results(B) :
              job' = [job EXCEPT
                    !.processed = job.processed + Cardinality(B),
                    !.completed = job.completed + Cardinality(C!CompletedSymbols(B, r)),
                    !.failed    = job.failed + Cardinality(C!FailureReasons(B, r)),
                    !.skipped   = job.skipped + Cardinality(r.skipped),
                    !.imported  = job.imported + Cardinality(r.fetched)]
      BY <1>4, SameCardinality DEF C!FetchBatch
    <3>2. B \in SUBSET (1..Symbols) /\ Cardinality(B) \in Nat
      BY <1>4, FlowBatch DEF C!FetchBatch
    <3>3. Cardinality(C!FailureReasons(B, r)) \in Nat
      BY <3>2, CompletedOrFailed
    <3> DEFINE all == Cardinality(B)  cw == Cardinality(C!FailureReasons(B, r))
    <3>4. /\ job'.processed = job.processed + all /\ job'.failed = job.failed + cw
          /\ job'.status = job.status /\ all \in Nat /\ cw \in Nat
      BY <1>0, <3>1, <3>2, <3>3 DEF FlowTypes, JobRecord
    <3> HIDE DEF all, cw
    <3> QED BY <3>4
  <2>2. pc = "fetch" /\ pc' = "check" /\ next' = next
    BY <1>4 DEF C!FetchBatch
  <2>3. job.status \in {"running", "cancelling"}
    BY <1>a, <2>2
  <2>4. ~NothingToDo' /\ FlowBegun' <= Symbols /\ FlowBegun' <= next - 1
    BY <1>0, <2>2 DEF NothingToDo, FlowBegun, Begun, FlowTypes
  <2>5. /\ job.processed \in Nat /\ job.failed \in Nat /\ job'.processed \in Nat
        /\ job'.failed \in Nat /\ job'.completed \in Nat
    BY <1>0, <1>c DEF FlowTypes, JobRecord
  <2>6. job'.processed = FlowBegun' /\ job'.processed = job'.completed + job'.failed
    BY <1>c, <2>4 DEF FlowCounts
  <2>7. job'.processed \in job.processed..Symbols /\ job'.processed <= next - 1
        /\ job'.failed \in job.failed..Symbols
    BY <2>1, <2>4, <2>5, <2>6
  <2>8. next' - 1 = next - 1
    BY <2>2
  <2> QED BY <2>1, <2>3, <2>7, <2>8 DEF Life!LifeNext, Life!Progress, Life!Live
<1>5. CASE C!BatchRaises
  <2>1. /\ \E p, f \in Nat :
              /\ job'.processed = job.processed + p /\ job'.failed = job.failed + f
        /\ job'.status = job.status
    <3> DEFINE all == Cardinality(C!Batch)
    <3>1. job' = [job EXCEPT !.processed = job.processed + all, !.failed = job.failed + all]
      BY <1>5, SameCardinality DEF C!BatchRaises
    <3>2. all \in Nat
      BY <1>5, FlowBatch DEF C!BatchRaises
    <3> HIDE DEF all
    <3>3. /\ job'.processed = job.processed + all /\ job'.failed = job.failed + all
          /\ job'.status = job.status
      BY <1>0, <3>1 DEF FlowTypes, JobRecord
    <3> QED BY <3>2, <3>3
  <2>2. pc = "fetch" /\ pc' = "check" /\ next' = next
    BY <1>5 DEF C!BatchRaises
  <2>3. job.status \in {"running", "cancelling"}
    BY <1>a, <2>2
  <2>4. ~NothingToDo' /\ FlowBegun' <= Symbols /\ FlowBegun' <= next - 1
    BY <1>0, <2>2 DEF NothingToDo, FlowBegun, Begun, FlowTypes
  <2>5. /\ job.processed \in Nat /\ job.failed \in Nat /\ job'.processed \in Nat
        /\ job'.failed \in Nat /\ job'.completed \in Nat
    BY <1>0, <1>c DEF FlowTypes, JobRecord
  <2>6. job'.processed = FlowBegun' /\ job'.processed = job'.completed + job'.failed
    BY <1>c, <2>4 DEF FlowCounts
  <2>7. job'.processed \in job.processed..Symbols /\ job'.processed <= next - 1
        /\ job'.failed \in job.failed..Symbols
    BY <2>1, <2>4, <2>5, <2>6
  <2>8. next' - 1 = next - 1
    BY <2>2
  <2> QED BY <2>1, <2>3, <2>7, <2>8 DEF Life!LifeNext, Life!Progress, Life!Live
<1>6. CASE C!CancelSeen
  <2>1. cancelled /\ job' = [job EXCEPT !.status = "cancelled"] /\ next' = next
        /\ pc \in {"batch", "check"}
    BY <1>6 DEF C!CancelSeen, C!FinishCancelled
  <2>2. /\ job'.status = "cancelled" /\ job'.processed = job.processed
        /\ job'.failed = job.failed /\ job.status = "cancelling"
    BY <1>0, <1>a, <2>1 DEF FlowTypes, JobRecord
  <2> QED BY <2>1, <2>2, Finishes
<1>7. CASE C!NoCancelSeen
  <2>1. job' = job /\ next' = next
    BY <1>7 DEF C!NoCancelSeen
  <2> QED BY <2>1, Unseen
<1>8. CASE C!GetFinal
  <2>1. job' = job /\ next' = next
    BY <1>8 DEF C!GetFinal, C!FinalCopy
  <2> QED BY <2>1, Unseen
<1>9. CASE C!PutFinal
  <2>1. job' = final /\ next' = next /\ pc = "storefinal"
    BY <1>9 DEF C!PutFinal, C!StoreFinal
  <2>2. /\ job'.processed = job.processed /\ job'.failed = job.failed
        /\ job'.status = IF job.failed > 0 THEN "completed_with_errors" ELSE "completed"
    BY <1>0, <2>1 DEF CopyIsCurrent
  <2>3. job.processed = Symbols
    BY <1>0, <1>b, <2>1 DEF FlowCounts, FlowBegun, Begun, FlowTypes, JobRecord
  <2>4. job.status \in {"running", "cancelling"}
    BY <1>a, <2>1
  <2> QED BY <2>1, <2>2, <2>3, <2>4, Finishes
<1>10. CASE C!Except
  <2>1. job' = [job EXCEPT !.status = "failed"] /\ next' = next /\ pc = "except"
    BY <1>10 DEF C!Except, C!FailJob
  <2>2. job'.status = "failed" /\ job'.processed = job.processed /\ job'.failed = job.failed
    BY <1>0, <2>1 DEF FlowTypes, JobRecord
  <2>3. job.status \in {"running", "cancelling", "cancelled"}
    BY <1>0, <2>1 DEF StatusIsKept
  <2> QED BY <2>1, <2>2, <2>3, Finishes
<1> QED BY <1>1, <1>2, <1>3, <1>4, <1>5, <1>6, <1>7, <1>8, <1>9, <1>10 DEF C!Next, C!Worker

\* Every job, of either kind and of any size, keeps the safety part of the promise:
\* no batch begins after a cancel was acknowledged, progress only grows and never
\* beyond the symbols handed out, and the job ends once, as completed only with all
\* symbols processed (sync.py:201-248, 256-257, 308-325, 471-472, 520-533).
THEOREM JobsKeepTheirPromise ==
    BulkSpec => Life!LifeInit /\ [][Life!LifeNext]_(Life!lifeVars)
<1>1. BulkInit => Life!LifeInit
  <2> SUFFICES ASSUME BulkInit PROVE Life!LifeInit
    OBVIOUS
  <2>1. PICK needed \in BOOLEAN :
          job = [status |-> IF needed THEN "running" ELSE "completed",
                 processed |-> IF needed THEN 0 ELSE Symbols, completed |-> 0, failed |-> 0,
                 skipped |-> IF needed THEN 0 ELSE Symbols, imported |-> 0]
    BY DEF BulkInit, Init, F!Init, C!Init, F!JobInit, C!JobInit
  <2>2. next = 1
    BY DEF BulkInit, Init, F!Init, C!Init, F!JobInit, C!JobInit
  <2>3. /\ job.status = (IF needed THEN "running" ELSE "completed")
        /\ job.processed = (IF needed THEN 0 ELSE Symbols) /\ job.failed = 0
    BY <2>1
  <2> QED BY <2>2, <2>3 DEF Life!LifeInit
<1>2. JobInv /\ JobInv' /\ [BulkNext]_bulkVars => [Life!LifeNext]_(Life!lifeVars)
  <2> SUFFICES ASSUME JobInv, JobInv', [BulkNext]_bulkVars
               PROVE  Life!LifeNext \/ UNCHANGED Life!lifeVars
    OBVIOUS
  <2>1. CASE MarketStep
    BY <2>1, MarketImplements DEF JobInv, MarketStep
  <2>2. CASE FlowStep
    BY <2>2, FlowImplements DEF JobInv, FlowStep
  <2>3. CASE UNCHANGED vars
    BY <2>3 DEF vars, jobVars, Life!lifeVars
  <2>4. MarketStep \/ FlowStep \/ UNCHANGED vars
    BY DEF BulkNext, JobStep, ImportStep, BackfillStep, Next, bulkVars
  <2> QED BY <2>1, <2>2, <2>3, <2>4
<1> QED BY <1>1, <1>2, JobInvHolds, PTL DEF BulkSpec

\* What the promise means to a client that polls: "completed", with errors or without,
\* says that every symbol was processed, and a status that ends the polling is the last
\* one, but for a job that was cancelled and then could not write what it had fetched
\* (sync.py:308-325, 471-472, 520-533; SyncJobStatus, models.py).
THEOREM EndedJobsStayEnded ==
    BulkSpec => /\ [](job.status \in {"completed", "completed_with_errors"} =>
                        job.processed = Symbols)
                /\ [][job.status \notin Life!Live =>
                         \/ UNCHANGED <<job.status, job.processed, job.failed>>
                         \/ job.status = "cancelled" /\ job.status' = "failed"]_bulkVars
<1> DEFINE AllProcessed == job.status \in {"completed", "completed_with_errors"} =>
                             job.processed = Symbols
           StaysEnded == job.status \notin Life!Live =>
                           \/ UNCHANGED <<job.status, job.processed, job.failed>>
                           \/ job.status = "cancelled" /\ job.status' = "failed"
<1>1. Life!LifeInit => AllProcessed
  BY DEF Life!LifeInit
<1>2. AllProcessed /\ [Life!LifeNext]_(Life!lifeVars) => AllProcessed' /\ StaysEnded
  BY DEF Life!LifeNext, Life!lifeVars, Life!Live, Life!Acknowledge, Life!BeginBatch,
         Life!Progress, Life!Finish, Life!FailLate
<1> HIDE DEF AllProcessed, StaysEnded
<1>3. BulkSpec => []AllProcessed /\ [][StaysEnded]_bulkVars
  BY <1>1, <1>2, JobsKeepTheirPromise, PTL
<1> QED BY <1>3 DEF AllProcessed, StaysEnded

-------------------------------------------------------------------------------
(* The import script: a line says no more than what was written.            *)

\* Before the lines of a batch are appended its rows are in the warehouse.
ImportInv ==
    script = "import" =>
        /\ recorded \subseteq imported
        /\ place = "record" => batch \subseteq imported

LEMMA ImportKeeps == ImportInv /\ ImportStep => ImportInv'
<1> SUFFICES ASSUME ImportInv, ImportStep
             PROVE  recorded' \subseteq imported' /\ (place' = "record" => batch' \subseteq imported')
  BY DEF ImportInv
<1>0. /\ recorded \subseteq imported /\ (place = "record" => batch \subseteq imported)
      /\ Import!Next
  BY DEF ImportInv, ImportStep
<1> USE DEF Import!logVars, Import!runVars, Import!AppendLine
<1>1. CASE \E b \in BOOLEAN : Import!LoadSymbols(b)
  BY <1>0, <1>1 DEF Import!LoadSymbols
<1>2. CASE \E b \in BOOLEAN : Import!Begin(b)
  BY <1>0, <1>2 DEF Import!Begin
<1>3. CASE Import!WriteList
  BY <1>0, <1>3 DEF Import!WriteList
<1>4. CASE Import!Write
  BY <1>0, <1>4 DEF Import!Write
<1>5. CASE Import!WriteRaises
  BY <1>0, <1>5 DEF Import!WriteRaises
<1>6. CASE Import!LastFlush
  BY <1>0, <1>6 DEF Import!LastFlush
<1>7. CASE Import!Finish
  BY <1>0, <1>7 DEF Import!Finish
<1>8. CASE Import!Crash
  BY <1>0, <1>8 DEF Import!Crash, Import!DieWhileAppending
<1>9. CASE \E s \in Market : Import!Collect(s)
  BY <1>0, <1>9 DEF Import!Collect
<1>10. CASE \E s \in Market : Import!Record(s)
  BY <1>0, <1>10 DEF Import!Record
<1> QED
  BY <1>0, <1>1, <1>2, <1>3, <1>4, <1>5, <1>6, <1>7, <1>8, <1>9, <1>10 DEF Import!Next

\* Wherever an import crashed, a symbol its next run leaves out because of a line
\* of the progress file has its rows in the warehouse
\* (run-full-market-import.py: flush_batch, load_completed_symbols).
THEOREM LinesFollowRows == BulkSpec => []RecordedIsStored
<1>1. BulkInit => ImportInv
  BY DEF BulkInit, ImportInv, Import!Init, Import!LogInit
<1>2. ImportInv /\ [BulkNext]_bulkVars => ImportInv'
  <2>1. ImportInv /\ JobStep => ImportInv'
    BY DEF ImportInv, JobStep, scriptVars
  <2>2. ImportInv /\ BackfillStep => ImportInv'
    BY DEF ImportInv, BackfillStep
  <2>3. ImportInv /\ UNCHANGED bulkVars => ImportInv'
    BY DEF ImportInv, bulkVars, scriptVars, importVars
  <2> QED BY <2>1, <2>2, <2>3, ImportKeeps DEF BulkNext
<1>3. ImportInv => RecordedIsStored
  BY DEF ImportInv, RecordedIsStored, Import!RecordedIsStored
<1> QED BY <1>1, <1>2, <1>3, PTL DEF BulkSpec

-------------------------------------------------------------------------------
(* The backfill script and the job judge one report alike.                  *)

\* Every symbol of the batch has a report of some kind.
ReportInv == \A s \in DOMAIN result : result[s] \in Backfill!Kinds

LEMMA ReportKeeps == ReportInv /\ BackfillStep => ReportInv'
<1> SUFFICES ASSUME ReportInv, Backfill!Next PROVE ReportInv'
  BY DEF BackfillStep
<1>a. ReportInv
  OBVIOUS
<1>b. DOMAIN Backfill!NoResult = {}
  BY DEF Backfill!NoResult
<1>1. CASE \E b \in BOOLEAN : Backfill!Begin(b)
  BY <1>b, <1>1 DEF Backfill!Begin, ReportInv
<1>2. CASE Backfill!FetchBatch
  <2>1. result' \in [Backfill!Batch -> Backfill!Kinds]
    BY <1>2 DEF Backfill!FetchBatch
  <2> QED BY <2>1 DEF ReportInv
<1>3. CASE Backfill!CrawlerRaises
  BY <1>3 DEF Backfill!CrawlerRaises, ReportInv, Backfill!Kinds
<1>4. CASE Backfill!BatchRaises
  BY <1>4 DEF Backfill!BatchRaises, ReportInv, Backfill!Kinds
<1>5. CASE Backfill!Finish
  BY <1>a, <1>5 DEF Backfill!Finish, ReportInv
<1>6. CASE \E s \in Market : Backfill!Record(s)
  <2>1. PICK s \in Market : result' = [t \in DOMAIN result \ {s} |-> result[t]]
    BY <1>6 DEF Backfill!Record
  <2> QED BY <1>a, <2>1 DEF ReportInv
<1>7. CASE Backfill!Crash
  BY <1>b, <1>7 DEF Backfill!Crash, ReportInv
<1> QED BY <1>1, <1>2, <1>3, <1>4, <1>5, <1>6, <1>7
        DEF Backfill!Next, Backfill!Run, Backfill!Step

\* For every batch and every report of it, the script records a symbol as complete
\* exactly when the job would count it as completed, but for short rows of Sina's
\* (sync.py:573-613, run-capital-flow-backfill.py:197-227).
THEOREM OneReportOneAnswer == BulkSpec => []ScriptAgreesWithJob
<1>1. BulkInit => ReportInv
  BY DEF BulkInit, ReportInv, NoBackfill, Backfill!Init, Backfill!NoResult
<1>2. ReportInv /\ [BulkNext]_bulkVars => ReportInv'
  <2>1. ReportInv /\ JobStep => ReportInv'
    BY DEF ReportInv, JobStep, scriptVars, backfillVars
  <2>2. ReportInv /\ ImportStep => ReportInv'
    BY DEF ReportInv, ImportStep, backfillVars
  <2>3. ReportInv /\ UNCHANGED bulkVars => ReportInv'
    BY DEF ReportInv, bulkVars, scriptVars, backfillVars
  <2> QED BY <2>1, <2>2, <2>3, ReportKeeps DEF BulkNext
<1>3. ReportInv => ScriptAgreesWithJob
  <2> SUFFICES ASSUME ReportInv, ~anonymous, NEW s \in DOMAIN result,
                      result[s] \notin {"shortSina", "returnedSina"}
               PROVE  Backfill!IsComplete(result, anonymous, s)
                        <=> s \in C!CompletedSymbols(DOMAIN result, ReportOf(result))
    BY DEF ScriptAgreesWithJob
  <2> DEFINE r == ReportOf(result)
  <2>1. result[s] \in Backfill!Kinds
    BY DEF ReportInv
  <2>2. /\ s \in r.skipped <=> result[s] = "skipped"
        /\ s \in r.fetched <=> result[s] \in Backfill!Kinds \ {"skipped", "failed", "nothing"}
        /\ s \in r.failures <=> result[s] = "failed"
        /\ s \in r.shortfall <=> result[s] = "short"
    BY <2>1 DEF ReportOf, Backfill!Kinds
  <2>3. s \in C!CompletedSymbols(DOMAIN result, r)
          <=> /\ s \in r.fetched \/ s \in r.skipped
              /\ s \notin r.failures /\ s \notin r.shortfall
    BY DEF C!CompletedSymbols, C!FailureReasons, C!Missing
  <2>4. Backfill!IsComplete(result, anonymous, s)
          <=> result[s] \notin {"failed", "short", "nothing"}
    BY DEF Backfill!IsComplete
  <2> HIDE DEF r
  <2>5. s \in C!CompletedSymbols(DOMAIN result, r)
          <=> result[s] \notin {"failed", "short", "nothing"}
    BY <2>1, <2>2, <2>3 DEF Backfill!Kinds
  <2> QED BY <2>4, <2>5 DEF r
<1> QED BY <1>1, <1>2, <1>3, PTL DEF BulkSpec

-------------------------------------------------------------------------------
(* The backfill script: no run forgets a symbol.                            *)

\* A line that a resumed run counts says of a symbol that has a source that its flows
\* are in the warehouse, unless its gaps went unnoticed; and so does a report of which
\* such a line will be made.
Counts(s) ==
    Backfill!IsComplete(result, anonymous, s) /\ Backfill!CountsAtResume(result[s])

BackfillInv ==
    script = "backfill" =>
        /\ recorded \ bad \subseteq filledIn \cup patchy
        /\ place = "record" =>
             \A s \in DOMAIN result \ bad : Counts(s) => s \in filledIn \cup patchy

LEMMA BackfillKeeps == BackfillInv /\ BackfillStep => BackfillInv'
<1> DEFINE Known == filledIn \cup patchy
           Lines == recorded \ bad \subseteq Known
           Batches == \A s \in DOMAIN result \ bad : Counts(s) => s \in Known
<1> SUFFICES ASSUME BackfillInv, BackfillStep
             PROVE  Lines' /\ (place' = "record" => Batches')
  BY DEF BackfillInv
<1>0. Lines /\ (place = "record" => Batches) /\ Backfill!Next
  BY DEF BackfillInv, BackfillStep
<1> USE DEF Backfill!logVars, Backfill!AppendLine
<1>1. CASE \E b \in BOOLEAN : Backfill!Begin(b)
  BY <1>0, <1>1 DEF Backfill!Begin
<1>2. CASE Backfill!FetchBatch
  <2>1. PICK short \in SUBSET ((Backfill!Batch \ bad) \ filledIn) :
          /\ result' \in [Backfill!Batch -> Backfill!Kinds]
          /\ \A s \in Backfill!Batch : result'[s] \in Backfill!Reports(s, short)
          /\ filledIn' = filledIn \cup ((Backfill!Batch \ bad) \ short)
          /\ patchy' = patchy \cup {s \in short : result'[s] \in Backfill!Unnoticed}
    BY <1>2 DEF Backfill!FetchBatch
  <2>2. UNCHANGED <<recorded, bad>> /\ anonymous' = FALSE
    BY <1>2 DEF Backfill!FetchBatch
  <2>3. DOMAIN result' = Backfill!Batch
    BY <2>1
  <2>4. ASSUME NEW s \in Backfill!Batch, s \notin bad, Counts(s)' PROVE s \in Known'
    <3>1. CASE s \notin short
      BY <2>1, <2>4, <3>1
    <3>2. CASE s \in short
      <4>1. result'[s] \in Backfill!Kinds \ {"knownGap", "skipped"}
        BY <2>1, <2>4, <3>2 DEF Backfill!Reports
      <4>2. result'[s] \notin {"failed", "short", "nothing", "returned", "returnedSina"}
        BY <2>4 DEF Counts, Backfill!IsComplete, Backfill!CountsAtResume
      <4>3. result'[s] \in Backfill!Unnoticed
        BY <4>1, <4>2 DEF Backfill!Kinds, Backfill!Unnoticed
      <4> QED BY <2>1, <3>2, <4>3
    <3> QED BY <3>1, <3>2
  <2> QED BY <1>0, <2>1, <2>2, <2>3, <2>4
<1>3. CASE Backfill!CrawlerRaises
  BY <1>0, <1>3 DEF Backfill!CrawlerRaises, Backfill!IsComplete, Counts
<1>4. CASE Backfill!BatchRaises
  <2>1. /\ result' = [s \in Backfill!Batch |-> "failed"] /\ UNCHANGED <<recorded, bad, patchy>>
        /\ filledIn \subseteq filledIn'
    BY <1>4 DEF Backfill!BatchRaises, Backfill!FillsSome
  <2> QED BY <1>0, <2>1 DEF Backfill!IsComplete, Counts
<1>5. CASE Backfill!Finish
  BY <1>0, <1>5 DEF Backfill!Finish
<1>6. ASSUME NEW s \in Market, Backfill!Record(s) PROVE Lines' /\ (place' = "record" => Batches')
  <2>1. /\ place = "record" /\ UNCHANGED <<anonymous, filledIn, bad, patchy>>
        /\ result' = [t \in DOMAIN result \ {s} |-> result[t]]
    BY <1>6 DEF Backfill!Record
  <2>2. s \in DOMAIN result /\ \A t \in recorded' : t \in recorded \/ (t = s /\ Counts(s))
    BY <1>6 DEF Backfill!Record, Counts
  <2>3. Lines'
    BY <1>0, <2>1, <2>2
  <2>4. Batches'
    BY <1>0, <2>1 DEF Backfill!IsComplete, Counts
  <2> QED BY <2>3, <2>4
<1>7. CASE Backfill!Crash
  <2>1. UNCHANGED <<recorded, bad, patchy>> /\ filledIn \subseteq filledIn' /\ place' = "idle"
    BY <1>7 DEF Backfill!Crash, Backfill!DieWhileAppending, Backfill!FillsSome
  <2> QED BY <1>0, <2>1
<1> QED BY <1>0, <1>1, <1>2, <1>3, <1>4, <1>5, <1>6, <1>7
        DEF Backfill!Next, Backfill!Run, Backfill!Step

LEMMA BackfillInvHolds == BulkSpec => []BackfillInv
<1>1. BulkInit => BackfillInv
  BY DEF BulkInit, BackfillInv, Backfill!Init, Backfill!LogInit
<1>2. BackfillInv /\ [BulkNext]_bulkVars => BackfillInv'
  <2>1. BackfillInv /\ JobStep => BackfillInv'
    BY DEF BackfillInv, JobStep, scriptVars
  <2>2. BackfillInv /\ ImportStep => BackfillInv'
    BY DEF BackfillInv, ImportStep
  <2>3. BackfillInv /\ UNCHANGED bulkVars => BackfillInv'
    BY DEF BackfillInv, bulkVars, scriptVars, backfillVars, Backfill!IsComplete, Counts
  <2> QED BY <2>1, <2>2, <2>3, BackfillKeeps DEF BulkNext
<1> QED BY <1>1, <1>2, PTL DEF BulkSpec

\* However often the backfill was resumed, gave up, lost a batch, was answered with less
\* than the sources have or died while it wrote a line, the next run takes up every
\* symbol that has a source and still lacks its flows; all the progress file can hide is
\* a symbol whose gaps the report took for complete.  It is what keeps OthersAreFilled
\* from failing for good (run-capital-flow-backfill.py: load_completed_symbols,
\* operation_completion, select_missing_symbols_from_warehouse).
THEOREM NoSymbolIsForgotten ==
    BulkSpec => [][\A resume \in BOOLEAN :
                     script = "backfill" /\ Backfill!Begin(resume) =>
                       (Market \ bad) \ (filledIn \cup (patchy \cap recorded))
                         \subseteq todo']_bulkVars
<1>1. BackfillInv =>
        \A resume \in BOOLEAN :
          script = "backfill" /\ Backfill!Begin(resume) =>
            (Market \ bad) \ (filledIn \cup (patchy \cap recorded)) \subseteq todo'
  <2> SUFFICES ASSUME BackfillInv, NEW resume \in BOOLEAN, script = "backfill",
                      Backfill!Begin(resume), NEW s \in Market, s \notin bad,
                      s \notin filledIn, s \notin patchy \cap recorded
               PROVE  s \in todo'
    OBVIOUS
  <2>1. PICK others \in {{}, Market} :
          todo' = Backfill!Selected(Backfill!Completed(resume), others)
    BY DEF Backfill!Begin
  <2>2. s \notin Backfill!Completed(resume)
    BY DEF BackfillInv, Backfill!Completed
  <2> QED BY <2>1, <2>2 DEF Backfill!Selected
<1> QED BY <1>1, BackfillInvHolds, PTL DEF BulkSpec
===============================================================================
