---------------------------- MODULE PartitionStore ----------------------------
(***************************************************************************)
(* What the daily-bars warehouse promises to the code that writes it.      *)
(*                                                                         *)
(* The warehouse is a set of year partitions.  A write request is a batch  *)
(* of rows for one or more years.  The promise of write_daily_bars is that *)
(* each year of the batch is merged into its partition in ONE step, on the *)
(* contents the partition has at that moment, and that nothing else ever   *)
(* changes a partition.  A request may stop after any of its years; it     *)
(* never touches an unreadable partition.                                  *)
(***************************************************************************)
EXTENDS Naturals, FiniteSets

CONSTANTS
    Writers,    \* threads that call write_daily_bars, in any process
    Years,      \* the year partitions
    Cells,      \* (symbol, trade_date, column) positions of one partition
    Values,     \* the values a cell can hold
    NaN,        \* the missing value of a cell
    Absent,     \* the contents of a file that does not exist
    Torn,       \* the contents of a file that cannot be parsed
    Batches     \* the batches the workload submits

VARIABLES
    store,      \* the contents of each partition
    batch,      \* the rows each writer is writing
    todo        \* the years of its batch each writer has not written yet

storeVars == <<store, batch, todo>>

-------------------------------------------------------------------------------

Content == [Cells -> Values \cup {NaN}]

File == Content \cup {Absent, Torn}

\* A batch has rows for some years and none for the others.
Batch == [Years -> Content \cup {Absent}]

YearsOf(b) == {y \in Years : b[y] # Absent}

\* DataFrame.combine_first: a value of the new rows wins, a gap of the new
\* rows keeps what the partition has.
Merge(new, current) ==
    IF current = Absent
    THEN new
    ELSE [c \in Cells |-> IF new[c] # NaN THEN new[c] ELSE current[c]]

\* groupby("year") yields the years in ascending order.
IsFirst(y, S) == y \in S /\ \A z \in S : y <= z

ASSUME StoreAssumption ==
    /\ Years \subseteq Nat
    /\ NaN \notin Values
    /\ Absent \notin Content
    /\ Torn \notin Content
    /\ Absent # Torn
    /\ Batches \subseteq Batch
    /\ \A b \in Batches : YearsOf(b) # {}

-------------------------------------------------------------------------------

NoRows == [y \in Years |-> Absent]

StoreInit ==
    /\ store \in [Years -> {Absent, Torn}]
    /\ batch = [w \in Writers |-> NoRows]
    /\ todo = [w \in Writers |-> {}]

\* A writer hands in a batch.
StoreSubmit(w) ==
    /\ todo[w] = {}
    /\ \E b \in Batches :
          /\ batch' = [batch EXCEPT ![w] = b]
          /\ todo' = [todo EXCEPT ![w] = YearsOf(b)]
    /\ UNCHANGED store

\* The next year of the batch is merged into its partition.
StoreUpsert(w) ==
    /\ \E y \in Years :
          /\ IsFirst(y, todo[w])
          /\ store[y] # Torn
          /\ store' = [store EXCEPT ![y] = Merge(batch[w][y], @)]
          /\ todo' = [todo EXCEPT ![w] = @ \ {y}]
    /\ UNCHANGED batch

\* Calls end and give up what is left of their batches: nothing is left of a
\* call that wrote every year, and something of one that met a lock timeout, a
\* failed write, an unreadable partition, or the death of its process.
StoreEnd(W) ==
    /\ batch' = [w \in Writers |-> IF w \in W THEN NoRows ELSE batch[w]]
    /\ todo' = [w \in Writers |-> IF w \in W THEN {} ELSE todo[w]]
    /\ UNCHANGED store

StoreNext ==
    \/ \E w \in Writers : StoreSubmit(w) \/ StoreUpsert(w)
    \/ \E W \in SUBSET Writers : StoreEnd(W)

StoreSpec == StoreInit /\ [][StoreNext]_storeVars
===============================================================================
