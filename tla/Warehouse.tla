------------------------------ MODULE Warehouse -------------------------------
(***************************************************************************)
(* DailyWarehouse.write_daily_bars (data/warehouse.py) under               *)
(* CrossProcessFileLock (data/filelock.py).                                *)
(*                                                                         *)
(* Writers are threads: those of the desktop sidecar and those of the      *)
(* maintenance scripts share the partition files, and a lock file next to  *)
(* each partition is all that keeps them apart.  The temporary file of a   *)
(* write is named after the partition and the process, so two threads of   *)
(* one process would share it.  Readers take no lock.                      *)
(***************************************************************************)
EXTENDS PartitionStore

CONSTANTS
    Procs,      \* operating-system processes
    ProcOf,     \* the process each writer runs in
    NoWriter    \* the owner of a free lock

VARIABLES
    lock,       \* lock[y]: who holds <partition>.lock
    tmp,        \* tmp[y][p]: contents of <partition>.<pid>.tmp
    pc,         \* where each writer is in write_daily_bars
    year,       \* the partition the writer's loop is at
    merged,     \* the frame the writer is about to write
    noted       \* noted[p]: the corrupt_partitions of process p

vars == <<store, batch, todo, lock, tmp, pc, year, merged, noted>>

ASSUME WarehouseAssumption ==
    /\ ProcOf \in [Writers -> Procs]
    /\ NoWriter \notin Writers
    /\ Years # {}

-------------------------------------------------------------------------------

Labels == {"idle", "locking", "read", "write", "writing", "replace", "release",
           "unwind", "register"}

\* The labels at which a writer is inside the "with CrossProcessFileLock" block.
Inside == {"read", "write", "writing", "replace", "release", "unwind"}

TmpOf(w) == tmp[year[w]][ProcOf[w]]

SetTmp(w, contents) == tmp' = [tmp EXCEPT ![year[w]][ProcOf[w]] = contents]

GoTo(w, label) == pc' = [pc EXCEPT ![w] = label]

SomeYear == CHOOSE y \in Years : TRUE

\* write_daily_bars returns or raises: its local variables are gone.
EndCalls(W) ==
    /\ StoreEnd(W)
    /\ pc' = [w \in Writers |-> IF w \in W THEN "idle" ELSE pc[w]]
    /\ year' = [w \in Writers |-> IF w \in W THEN SomeYear ELSE year[w]]
    /\ merged' = [w \in Writers |-> IF w \in W THEN Absent ELSE merged[w]]

Init ==
    /\ StoreInit
    /\ lock = [y \in Years |-> NoWriter]
    /\ tmp = [y \in Years |-> [p \in Procs |-> Absent]]
    /\ pc = [w \in Writers |-> "idle"]
    /\ year = [w \in Writers |-> SomeYear]
    /\ merged = [w \in Writers |-> Absent]
    /\ noted = [p \in Procs |-> {}]

-------------------------------------------------------------------------------
(* write_daily_bars, one action for each step another thread can see.      *)

\* The call: the loop starts at the first year of the frame.
Submit(w) ==
    /\ pc[w] = "idle"
    /\ StoreSubmit(w)
    /\ \E y \in Years :
          /\ IsFirst(y, todo'[w])
          /\ year' = [year EXCEPT ![w] = y]
    /\ GoTo(w, "locking")
    /\ UNCHANGED <<lock, tmp, merged, noted>>

\* Mutant of TryLock: the lock is on the data file, whose inode is replaced.
TryLockOnDataFile(w) ==
    /\ pc[w] = "locking"
    /\ lock' = [lock EXCEPT ![year[w]] = w]
    /\ GoTo(w, "read")
    /\ UNCHANGED <<store, batch, todo, tmp, year, merged, noted>>

\* Mutant of TryLock: the lock keeps threads apart, but not processes.
TryLockInProcess(w) ==
    /\ pc[w] = "locking"
    /\ lock[year[w]] # NoWriter => ProcOf[lock[year[w]]] # ProcOf[w]
    /\ lock' = [lock EXCEPT ![year[w]] = w]
    /\ GoTo(w, "read")
    /\ UNCHANGED <<store, batch, todo, tmp, year, merged, noted>>

\* One poll of the lock file succeeds.
TryLock(w) ==
    /\ pc[w] = "locking"
    /\ lock[year[w]] = NoWriter
    /\ lock' = [lock EXCEPT ![year[w]] = w]
    /\ GoTo(w, "read")
    /\ UNCHANGED <<store, batch, todo, tmp, year, merged, noted>>

\* A poll fails after the deadline: FileLockTimeout ends the call, and the
\* years written before stay written.
LockTimeout(w) ==
    /\ pc[w] = "locking"
    /\ lock[year[w]] # NoWriter
    /\ EndCalls({w})
    /\ UNCHANGED <<lock, tmp, noted>>

\* Mutant of ReadCurrent: the partition is replaced, not merged.
ReadCurrentIgnored(w) ==
    /\ pc[w] = "read"
    /\ store[year[w]] # Torn
    /\ merged' = [merged EXCEPT ![w] = batch[w][year[w]]]
    /\ GoTo(w, "write")
    /\ UNCHANGED <<store, batch, todo, lock, tmp, year, noted>>

\* The partition is read, if there is one, and merged with the new rows.
ReadCurrent(w) ==
    /\ pc[w] = "read"
    /\ store[year[w]] # Torn
    /\ merged' = [merged EXCEPT ![w] = Merge(batch[w][year[w]], store[year[w]])]
    /\ GoTo(w, "write")
    /\ UNCHANGED <<store, batch, todo, lock, tmp, year, noted>>

\* _safe_read_parquet notes an unreadable partition and raises.
ReadCorrupt(w) ==
    /\ pc[w] = "read"
    /\ store[year[w]] = Torn
    /\ noted' = [noted EXCEPT ![ProcOf[w]] = @ \cup {year[w]}]
    /\ GoTo(w, "unwind")
    /\ UNCHANGED <<store, batch, todo, lock, tmp, year, merged>>

\* to_parquet truncates the temporary file ...
BeginWrite(w) ==
    /\ pc[w] = "write"
    /\ SetTmp(w, Torn)
    /\ GoTo(w, "writing")
    /\ UNCHANGED <<store, batch, todo, lock, year, merged, noted>>

\* ... and has written it all.
EndWrite(w) ==
    /\ pc[w] = "writing"
    /\ SetTmp(w, merged[w])
    /\ GoTo(w, "replace")
    /\ UNCHANGED <<store, batch, todo, lock, year, merged, noted>>

\* to_parquet or os.replace raises: the temporary file is removed.
FailWrite(w) ==
    /\ pc[w] \in {"writing", "replace"}
    /\ SetTmp(w, Absent)
    /\ GoTo(w, "unwind")
    /\ UNCHANGED <<store, batch, todo, lock, year, merged, noted>>

\* os.replace puts the temporary file in the place of the partition.
Replace(w) ==
    /\ pc[w] = "replace"
    /\ TmpOf(w) # Absent
    /\ store' = [store EXCEPT ![year[w]] = TmpOf(w)]
    /\ SetTmp(w, Absent)
    /\ todo' = [todo EXCEPT ![w] = @ \ {year[w]}]
    /\ merged' = [merged EXCEPT ![w] = Absent]
    /\ GoTo(w, "release")
    /\ UNCHANGED <<batch, lock, year, noted>>

\* The with block ends; the loop goes to the next year, if there is one.
Release(w) ==
    /\ pc[w] = "release"
    /\ lock' = [lock EXCEPT ![year[w]] = NoWriter]
    /\ IF todo[w] = {}
       THEN GoTo(w, "register") /\ UNCHANGED year
       ELSE /\ \E y \in Years :
                  IsFirst(y, todo[w]) /\ year' = [year EXCEPT ![w] = y]
            /\ GoTo(w, "locking")
    /\ UNCHANGED <<store, batch, todo, tmp, merged, noted>>

\* Mutant of Unwind: the lock is not released when the body raises.
UnwindKeepsLock(w) ==
    /\ pc[w] = "unwind"
    /\ EndCalls({w})
    /\ UNCHANGED <<lock, tmp, noted>>

\* The with block ends by an exception, which ends the call.
Unwind(w) ==
    /\ pc[w] = "unwind"
    /\ lock' = [lock EXCEPT ![year[w]] = NoWriter]
    /\ EndCalls({w})
    /\ UNCHANGED <<tmp, noted>>

\* After the last year the dataset is registered and the call returns.
Register(w) ==
    /\ pc[w] = "register"
    /\ EndCalls({w})
    /\ UNCHANGED <<lock, tmp, noted>>

\* A reader opens a partition without the lock; an unreadable one is noted.
ReadPartition(p, y) ==
    /\ store[y] = Torn
    /\ noted' = [noted EXCEPT ![p] = @ \cup {y}]
    /\ UNCHANGED <<store, batch, todo, lock, tmp, pc, year, merged>>

\* A process dies: its threads are gone, the operating system drops their
\* locks, and their temporary files stay behind.
Crash(p) ==
    /\ EndCalls({w \in Writers : ProcOf[w] = p})
    /\ lock' = [y \in Years |->
                  IF lock[y] # NoWriter /\ ProcOf[lock[y]] = p
                  THEN NoWriter ELSE lock[y]]
    /\ noted' = [noted EXCEPT ![p] = {}]
    /\ UNCHANGED tmp

Step(w) ==
    \/ TryLock(w) \/ LockTimeout(w)
    \/ ReadCurrent(w) \/ ReadCorrupt(w)
    \/ BeginWrite(w) \/ EndWrite(w) \/ FailWrite(w) \/ Replace(w)
    \/ Release(w) \/ Unwind(w) \/ Register(w)

Next ==
    \/ \E w \in Writers : Submit(w) \/ Step(w)
    \/ \E p \in Procs, y \in Years : ReadPartition(p, y)
    \/ \E p \in Procs : Crash(p)

Spec == Init /\ [][Next]_vars

-------------------------------------------------------------------------------

\* Files hold frames, nothing, or bytes that cannot be parsed; locks are held by
\* threads (warehouse.py:120-161, filelock.py:69-118).
TypeOK ==
    /\ store \in [Years -> File]
    /\ batch \in [Writers -> Batch]
    /\ todo \in [Writers -> SUBSET Years]
    /\ lock \in [Years -> Writers \cup {NoWriter}]
    /\ tmp \in [Years -> [Procs -> File]]
    /\ pc \in [Writers -> Labels]
    /\ year \in [Writers -> Years]
    /\ merged \in [Writers -> Content \cup {Absent}]
    /\ noted \in [Procs -> SUBSET Years]

\* The lock of a partition is held by exactly the writer that is between the
\* read and the replace of that partition: no two writers are there at once,
\* and no lock is left behind by a timeout, an exception or a crash
\* (filelock.py:94-118, the with block of warehouse.py:131-141).
LockDiscipline ==
    \A w \in Writers, y \in Years :
        lock[y] = w <=> pc[w] \in Inside /\ year[w] = y

\* No lost update: what a writer is about to put in the place of a partition
\* still contains all that the partition contains, because nobody has replaced
\* it since it was read (warehouse.py:129-141).
NoLostUpdate ==
    \A w \in Writers :
        pc[w] \in {"write", "writing", "replace"} =>
            merged[w] = Merge(batch[w][year[w]], store[year[w]])

\* The temporary file a writer moves over the partition is its own complete
\* frame, although all threads of a process use one name for it
\* (warehouse.py:155-158).
TmpIsMerged ==
    \A w \in Writers : pc[w] = "replace" => TmpOf(w) = merged[w]

\* No writer makes a partition unreadable, and no writer replaces an unreadable
\* partition, which would turn corruption into missing rows
\* (warehouse.py:143-161, 880-898).
TornStep == \A y \in Years : store'[y] = Torn <=> store[y] = Torn

TornIsStable == [][TornStep]_vars

\* The warehouse keeps the promise of PartitionStore: every change of a
\* partition is the merge of one writer's rows into its current contents.
ImplementsStore == StoreSpec

===============================================================================
