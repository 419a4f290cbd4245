--------------------------- MODULE WarehouseProofs ----------------------------
(***************************************************************************)
(* Proofs about write_daily_bars for any number of writers, processes,     *)
(* partitions and cells.                                                   *)
(***************************************************************************)
EXTENDS Warehouse, TLAPS

Writing == {"write", "writing", "replace"}

\* A writer in the loop has the first year it still has to write, and rows
\* for it.
LoopInv ==
    \A w \in Writers :
        /\ todo[w] \subseteq YearsOf(batch[w])
        /\ pc[w] \in {"locking", "read"} \cup Writing => IsFirst(year[w], todo[w])

\* A writer past the read has a readable partition and a frame to write.
WritingInv ==
    \A w \in Writers :
        pc[w] \in Writing => merged[w] \in Content /\ store[year[w]] # Torn

IInv ==
    /\ TypeOK
    /\ LoopInv
    /\ LockDiscipline
    /\ WritingInv
    /\ NoLostUpdate
    /\ TmpIsMerged

USE StoreAssumption, WarehouseAssumption

-------------------------------------------------------------------------------

\* combine_first of two frames is a frame.
LEMMA MergeType ==
    ASSUME NEW new \in Content, NEW current \in Content \cup {Absent}
    PROVE  Merge(new, current) \in Content
  BY DEF Merge, Content

\* Two writers past the read of one partition are one writer.
LEMMA OneInside ==
    ASSUME LockDiscipline, NEW v \in Writers, NEW w \in Writers, TypeOK,
           pc[v] \in Inside, pc[w] \in Inside, year[v] = year[w]
    PROVE  v = w
<1>1. year[v] \in Years
  BY DEF TypeOK
<1>2. lock[year[v]] = v /\ lock[year[v]] = w
  BY <1>1 DEF LockDiscipline
<1> QED BY <1>2

\* The rows a writer in the loop has for its partition.
LEMMA RowsAtHand ==
    ASSUME TypeOK, LoopInv, NEW w \in Writers,
           pc[w] \in {"locking", "read"} \cup Writing
    PROVE  /\ year[w] \in Years
           /\ IsFirst(year[w], todo[w])
           /\ batch[w][year[w]] \in Content
<1>1. year[w] \in Years /\ batch[w] \in Batch
  BY DEF TypeOK
<1>2. IsFirst(year[w], todo[w]) /\ todo[w] \subseteq YearsOf(batch[w])
  BY DEF LoopInv
<1>3. year[w] \in YearsOf(batch[w])
  BY <1>2 DEF IsFirst
<1> QED BY <1>1, <1>2, <1>3 DEF YearsOf, Batch

\* The temporary file of a writer has the contents of a file.
LEMMA TmpType ==
    ASSUME TypeOK, NEW w \in Writers
    PROVE  TmpOf(w) \in File
<1>1. year[w] \in Years /\ ProcOf[w] \in Procs
  BY DEF TypeOK
<1>2. tmp[year[w]] \in [Procs -> File]
  BY <1>1 DEF TypeOK
<1> QED BY <1>1, <1>2 DEF TmpOf

\* The year of a writer that is not in write_daily_bars is a partition.
LEMMA SomeYearType == SomeYear \in Years
  BY DEF SomeYear

-------------------------------------------------------------------------------
(* The initial states.                                                      *)

\* The inductive invariant holds when no process has begun to write.
LEMMA InitIInv == Init => IInv
  BY SomeYearType
  DEF Init, StoreInit, IInv, TypeOK, LoopInv, LockDiscipline, WritingInv,
      NoLostUpdate, TmpIsMerged, File, Batch, NoRows, Labels, Inside, Writing,
      YearsOf

-------------------------------------------------------------------------------
(* The steps: types first.                                                  *)

\* Every step keeps the types; Replace needs WritingInv, as the file it moves
\* must be a whole frame.
LEMMA StepType == TypeOK /\ LoopInv /\ WritingInv /\ [Next]_vars => TypeOK'
<1> SUFFICES ASSUME TypeOK, LoopInv, WritingInv, [Next]_vars PROVE TypeOK'
  OBVIOUS
<1> USE SomeYearType DEF TypeOK, GoTo, SetTmp, TmpOf, Labels, File
<1>1. ASSUME NEW w \in Writers, Submit(w) PROVE TypeOK'
  <2>1. PICK b \in Batches : /\ batch' = [batch EXCEPT ![w] = b]
                             /\ todo' = [todo EXCEPT ![w] = YearsOf(b)]
    BY <1>1 DEF Submit, StoreSubmit
  <2>2. PICK y \in Years : year' = [year EXCEPT ![w] = y]
    BY <1>1 DEF Submit
  <2>3. YearsOf(b) \subseteq Years
    BY DEF YearsOf
  <2> QED BY <1>1, <2>1, <2>2, <2>3 DEF Submit, StoreSubmit
<1>2. ASSUME NEW w \in Writers, TryLock(w) PROVE TypeOK'
  BY <1>2 DEF TryLock
<1>3. ASSUME NEW W \in SUBSET Writers, EndCalls(W) 
      PROVE  /\ store' \in [Years -> File]
             /\ batch' \in [Writers -> Batch]
             /\ todo' \in [Writers -> SUBSET Years]
             /\ pc' \in [Writers -> Labels]
             /\ year' \in [Writers -> Years]
             /\ merged' \in [Writers -> Content \cup {Absent}]
  BY <1>3 DEF EndCalls, StoreEnd, NoRows, Batch
<1>4. ASSUME NEW w \in Writers, LockTimeout(w) PROVE TypeOK'
  BY <1>4, <1>3 DEF LockTimeout
<1>5. ASSUME NEW w \in Writers, ReadCurrent(w) PROVE TypeOK'
  <2>1. batch[w][year[w]] \in Content /\ store[year[w]] \in Content \cup {Absent}
    BY <1>5, RowsAtHand DEF ReadCurrent
  <2>2. Merge(batch[w][year[w]], store[year[w]]) \in Content
    BY <2>1, MergeType
  <2> QED BY <1>5, <2>2 DEF ReadCurrent
<1>6. ASSUME NEW w \in Writers, ReadCorrupt(w) PROVE TypeOK'
  BY <1>6 DEF ReadCorrupt
<1>7. ASSUME NEW w \in Writers, BeginWrite(w) PROVE TypeOK'
  BY <1>7 DEF BeginWrite
<1>8. ASSUME NEW w \in Writers, EndWrite(w) PROVE TypeOK'
  BY <1>8 DEF EndWrite
<1>9. ASSUME NEW w \in Writers, FailWrite(w) PROVE TypeOK'
  BY <1>9 DEF FailWrite
<1>10. ASSUME NEW w \in Writers, Replace(w) PROVE TypeOK'
  <2>1. TmpOf(w) \in File
    BY TmpType
  <2>2. store' \in [Years -> File] /\ tmp' \in [Years -> [Procs -> File]]
    BY <1>10, <2>1 DEF Replace
  <2>3. pc' \in [Writers -> Labels]
    BY <1>10 DEF Replace
  <2>4. todo' \in [Writers -> SUBSET Years] /\ merged' \in [Writers -> Content \cup {Absent}]
    BY <1>10 DEF Replace
  <2> QED BY <1>10, <2>2, <2>3, <2>4 DEF Replace
<1>11. ASSUME NEW w \in Writers, Release(w) PROVE TypeOK'
  BY <1>11 DEF Release
<1>12. ASSUME NEW w \in Writers, Unwind(w) PROVE TypeOK'
  BY <1>12, <1>3 DEF Unwind
<1>13. ASSUME NEW w \in Writers, Register(w) PROVE TypeOK'
  BY <1>13, <1>3 DEF Register
<1>14. ASSUME NEW p \in Procs, NEW y \in Years, ReadPartition(p, y) PROVE TypeOK'
  BY <1>14 DEF ReadPartition
<1>15. ASSUME NEW p \in Procs, Crash(p) PROVE TypeOK'
  BY <1>15, <1>3 DEF Crash
<1>16. CASE UNCHANGED vars
  BY <1>16 DEF vars
<1> QED
  BY <1>1, <1>2, <1>4, <1>5, <1>6, <1>7, <1>8, <1>9, <1>10, <1>11, <1>12,
     <1>13, <1>14, <1>15, <1>16 DEF Next, Step
-------------------------------------------------------------------------------
(* What a step of one writer does to the writers that stay where they are.  *)

\* The loop over the years of the batch goes through them in ascending order and
\* leaves none out.
LEMMA StepLoop == TypeOK /\ LoopInv /\ [Next]_vars => LoopInv'
<1> SUFFICES ASSUME TypeOK, LoopInv, [Next]_vars, NEW u \in Writers
             PROVE  /\ todo'[u] \subseteq YearsOf(batch'[u])
                    /\ pc'[u] \in {"locking", "read"} \cup Writing =>
                          IsFirst(year'[u], todo'[u])
  BY DEF LoopInv
<1> DEFINE Goal == /\ todo'[u] \subseteq YearsOf(batch'[u])
                   /\ pc'[u] \in {"locking", "read"} \cup Writing =>
                          IsFirst(year'[u], todo'[u])
<1> USE DEF GoTo
<1>0. /\ todo[u] \subseteq YearsOf(batch[u])
      /\ pc[u] \in {"locking", "read"} \cup Writing => IsFirst(year[u], todo[u])
  BY DEF LoopInv
<1>1. ASSUME NEW w \in Writers, Submit(w) PROVE Goal
  <2>1. PICK b \in Batches : /\ batch' = [batch EXCEPT ![w] = b]
                             /\ todo' = [todo EXCEPT ![w] = YearsOf(b)]
    BY <1>1 DEF Submit, StoreSubmit
  <2>2. PICK y \in Years : IsFirst(y, todo'[w]) /\ year' = [year EXCEPT ![w] = y]
    BY <1>1 DEF Submit
  <2> QED BY <1>0, <1>1, <2>1, <2>2 DEF Submit, TypeOK
<1>2. ASSUME NEW w \in Writers, TryLock(w) PROVE Goal
  BY <1>0, <1>2 DEF TryLock, TypeOK
<1>3. ASSUME NEW W \in SUBSET Writers, EndCalls(W) PROVE Goal
  <2>1. CASE u \in W
    BY <1>3, <2>1 DEF EndCalls, StoreEnd, Writing
  <2>2. CASE u \notin W
    BY <1>0, <1>3, <2>2 DEF EndCalls, StoreEnd
  <2> QED BY <2>1, <2>2
<1>4. ASSUME NEW w \in Writers, LockTimeout(w) PROVE Goal
  BY <1>3, <1>4 DEF LockTimeout
<1>5. ASSUME NEW w \in Writers, ReadCurrent(w) PROVE Goal
  BY <1>0, <1>5 DEF ReadCurrent, TypeOK
<1>6. ASSUME NEW w \in Writers, ReadCorrupt(w) PROVE Goal
  BY <1>0, <1>6 DEF ReadCorrupt, TypeOK, Writing
<1>7. ASSUME NEW w \in Writers, BeginWrite(w) PROVE Goal
  BY <1>0, <1>7 DEF BeginWrite, TypeOK, Writing
<1>8. ASSUME NEW w \in Writers, EndWrite(w) PROVE Goal
  BY <1>0, <1>8 DEF EndWrite, TypeOK, Writing
<1>9. ASSUME NEW w \in Writers, FailWrite(w) PROVE Goal
  BY <1>0, <1>9 DEF FailWrite, TypeOK, Writing
<1>10. ASSUME NEW w \in Writers, Replace(w) PROVE Goal
  BY <1>0, <1>10 DEF Replace, TypeOK, Writing
<1>11. ASSUME NEW w \in Writers, Release(w) PROVE Goal
  <2>1. CASE todo[w] = {}
    BY <1>0, <1>11, <2>1 DEF Release, TypeOK, Writing
  <2>2. CASE todo[w] # {}
    <3>1. PICK y \in Years : IsFirst(y, todo[w]) /\ year' = [year EXCEPT ![w] = y]
      BY <1>11, <2>2 DEF Release
    <3> QED BY <1>0, <1>11, <2>2, <3>1 DEF Release, TypeOK, Writing
  <2> QED BY <2>1, <2>2
<1>12. ASSUME NEW w \in Writers, Unwind(w) PROVE Goal
  BY <1>3, <1>12 DEF Unwind
<1>13. ASSUME NEW w \in Writers, Register(w) PROVE Goal
  BY <1>3, <1>13 DEF Register
<1>14. ASSUME NEW p \in Procs, NEW y \in Years, ReadPartition(p, y) PROVE Goal
  BY <1>0, <1>14 DEF ReadPartition
<1>15. ASSUME NEW p \in Procs, Crash(p) PROVE Goal
  BY <1>3, <1>15 DEF Crash
<1>16. CASE UNCHANGED vars
  BY <1>0, <1>16 DEF vars
<1> QED
  BY <1>1, <1>2, <1>4, <1>5, <1>6, <1>7, <1>8, <1>9, <1>10, <1>11, <1>12,
     <1>13, <1>14, <1>15, <1>16 DEF Next, Step
-------------------------------------------------------------------------------

\* A lock is taken and dropped by its holder only: on the way through the loop,
\* by an exception, or by the death of its process.
LEMMA StepLock == TypeOK /\ LockDiscipline /\ [Next]_vars => LockDiscipline'
<1> SUFFICES ASSUME TypeOK, LockDiscipline, [Next]_vars,
                    NEW u \in Writers, NEW x \in Years
             PROVE  lock'[x] = u <=> pc'[u] \in Inside /\ year'[u] = x
  BY DEF LockDiscipline
<1> DEFINE Goal == lock'[x] = u <=> pc'[u] \in Inside /\ year'[u] = x
<1> USE DEF GoTo
<1>0. lock[x] = u <=> pc[u] \in Inside /\ year[u] = x
  BY DEF LockDiscipline
<1>1. ASSUME NEW w \in Writers, Submit(w) PROVE Goal
  <2>1. PICK y \in Years : year' = [year EXCEPT ![w] = y]
    BY <1>1 DEF Submit
  <2> QED BY <1>0, <1>1, <2>1 DEF Submit, TypeOK, Inside
<1>2. ASSUME NEW w \in Writers, TryLock(w) PROVE Goal
  <2>1. pc[w] \notin Inside
    BY <1>2 DEF TryLock, Inside
  <2> QED BY <1>0, <1>2, <2>1 DEF TryLock, TypeOK, Inside
\* Moves inside the with block, and moves outside it, keep the lock as it is.
<1>3. ASSUME NEW w \in Writers, UNCHANGED <<lock, year>>,
             pc' = [pc EXCEPT ![w] = pc'[w]],
             pc[w] \in Inside <=> pc'[w] \in Inside
      PROVE  Goal
  BY <1>0, <1>3 DEF TypeOK
<1>4. ASSUME NEW w \in Writers, LockTimeout(w) PROVE Goal
  BY <1>0, <1>4 DEF LockTimeout, EndCalls, TypeOK, Inside
<1>5. ASSUME NEW w \in Writers, ReadCurrent(w) PROVE Goal
  BY <1>3, <1>5 DEF ReadCurrent, TypeOK, Inside
<1>6. ASSUME NEW w \in Writers, ReadCorrupt(w) PROVE Goal
  BY <1>3, <1>6 DEF ReadCorrupt, TypeOK, Inside
<1>7. ASSUME NEW w \in Writers, BeginWrite(w) PROVE Goal
  BY <1>3, <1>7 DEF BeginWrite, TypeOK, Inside
<1>8. ASSUME NEW w \in Writers, EndWrite(w) PROVE Goal
  BY <1>3, <1>8 DEF EndWrite, TypeOK, Inside
<1>9. ASSUME NEW w \in Writers, FailWrite(w) PROVE Goal
  BY <1>3, <1>9 DEF FailWrite, TypeOK, Inside
<1>10. ASSUME NEW w \in Writers, Replace(w) PROVE Goal
  BY <1>3, <1>10 DEF Replace, TypeOK, Inside
<1>11. ASSUME NEW w \in Writers, Release(w) PROVE Goal
  <2>1. lock[year[w]] = w
    <3>1. pc[w] \in Inside /\ year[w] \in Years
      BY <1>11 DEF Release, TypeOK, Inside
    <3> QED BY <3>1 DEF LockDiscipline
  <2>4. pc'[w] \notin Inside
    BY <1>11 DEF Release, TypeOK, Inside
  <2>2. CASE u = w
    BY <1>0, <1>11, <2>4, <2>2 DEF Release, TypeOK
  <2>3. CASE u # w
    <3>1. pc'[u] = pc[u] /\ year'[u] = year[u]
      BY <1>11, <2>3 DEF Release, TypeOK
    <3> QED BY <1>0, <1>11, <2>1, <2>3, <3>1 DEF Release, TypeOK
  <2> QED BY <2>2, <2>3
<1>12. ASSUME NEW w \in Writers, Unwind(w) PROVE Goal
  <2>1. lock[year[w]] = w
    BY <1>12, ZenonT(40) DEF Unwind, LockDiscipline, TypeOK, Inside
  <2> QED BY <1>0, <1>12, <2>1 DEF Unwind, EndCalls, TypeOK, Inside
<1>13. ASSUME NEW w \in Writers, Register(w) PROVE Goal
  BY <1>0, <1>13 DEF Register, EndCalls, TypeOK, Inside
<1>14. ASSUME NEW p \in Procs, NEW y \in Years, ReadPartition(p, y) PROVE Goal
  BY <1>0, <1>14 DEF ReadPartition
<1>15. ASSUME NEW p \in Procs, Crash(p) PROVE Goal
  <2>1. CASE ProcOf[u] = p
    BY <1>0, <1>15, <2>1 DEF Crash, EndCalls, TypeOK, Inside
  <2>2. CASE ProcOf[u] # p
    BY <1>0, <1>15, <2>2 DEF Crash, EndCalls, TypeOK, Inside
  <2> QED BY <2>1, <2>2
<1>16. CASE UNCHANGED vars
  BY <1>0, <1>16 DEF vars
<1> QED
  BY <1>1, <1>2, <1>4, <1>5, <1>6, <1>7, <1>8, <1>9, <1>10, <1>11, <1>12,
     <1>13, <1>14, <1>15, <1>16 DEF Next, Step

-------------------------------------------------------------------------------
(* The writing writer: nobody else touches its partition or its temporary   *)
(* file, because nobody else is inside.                                     *)

WriterInv == WritingInv /\ NoLostUpdate /\ TmpIsMerged

\* What a writer knows about its partition, its frame and its temporary file is
\* not disturbed by anybody else, because all of it is under the lock.
LEMMA StepWriter ==
    TypeOK /\ LoopInv /\ LockDiscipline /\ WriterInv /\ [Next]_vars => WriterInv'
<1> SUFFICES ASSUME TypeOK, LoopInv, LockDiscipline, WriterInv, [Next]_vars,
                    NEW u \in Writers, pc'[u] \in Writing
             PROVE  /\ merged'[u] \in Content
                    /\ store'[year'[u]] # Torn
                    /\ merged'[u] = Merge(batch'[u][year'[u]], store'[year'[u]])
                    /\ pc'[u] = "replace" => tmp'[year'[u]][ProcOf[u]] = merged'[u]
  BY DEF WriterInv, WritingInv, NoLostUpdate, TmpIsMerged, Writing, TmpOf
<1> DEFINE Goal == /\ merged'[u] \in Content
                   /\ store'[year'[u]] # Torn
                   /\ merged'[u] = Merge(batch'[u][year'[u]], store'[year'[u]])
                   /\ pc'[u] = "replace" => tmp'[year'[u]][ProcOf[u]] = merged'[u]
<1> USE DEF GoTo
<1>0. pc[u] \in Writing =>
        /\ merged[u] \in Content
        /\ store[year[u]] # Torn
        /\ merged[u] = Merge(batch[u][year[u]], store[year[u]])
        /\ pc[u] = "replace" => tmp[year[u]][ProcOf[u]] = merged[u]
  BY DEF WriterInv, WritingInv, NoLostUpdate, TmpIsMerged, Writing, TmpOf
<1>T. year[u] \in Years /\ ProcOf[u] \in Procs
  BY DEF TypeOK
\* A step that leaves u's frame, its partition and its temporary file alone.
<1>K. ASSUME pc[u] = pc'[u], merged'[u] = merged[u], batch'[u] = batch[u],
             year'[u] = year[u], store'[year[u]] = store[year[u]],
             tmp'[year[u]][ProcOf[u]] = tmp[year[u]][ProcOf[u]]
      PROVE  Goal
  BY <1>0, <1>K
\* Another writer inside is at another partition.
<1>L. ASSUME NEW w \in Writers, w # u, pc[w] \in Inside, pc[u] \in Writing
      PROVE  year[w] # year[u]
  BY <1>L, OneInside DEF Inside, Writing
<1>1. ASSUME NEW w \in Writers, Submit(w) PROVE Goal
  <2>1. PICK y \in Years : year' = [year EXCEPT ![w] = y]
    BY <1>1 DEF Submit
  <2>2. u # w
    BY <1>1 DEF Submit, TypeOK, Writing
  <2> QED BY <1>1, <1>K, <2>1, <2>2 DEF Submit, StoreSubmit, TypeOK
<1>2. ASSUME NEW w \in Writers, TryLock(w) PROVE Goal
  <2>1. u # w
    BY <1>2 DEF TryLock, TypeOK, Writing
  <2> QED BY <1>2, <1>K, <2>1 DEF TryLock, TypeOK
<1>3. ASSUME NEW W \in SUBSET Writers, EndCalls(W), UNCHANGED tmp PROVE Goal
  <2>1. u \notin W
    BY <1>3 DEF EndCalls, Writing
  <2> QED BY <1>3, <1>K, <2>1 DEF EndCalls, StoreEnd, TypeOK
<1>4. ASSUME NEW w \in Writers, LockTimeout(w) PROVE Goal
  BY <1>3, <1>4 DEF LockTimeout
<1>5. ASSUME NEW w \in Writers, ReadCurrent(w) PROVE Goal
  <2>1. CASE u = w
    <3>1. batch[w][year[w]] \in Content /\ store[year[w]] \in Content \cup {Absent}
      BY <1>5, RowsAtHand DEF ReadCurrent, TypeOK, File
    <3>2. merged'[u] = Merge(batch[w][year[w]], store[year[w]])
      BY <1>5, <2>1 DEF ReadCurrent, TypeOK
    <3>3. merged'[u] \in Content
      BY <3>1, <3>2, MergeType
    <3> QED BY <1>5, <2>1, <3>2, <3>3 DEF ReadCurrent, TypeOK
  <2>2. CASE u # w
    BY <1>5, <1>K, <2>2 DEF ReadCurrent, TypeOK
  <2> QED BY <2>1, <2>2
<1>6. ASSUME NEW w \in Writers, ReadCorrupt(w) PROVE Goal
  <2>1. u # w
    BY <1>6 DEF ReadCorrupt, TypeOK, Writing
  <2> QED BY <1>6, <1>K, <2>1 DEF ReadCorrupt, TypeOK
\* A step of another writer that changes only its own temporary file.
<1>W. ASSUME NEW w \in Writers, w # u, pc[w] \in Inside, NEW f, SetTmp(w, f),
             UNCHANGED <<batch, year>>, pc'[u] = pc[u], merged'[u] = merged[u],
             store'[year[u]] = store[year[u]]
      PROVE  Goal
  <2>1. year[w] # year[u]
    BY <1>L, <1>W
  <2>2. tmp'[year[u]][ProcOf[u]] = tmp[year[u]][ProcOf[u]]
    BY <1>T, <1>W, <2>1 DEF SetTmp, TypeOK
  <2> QED BY <1>K, <1>W, <2>2
<1>7. ASSUME NEW w \in Writers, BeginWrite(w) PROVE Goal
  <2>1. CASE u = w
    BY <1>0, <1>7, <2>1 DEF BeginWrite, TypeOK, Writing
  <2>2. CASE u # w
    BY <1>7, <1>W, <2>2 DEF BeginWrite, TypeOK, Inside
  <2> QED BY <2>1, <2>2
<1>8. ASSUME NEW w \in Writers, EndWrite(w) PROVE Goal
  <2>1. CASE u = w
    <3>1. tmp'[year[u]][ProcOf[u]] = merged[u]
      BY <1>8, <1>T, <2>1 DEF EndWrite, SetTmp, TypeOK
    <3> QED BY <1>0, <1>8, <2>1, <3>1 DEF EndWrite, TypeOK, Writing
  <2>2. CASE u # w
    BY <1>8, <1>W, <2>2 DEF EndWrite, TypeOK, Inside
  <2> QED BY <2>1, <2>2
<1>9. ASSUME NEW w \in Writers, FailWrite(w) PROVE Goal
  <2>1. u # w
    BY <1>9 DEF FailWrite, TypeOK, Writing
  <2> QED BY <1>9, <1>W, <2>1 DEF FailWrite, TypeOK, Inside
<1>10. ASSUME NEW w \in Writers, Replace(w) PROVE Goal
  <2>1. u # w
    BY <1>10 DEF Replace, TypeOK, Writing
  <2>2. pc'[u] = pc[u] /\ merged'[u] = merged[u] /\ pc[w] \in Inside
    BY <1>10, <2>1 DEF Replace, TypeOK, Inside
  <2>3. year[w] # year[u]
    BY <1>L, <2>1, <2>2
  <2>4. store'[year[u]] = store[year[u]]
    BY <1>10, <1>T, <2>3 DEF Replace, TypeOK
  <2> QED BY <1>10, <1>W, <2>1, <2>2, <2>4 DEF Replace
<1>11. ASSUME NEW w \in Writers, Release(w) PROVE Goal
  <2>1. u # w
    BY <1>11 DEF Release, TypeOK, Writing
  <2>2. pc'[u] = pc[u] /\ year'[u] = year[u]
    BY <1>11, <2>1 DEF Release, TypeOK
  <2> QED BY <1>11, <1>K, <2>2 DEF Release
<1>12. ASSUME NEW w \in Writers, Unwind(w) PROVE Goal
  BY <1>3, <1>12 DEF Unwind
<1>13. ASSUME NEW w \in Writers, Register(w) PROVE Goal
  BY <1>3, <1>13 DEF Register
<1>14. ASSUME NEW p \in Procs, NEW y \in Years, ReadPartition(p, y) PROVE Goal
  BY <1>14, <1>K DEF ReadPartition
<1>15. ASSUME NEW p \in Procs, Crash(p) PROVE Goal
  BY <1>3, <1>15 DEF Crash
<1>16. CASE UNCHANGED vars
  BY <1>16, <1>K DEF vars
<1> QED
  BY <1>1, <1>2, <1>4, <1>5, <1>6, <1>7, <1>8, <1>9, <1>10, <1>11, <1>12,
     <1>13, <1>14, <1>15, <1>16 DEF Next, Step
-------------------------------------------------------------------------------
(* The invariant and what follows from it.                                  *)

\* The inductive invariant holds in every reachable state.
LEMMA IInvInductive == Spec => []IInv
<1>1. IInv /\ [Next]_vars => IInv'
  BY StepType, StepLoop, StepLock, StepWriter DEF IInv, WriterInv
<1> QED BY InitIInv, <1>1, PTL DEF Spec

\* The variables of write_daily_bars keep their types.
THEOREM TypeCorrect == Spec => []TypeOK
  BY IInvInductive, PTL DEF IInv

\* A partition lock is held by exactly the writer between the read and the
\* replace of the partition, for any number of threads and processes.
THEOREM LockIsExact == Spec => []LockDiscipline
  BY IInvInductive, PTL DEF IInv

\* No writer ever replaces a partition by a frame that misses what the
\* partition holds.
THEOREM NoUpdateIsLost == Spec => []NoLostUpdate
  BY IInvInductive, PTL DEF IInv

\* The file a writer moves over the partition is its own, complete, frame.
THEOREM TmpIsOwn == Spec => []TmpIsMerged
  BY IInvInductive, PTL DEF IInv

-------------------------------------------------------------------------------
(* Steps: what a replace does, and that nothing else changes a partition.   *)

\* os.replace puts the merge of the rows and the partition in its place.
LEMMA ReplaceMerges ==
    ASSUME IInv, NEW w \in Writers, Replace(w)
    PROVE  /\ IsFirst(year[w], todo[w])
           /\ year[w] \in Years
           /\ store[year[w]] # Torn
           /\ Merge(batch[w][year[w]], store[year[w]]) \in Content
           /\ store' = [store EXCEPT ![year[w]] = Merge(batch[w][year[w]], @)]
<1>1. pc[w] \in Writing /\ pc[w] = "replace"
  BY DEF Replace, Writing
<1>2. TmpOf(w) = Merge(batch[w][year[w]], store[year[w]])
  BY <1>1 DEF IInv, TmpIsMerged, NoLostUpdate
<1>3. merged[w] \in Content /\ store[year[w]] # Torn
  BY <1>1 DEF IInv, WritingInv
<1>4. IsFirst(year[w], todo[w]) /\ year[w] \in Years
  BY <1>1, RowsAtHand DEF IInv
<1>5. merged[w] = TmpOf(w)
  BY <1>1 DEF IInv, TmpIsMerged
<1> QED BY <1>2, <1>3, <1>4, <1>5 DEF Replace

\* Nothing but os.replace changes a partition.
LEMMA OnlyReplaceStores ==
    ASSUME [Next]_vars
    PROVE  UNCHANGED store \/ \E w \in Writers : Replace(w)
  BY DEF Next, Step, vars, Submit, StoreSubmit, TryLock, LockTimeout,
         ReadCurrent, ReadCorrupt, BeginWrite, EndWrite, FailWrite, Release,
         Unwind, Register, ReadPartition, Crash, EndCalls, StoreEnd

\* No step makes a partition unreadable or writes over an unreadable one.
THEOREM TornStays == Spec => TornIsStable
<1>1. ASSUME IInv, [Next]_vars PROVE TornStep
  <2>1. CASE UNCHANGED store
    BY <2>1 DEF TornStep
  <2>2. ASSUME NEW w \in Writers, Replace(w) PROVE TornStep
    <3>1. Merge(batch[w][year[w]], store[year[w]]) # Torn
      BY <1>1, <2>2, ReplaceMerges
    <3>2. store \in [Years -> File]
      BY <1>1 DEF IInv, TypeOK
    <3> QED BY <1>1, <2>2, <3>1, <3>2, ReplaceMerges DEF TornStep
  <2> QED BY <1>1, <2>1, <2>2, OnlyReplaceStores
<1>2. IInv /\ [Next]_vars => [TornStep]_vars
  BY <1>1
<1> QED BY <1>2, IInvInductive, PTL DEF Spec, TornIsStable

\* write_daily_bars under its lock implements the promise of PartitionStore.
THEOREM WarehouseImplementsStore == Spec => ImplementsStore
<1>1. Init => StoreInit
  BY DEF Init
<1>2. ASSUME IInv, [Next]_vars PROVE [StoreNext]_storeVars
  <2> USE DEF storeVars
  <2>1. ASSUME NEW w \in Writers, Submit(w) PROVE StoreNext
    BY <2>1 DEF Submit, StoreNext
  <2>2. ASSUME NEW W \in SUBSET Writers, EndCalls(W) PROVE StoreNext
    BY <2>2 DEF EndCalls, StoreNext
  <2>3. ASSUME NEW w \in Writers, Replace(w) PROVE StoreNext
    <3>1. StoreUpsert(w)
      BY <1>2, <2>3, ReplaceMerges DEF StoreUpsert, Replace
    <3> QED BY <3>1 DEF StoreNext
  <2>4. ASSUME NEW w \in Writers,
               LockTimeout(w) \/ Unwind(w) \/ Register(w)
        PROVE  StoreNext
    BY <2>2, <2>4 DEF LockTimeout, Unwind, Register
  <2>5. ASSUME NEW p \in Procs, Crash(p) PROVE StoreNext
    BY <2>2, <2>5 DEF Crash
  <2>6. ASSUME NEW w \in Writers,
               \/ TryLock(w) \/ ReadCurrent(w) \/ ReadCorrupt(w) \/ BeginWrite(w)
               \/ EndWrite(w) \/ FailWrite(w) \/ Release(w)
        PROVE  UNCHANGED storeVars
    BY <2>6 DEF TryLock, ReadCurrent, ReadCorrupt, BeginWrite, EndWrite,
                FailWrite, Release
  <2>7. ASSUME NEW p \in Procs, NEW y \in Years, ReadPartition(p, y)
        PROVE  UNCHANGED storeVars
    BY <2>7 DEF ReadPartition
  <2>8. CASE UNCHANGED vars
    BY <2>8 DEF vars
  <2> QED BY <1>2, <2>1, <2>3, <2>4, <2>5, <2>6, <2>7, <2>8 DEF Next, Step
<1>3. IInv /\ [Next]_vars => [StoreNext]_storeVars
  BY <1>2
<1> QED BY <1>1, <1>3, IInvInductive, PTL DEF Spec, ImplementsStore, StoreSpec
===============================================================================
