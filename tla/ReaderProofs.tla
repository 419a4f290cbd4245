----------------------------- MODULE ReaderProofs -----------------------------
(***************************************************************************)
(* Proofs about what is made of the warehouse: the coverage snapshot, for  *)
(* any number of readers, clients, writes and unreadable partitions, and   *)
(* the portfolio simulation, for any market, any settings and any number   *)
(* of days.                                                                *)
(***************************************************************************)
EXTENDS DerivedViews, Backtest, FiniteSetTheorems, TLAPS

(* Part 1: the views.                                                        *)

\* One refresh runs at a time, from its start to its end.
OneRefresh ==
    /\ refreshing <=> refresher # {}
    /\ \A t, u \in refresher : t = u

\* What a refresh has read is no older than the snapshot it will replace, and
\* neither is newer than the warehouse.
ViewsAreOrdered ==
    /\ snapshot \in Nat => snapshot <= version
    /\ \A t \in refresher : t.pc = "store" /\ t.view \in Nat =>
           /\ t.view <= version
           /\ snapshot \in Nat => snapshot <= t.view

ViewsInv == TypeOK /\ OneRefresh /\ ViewsAreOrdered

USE ViewsAssumption

Thread == [pc : {"read", "store", "finish"}, view : Views \cup {Fallback}]

-------------------------------------------------------------------------------

LEMMA ViewsInit == Init => ViewsInv
<1> SUFFICES ASSUME Init
             PROVE  ViewsInv
  OBVIOUS
<1>1. TypeOK
  <2>1. gapFresh \in BOOLEAN /\ snapFresh \in BOOLEAN /\ refreshing \in BOOLEAN
    BY DEF Init
  <2>2. reader \in [Readers -> [pc : {"idle", "lookup", "compute", "store", "served"},
                               since : Views, profile : Views \cup {None}]]
    BY DEF Init, Views
  <2> QED BY <2>1, <2>2 DEF Init, TypeOK, Views
<1>2. OneRefresh /\ ViewsAreOrdered
  BY DEF Init, OneRefresh, ViewsAreOrdered
<1> QED BY <1>1, <1>2 DEF ViewsInv

\* What the steps that neither write nor refresh keep.
LEMMA CoverageKept ==
  ASSUME ViewsInv, TypeOK', UNCHANGED <<snapshot, refreshing, refresher>>,
         version' >= version
  PROVE  ViewsInv'
<1>1. OneRefresh'
  BY DEF ViewsInv, OneRefresh
<1>2. ViewsAreOrdered'
  BY DEF ViewsInv, ViewsAreOrdered, TypeOK, Views
<1> QED BY <1>1, <1>2 DEF ViewsInv

\* The writers.
LEMMA WriterSteps ==
  ASSUME ViewsInv, WritePartition \/ ForeignWrite \/ Invalidate
  PROVE  ViewsInv'
<1>1. gapFresh' \in BOOLEAN
  BY DEF ViewsInv, TypeOK, WritePartition, ForeignWrite, Invalidate, gapVars
<1>2. UNCHANGED coverageVars
  BY DEF WritePartition, ForeignWrite, Invalidate
<1>3. /\ version' \in Views /\ version' >= version /\ announced' \in Views
      /\ writer' \in {"idle", "written", "imported"} /\ gapCache' \in Views \cup {None}
      /\ UNCHANGED <<errors, reader>>
  BY DEF ViewsInv, TypeOK, Views, WritePartition, ForeignWrite, Invalidate, gapVars
<1>4. TypeOK'
  BY <1>1, <1>2, <1>3 DEF ViewsInv, TypeOK, coverageVars
<1> QED BY <1>2, <1>3, <1>4, CoverageKept DEF coverageVars

\* The readers of the gap profile.
LEMMA ReaderSteps ==
  ASSUME ViewsInv, NEW r \in Readers, AskProfile(r) \/ Profile(r)
  PROVE  ViewsInv'
<1> DEFINE State == [pc : {"idle", "lookup", "compute", "store", "served"},
                     since : Views, profile : Views \cup {None}]
<1>0. /\ reader \in [Readers -> State] /\ announced \in Views /\ version \in Views
      /\ gapCache \in Views \cup {None} /\ errors \in 0..MaxErrors /\ 0 \in Views
      /\ gapFresh \in BOOLEAN
  BY DEF ViewsInv, TypeOK, Views
<1>1. /\ UNCHANGED <<writeVars, coverageVars>> /\ errors' \in 0..MaxErrors
      /\ gapCache' \in Views \cup {None}
  <2>1. CASE AskProfile(r) \/ ProfileHit(r) \/ ProfileMiss(r) \/ ComputeProfile(r)
             \/ ProfileAnswered(r)
    BY <1>0, <2>1 DEF AskProfile, ProfileHit, ProfileMiss, ComputeProfile, ProfileAnswered
  <2>2. CASE ComputeFails(r)
    BY <1>0, <2>2 DEF ComputeFails
  <2>3. CASE StoreProfile(r)
    BY <1>0, <2>3 DEF StoreProfile
  <2> QED BY <2>1, <2>2, <2>3 DEF Profile
<1>2. reader' \in [Readers -> State]
  <2>1. CASE AskProfile(r) \/ ProfileAnswered(r)
    BY <1>0, <2>1 DEF AskProfile, ProfileAnswered
  <2>2. CASE ProfileMiss(r) \/ ComputeFails(r) \/ StoreProfile(r)
    BY <1>0, <2>2 DEF ProfileMiss, ComputeFails, StoreProfile
  <2>3. CASE ProfileHit(r) \/ ComputeProfile(r)
    <3>1. PICK place \in {"served", "store"}, profile \in Views \cup {None} :
            reader' = [reader EXCEPT ![r].pc = place, ![r].profile = profile]
      BY <1>0, <2>3 DEF ProfileHit, ComputeProfile
    <3> QED BY <1>0, <3>1
  <2> QED BY <2>1, <2>2, <2>3 DEF Profile
<1>4. gapFresh' \in BOOLEAN
  BY <1>0 DEF AskProfile, Profile, ProfileHit, ProfileMiss, ComputeProfile, ComputeFails,
              StoreProfile, ProfileAnswered
<1>5. TypeOK'
  BY <1>1, <1>2, <1>4 DEF ViewsInv, TypeOK, writeVars, coverageVars
<1>6. UNCHANGED <<snapshot, refreshing, refresher>> /\ version' >= version
  BY <1>0, <1>1 DEF writeVars, coverageVars, Views
<1> QED BY <1>5, <1>6, CoverageKept

\* A refresh that is started when one runs is not started.
LEMMA Started ==
  ASSUME ViewsInv, NEW force \in BOOLEAN, StartRefresh(force), UNCHANGED <<snapshot, version>>
  PROVE  /\ refreshing' \in BOOLEAN /\ refresher' \subseteq Thread
         /\ OneRefresh' /\ ViewsAreOrdered'
<1>0. /\ refreshing \in BOOLEAN /\ refresher \subseteq Thread
      /\ OneRefresh /\ ViewsAreOrdered
  BY DEF ViewsInv, TypeOK, Thread
<1>1. CASE UNCHANGED <<refreshing, refresher>>
  BY <1>0, <1>1 DEF OneRefresh, ViewsAreOrdered
<1>2. CASE /\ ~refreshing /\ refreshing' = TRUE
           /\ refresher' = refresher \cup {[pc |-> "read", view |-> 0]}
  <2>1. refresher' = {[pc |-> "read", view |-> 0]}
    BY <1>0, <1>2 DEF OneRefresh
  <2>2. [pc |-> "read", view |-> 0] \in Thread
    BY DEF Thread, Views
  <2> QED BY <1>0, <1>2, <2>1, <2>2 DEF OneRefresh, ViewsAreOrdered
<1> QED BY <1>1, <1>2 DEF StartRefresh

\* The thread at work reads, stores what it has read, and ends.
LEMMA RefreshSteps ==
  ASSUME ViewsInv, Refresh
  PROVE  ViewsInv'
<1>0. /\ TypeOK /\ OneRefresh /\ ViewsAreOrdered /\ version \in Nat
      /\ refresher \subseteq Thread
  BY DEF ViewsInv, TypeOK, Views, Thread
<1>1. PICK t \in refresher : ReadCoverage(t) \/ StoreSnapshot(t) \/ FinishRefresh(t)
  BY DEF Refresh
<1>2. refresher = {t} /\ refreshing /\ t \in Thread
  BY <1>0, <1>1 DEF OneRefresh
<1>3. CASE ReadCoverage(t)
  <2>1. PICK view \in {version, Fallback} :
          /\ refresher' = (refresher \ {t}) \cup {[pc |-> "store", view |-> view]}
          /\ errors' \in 0..MaxErrors
    <3>1. errors \in 0..MaxErrors /\ (errors < MaxErrors => errors + 1 \in 0..MaxErrors)
      BY <1>0 DEF TypeOK
    <3> QED BY <1>3, <3>1 DEF ReadCoverage
  <2>2. refresher' = {[pc |-> "store", view |-> view]}
    BY <1>2, <2>1
  <2>3. UNCHANGED <<writeVars, gapVars, snapshot, snapFresh, refreshing, client>>
    BY <1>3 DEF ReadCoverage
  <2>4. [pc |-> "store", view |-> view] \in Thread
    BY <1>0, <2>1 DEF TypeOK, Thread
  <2>5. TypeOK'
    BY <1>0, <2>1, <2>2, <2>3, <2>4 DEF TypeOK, Thread, writeVars, gapVars
  <2>6. OneRefresh'
    BY <1>0, <1>2, <2>2, <2>3 DEF OneRefresh
  <2>7. ViewsAreOrdered'
    BY <1>0, <2>1, <2>2, <2>3 DEF ViewsAreOrdered, writeVars
  <2> QED BY <2>5, <2>6, <2>7 DEF ViewsInv
<1>4. CASE StoreSnapshot(t)
  <2>1. /\ t.pc = "store" /\ snapshot' = t.view /\ snapFresh' = TRUE
        /\ refresher' = {[pc |-> "finish", view |-> t.view]}
        /\ UNCHANGED <<writeVars, errors, gapVars, refreshing, client>>
    BY <1>2, <1>4 DEF StoreSnapshot
  <2>2. [pc |-> "finish", view |-> t.view] \in Thread /\ t.view \in Views \cup {Fallback}
    BY <1>2 DEF Thread
  <2>3. TypeOK'
    BY <1>0, <2>1, <2>2 DEF TypeOK, Thread, writeVars, gapVars
  <2>4. OneRefresh'
    BY <1>0, <1>2, <2>1 DEF OneRefresh
  <2>5. ViewsAreOrdered'
    BY <1>0, <2>1 DEF ViewsAreOrdered, writeVars
  <2> QED BY <2>3, <2>4, <2>5 DEF ViewsInv
<1>5. CASE FinishRefresh(t)
  <2>1. /\ refreshing' = FALSE /\ refresher' = {}
        /\ UNCHANGED <<writeVars, errors, gapVars, snapshot, snapFresh, client>>
    BY <1>2, <1>5 DEF FinishRefresh
  <2>2. TypeOK'
    BY <1>0, <2>1 DEF TypeOK, writeVars, gapVars
  <2>3. OneRefresh' /\ ViewsAreOrdered'
    BY <1>0, <2>1 DEF OneRefresh, ViewsAreOrdered, writeVars
  <2> QED BY <2>2, <2>3 DEF ViewsInv
<1> QED BY <1>1, <1>3, <1>4, <1>5

LEMMA ViewsStep == ViewsInv /\ [Next]_vars => ViewsInv'
<1> SUFFICES ASSUME ViewsInv, [Next]_vars
             PROVE  ViewsInv'
  OBVIOUS
<1>0. TypeOK
  BY DEF ViewsInv
<1>1. CASE ForceRefresh
  <2>1. /\ refreshing' \in BOOLEAN /\ refresher' \subseteq Thread
        /\ OneRefresh' /\ ViewsAreOrdered'
    BY <1>1, Started DEF ForceRefresh
  <2>2. TypeOK'
    BY <1>0, <1>1, <2>1 DEF ForceRefresh, TypeOK, Thread, gapVars
  <2> QED BY <2>1, <2>2 DEF ViewsInv
<1>2. CASE \E c \in Clients : Health(c)
  <2>1. PICK c \in Clients : Health(c)
    BY <1>2
  <2>2. CASE AskHealth(c)
    <3>1. StartRefresh(FALSE) /\ UNCHANGED <<snapshot, version>>
      BY <2>2 DEF AskHealth, writeVars
    <3>2. /\ refreshing' \in BOOLEAN /\ refresher' \subseteq Thread
          /\ OneRefresh' /\ ViewsAreOrdered'
      BY <3>1, Started
    <3>3. TypeOK'
      BY <1>0, <2>2, <3>2 DEF AskHealth, TypeOK, Thread, gapVars, writeVars
    <3> QED BY <3>2, <3>3 DEF ViewsInv
  <2>3. CASE AnswerHealth(c)
    <3>1. TypeOK' /\ UNCHANGED <<snapshot, refreshing, refresher>> /\ version' >= version
      BY <1>0, <2>3 DEF AnswerHealth, TypeOK, Views, gapVars, writeVars
    <3> QED BY <3>1, CoverageKept
  <2> QED BY <2>1, <2>2, <2>3 DEF Health
<1>3. CASE Expire \/ UNCHANGED vars
  <2>1. gapFresh' \in BOOLEAN /\ snapFresh' \in BOOLEAN
    BY <1>0, <1>3 DEF Expire, ProfileExpires, SnapshotExpires, TypeOK, vars,
                      gapVars, coverageVars
  <2>2. UNCHANGED <<writeVars, errors, gapCache, reader, snapshot, refreshing, refresher, client>>
    BY <1>3 DEF Expire, ProfileExpires, SnapshotExpires, vars, gapVars, coverageVars
  <2>3. TypeOK' /\ version' >= version
    BY <1>0, <2>1, <2>2 DEF TypeOK, Views, writeVars
  <2> QED BY <2>2, <2>3, CoverageKept
<1> QED BY <1>1, <1>2, <1>3, WriterSteps, ReaderSteps, RefreshSteps DEF Next, Writing

LEMMA ViewsInvariant == Spec => []ViewsInv
  BY ViewsInit, ViewsStep, PTL DEF Spec

\* Every view, flag and thread stays in its range, for both caches
\* (warehouse.py:632-643, service.py:193-280).
THEOREM TypeCorrect == Spec => []TypeOK
<1>1. ViewsInv => TypeOK
  BY DEF ViewsInv
<1> QED BY <1>1, ViewsInvariant, PTL

\* The snapshot on the page never goes back to an older state of the warehouse:
\* one refresh runs at a time, so none can store a view it has read before the
\* view of another, however many clients poll and force refreshes
\* (service.py:254-280).
THEOREM SnapshotsGoForward == Spec => SnapshotGoesForward
<1>1. ViewsInv /\ [Next]_vars => [ForwardStep]_vars
  <2> SUFFICES ASSUME ViewsInv, Next
               PROVE  ForwardStep
    OBVIOUS
  <2>1. CASE snapshot' = snapshot
    BY <2>1 DEF ForwardStep
  <2>2. CASE \E t \in refresher : StoreSnapshot(t)
    BY <2>2 DEF ViewsInv, ViewsAreOrdered, StoreSnapshot, ForwardStep
  <2>3. snapshot' = snapshot \/ \E t \in refresher : StoreSnapshot(t)
    BY DEF Next, Writing, Invalidate, ForceRefresh, WritePartition, ForeignWrite, AskProfile,
           Profile, ProfileHit, ProfileMiss, ComputeProfile, ComputeFails, StoreProfile,
           ProfileAnswered, Health, AskHealth, AnswerHealth, Refresh, ReadCoverage,
           FinishRefresh, Expire, ProfileExpires, SnapshotExpires, coverageVars
  <2> QED BY <2>1, <2>2, <2>3
<1> QED BY <1>1, ViewsInvariant, PTL DEF Spec, SnapshotGoesForward

\* The flag that bars a second refresh is up exactly while there is a refresh, and there
\* is never more than one: a refresh that ends, whatever it has read, lets the next one
\* begin (service.py:254-280).
THEOREM RefreshesAreSingle ==
  Spec => []((refreshing <=> refresher # {}) /\ \A t, u \in refresher : t = u)
<1>1. ViewsInv => (refreshing <=> refresher # {}) /\ \A t, u \in refresher : t = u
  BY DEF ViewsInv, OneRefresh
<1> QED BY <1>1, ViewsInvariant, PTL

\* What is served agrees with the warehouse, and nothing that could replace it disagrees.
Settled ==
    /\ snapshot = version
    /\ \A t \in refresher : t.pc = "store" => t.view = version
    /\ gapCache \in {None, version}
    /\ \A r \in Readers : reader[r].pc \in {"store", "served"} => reader[r].profile = version

\* A refresh that begins has read nothing yet.
LEMMA StartedSettled ==
  ASSUME Settled, NEW force, StartRefresh(force), UNCHANGED <<snapshot, version, gapVars>>
  PROVE  Settled'
<1>1. refresher' = refresher \/ refresher' = refresher \cup {[pc |-> "read", view |-> 0]}
  BY DEF StartRefresh
<1>2. \A t \in refresher' : t \in refresher \/ t.pc = "read"
  BY <1>1
<1> QED BY <1>2 DEF Settled, gapVars

\* Both views, once they agree with the warehouse, do so until the next write or
\* unreadable partition: no thread brings back what it has read before.  It is the
\* part of the convergence of the views that is about safety
\* (service.py:193-280, warehouse.py:632-643).
THEOREM RightViewsStay ==
  Spec => [][Settled /\ UNCHANGED <<version, errors>> =>
               Settled' /\ snapshot' = version' /\ ~StaleProfileServed']_vars
<1>2. ViewsInv /\ [Next]_vars /\ Settled /\ UNCHANGED <<version, errors>> => Settled'
  <2> SUFFICES ASSUME ViewsInv, [Next]_vars, Settled, UNCHANGED <<version, errors>>
               PROVE  Settled'
    OBVIOUS
  <2>0. version \in Nat /\ errors \in Nat /\ None \notin Nat
    BY DEF ViewsInv, TypeOK, Views
  <2>1. CASE WritePartition \/ ForeignWrite
    BY <2>0, <2>1 DEF WritePartition, ForeignWrite
  <2>2. CASE Invalidate
    BY <2>2 DEF Invalidate, Settled, coverageVars
  <2>3. CASE ForceRefresh
    BY <2>3, StartedSettled DEF ForceRefresh
  <2>4. ASSUME NEW r \in Readers, AskProfile(r) \/ Profile(r) PROVE Settled'
    <3>1. reader \in [Readers -> [pc : {"idle", "lookup", "compute", "store", "served"},
                                  since : Views, profile : Views \cup {None}]]
      BY DEF ViewsInv, TypeOK
    <3>2. UNCHANGED coverageVars
      BY <2>4 DEF AskProfile, Profile, ProfileHit, ProfileMiss, ComputeProfile, ComputeFails,
                  StoreProfile, ProfileAnswered
    <3>3. gapCache' \in {None, version}
      BY <2>4 DEF AskProfile, Profile, ProfileHit, ProfileMiss, ComputeProfile, ComputeFails,
                  StoreProfile, ProfileAnswered, Settled
    <3>4. \A q \in Readers : q # r => reader'[q] = reader[q]
      BY <2>4, <3>1 DEF AskProfile, Profile, ProfileHit, ProfileMiss, ComputeProfile,
                        ComputeFails, StoreProfile, ProfileAnswered
    <3>5. reader'[r].pc \in {"store", "served"} => reader'[r].profile = version
      BY <2>4, <3>1 DEF AskProfile, Profile, ProfileHit, ProfileMiss, ComputeProfile,
                        ComputeFails, StoreProfile, ProfileAnswered, Settled
    <3> QED BY <3>2, <3>3, <3>4, <3>5 DEF Settled, coverageVars
  <2>5. ASSUME NEW c \in Clients, Health(c) PROVE Settled'
    <3>1. CASE AskHealth(c)
      BY <3>1, StartedSettled DEF AskHealth
    <3>2. CASE AnswerHealth(c)
      BY <3>2 DEF AnswerHealth, Settled, gapVars
    <3> QED BY <2>5, <3>1, <3>2 DEF Health
  <2>6. ASSUME NEW t \in refresher, ReadCoverage(t) \/ StoreSnapshot(t) \/ FinishRefresh(t)
        PROVE  Settled'
    <3>1. UNCHANGED gapVars
      BY <2>6 DEF ReadCoverage, StoreSnapshot, FinishRefresh
    <3>2. CASE ReadCoverage(t)
      <4>1. errors' # errors + 1
        BY <2>0
      <4>2. refresher' = (refresher \ {t}) \cup {[pc |-> "store", view |-> version]}
            /\ snapshot' = snapshot
        BY <3>2, <4>1 DEF ReadCoverage
      <4>3. \A u \in refresher' : u \in refresher \/ u.view = version
        BY <4>2
      <4> QED BY <3>1, <4>2, <4>3 DEF Settled, gapVars
    <3>3. CASE StoreSnapshot(t)
      <4>1. /\ t.pc = "store" /\ snapshot' = t.view
            /\ refresher' = (refresher \ {t}) \cup {[pc |-> "finish", view |-> t.view]}
        BY <3>3 DEF StoreSnapshot
      <4>2. \A u \in refresher' : u \in refresher \/ u.pc = "finish"
        BY <4>1
      <4> QED BY <3>1, <4>1, <4>2 DEF Settled, gapVars
    <3>4. CASE FinishRefresh(t)
      BY <3>1, <3>4 DEF FinishRefresh, Settled, gapVars
    <3> QED BY <2>6, <3>2, <3>3, <3>4
  <2>7. CASE Expire \/ UNCHANGED vars
    BY <2>7 DEF Expire, ProfileExpires, SnapshotExpires, vars, gapVars, coverageVars, Settled
  <2> QED BY <2>1, <2>2, <2>3, <2>4, <2>5, <2>6, <2>7 DEF Next, Writing, Refresh
<1>3. Settled' => snapshot' = version' /\ ~StaleProfileServed'
  BY DEF Settled, StaleProfileServed
<1> QED BY <1>2, <1>3, ViewsInvariant, PTL DEF Spec

\* A reader has asked after some write was announced, and what it has to offer is a profile.
AskedBefore ==
    /\ announced <= version
    /\ \A r \in Readers :
          /\ reader[r].since <= announced
          /\ reader[r].pc \in {"store", "served"} => reader[r].profile \in Nat

\* What a step of a reader does: it leaves the others alone, and what it stores or
\* serves is in the cache or the state of the warehouse.
LEMMA ReaderMoves ==
  ASSUME ViewsInv, AskedBefore, NEW r \in Readers, AskProfile(r) \/ Profile(r)
  PROVE  /\ UNCHANGED <<version, announced>>
         /\ \A q \in Readers : q # r => reader'[q] = reader[q]
         /\ reader'[r].since \in {announced, reader[r].since, 0}
         /\ reader'[r].pc = "store" => reader'[r].profile = version
         /\ reader'[r].pc = "served" =>
              /\ reader'[r].since = reader[r].since
              /\ \/ gapCache # None /\ reader'[r].profile = gapCache
                 \/ reader[r].pc = "store" /\ reader'[r].profile = reader[r].profile
         /\ gapCache' = gapCache \/ (reader[r].pc = "store" /\ gapCache' = reader[r].profile)
<1>1. reader \in [Readers -> [pc : {"idle", "lookup", "compute", "store", "served"},
                              since : Views, profile : Views \cup {None}]]
  BY DEF ViewsInv, TypeOK
<1>2. CASE AskProfile(r) \/ ProfileAnswered(r)
  BY <1>1, <1>2 DEF AskProfile, ProfileAnswered, writeVars
<1>3. CASE ProfileHit(r)
  BY <1>1, <1>3 DEF ProfileHit, writeVars
<1>4. CASE ProfileMiss(r) \/ ComputeProfile(r) \/ ComputeFails(r)
  BY <1>1, <1>4 DEF ProfileMiss, ComputeProfile, ComputeFails, writeVars
<1>5. CASE StoreProfile(r)
  BY <1>1, <1>5 DEF StoreProfile, writeVars
<1> QED BY <1>2, <1>3, <1>4, <1>5 DEF Profile

\* The steps of the threads that do not read profiles, but for the announcement.
LEMMA OtherMoves ==
  ASSUME ViewsInv, [Next]_vars, ~Invalidate, \A r \in Readers : ~(AskProfile(r) \/ Profile(r))
  PROVE  UNCHANGED <<announced, gapCache, reader>> /\ version' >= version
<1>0. version \in Nat
  BY DEF ViewsInv, TypeOK, Views
<1>1. CASE WritePartition \/ ForeignWrite
  BY <1>0, <1>1 DEF WritePartition, ForeignWrite, gapVars
<1>2. CASE ForceRefresh
  BY <1>0, <1>2 DEF ForceRefresh, gapVars
<1>3. ASSUME NEW c \in Clients, Health(c)
      PROVE  UNCHANGED <<announced, gapCache, reader>> /\ version' >= version
  <2>1. CASE AskHealth(c)
    BY <1>0, <2>1 DEF AskHealth, writeVars, gapVars
  <2>2. CASE AnswerHealth(c)
    BY <1>0, <2>2 DEF AnswerHealth, writeVars, gapVars
  <2> QED BY <1>3, <2>1, <2>2 DEF Health
<1>4. CASE Refresh
  BY <1>0, <1>4 DEF Refresh, ReadCoverage, StoreSnapshot, FinishRefresh, writeVars, gapVars
<1>5. CASE Expire \/ UNCHANGED vars
  BY <1>0, <1>5 DEF Expire, ProfileExpires, SnapshotExpires, vars, writeVars, gapVars
<1> QED BY <1>1, <1>2, <1>3, <1>4, <1>5 DEF Next, Writing

LEMMA AskedBeforeStep == ViewsInv /\ AskedBefore /\ [Next]_vars => AskedBefore'
<1> SUFFICES ASSUME ViewsInv, AskedBefore, [Next]_vars PROVE AskedBefore'
  OBVIOUS
<1>0. /\ version \in Nat /\ announced \in Nat /\ version' \in Nat
      /\ gapCache \in Nat \cup {None} /\ \A r \in Readers : reader[r].since \in Nat
  <2>1. ViewsInv'
    BY ViewsStep
  <2>2. version' \in Nat
    BY <2>1 DEF ViewsInv, TypeOK, Views
  <2> QED BY <2>2 DEF ViewsInv, TypeOK, Views
<1>1. CASE Invalidate
  BY <1>0, <1>1 DEF Invalidate, AskedBefore
<1>2. ASSUME NEW r \in Readers, AskProfile(r) \/ Profile(r) PROVE AskedBefore'
  <2>1. /\ announced' <= version' /\ announced' = announced
        /\ \A q \in Readers : q # r => reader'[q] = reader[q]
    BY <1>2, ReaderMoves DEF AskedBefore
  <2>2. reader'[r].since <= announced'
    BY <1>0, <1>2, <2>1, ReaderMoves DEF AskedBefore
  <2>3. reader'[r].pc \in {"store", "served"} => reader'[r].profile \in Nat
    BY <1>0, <1>2, ReaderMoves DEF AskedBefore
  <2> QED BY <2>1, <2>2, <2>3 DEF AskedBefore
<1>3. CASE ~Invalidate /\ \A r \in Readers : ~(AskProfile(r) \/ Profile(r))
  BY <1>0, <1>3, OtherMoves DEF AskedBefore
<1> QED BY <1>1, <1>2, <1>3

\* No profile that is served, kept in the cache or about to be put there is older than
\* the writes announced before it was asked for.
ProfilesAreCurrent ==
    /\ NextReadReflectsWrite
    /\ gapCache # None => gapCache >= announced
    /\ \A r \in Readers : reader[r].pc = "store" => reader[r].profile >= announced

\* A write is announced while a reader holds a profile from before it.
Overtaken ==
    /\ Invalidate
    /\ \E r \in Readers : reader[r].pc = "store" /\ reader[r].profile < version

\* The next read reflects the latest write, which TLC finds violated, except for one
\* cause: a profile that is being computed outside the lock while the write completes
\* (warehouse.py:163-166, 632-643).  Nothing else takes the service from a state in which
\* its profiles are current to one in which they are not.
THEOREM OnlyASlowReadIsStale ==
  Spec => /\ ProfilesAreCurrent
          /\ [][ProfilesAreCurrent => ProfilesAreCurrent' \/ Overtaken]_vars
<1>1. Init => AskedBefore /\ ProfilesAreCurrent
  BY DEF Init, AskedBefore, ProfilesAreCurrent, NextReadReflectsWrite
<1>2. ViewsInv /\ AskedBefore /\ [Next]_vars /\ ProfilesAreCurrent
        => ProfilesAreCurrent' \/ Overtaken
  <2> SUFFICES ASSUME ViewsInv, AskedBefore, [Next]_vars, ProfilesAreCurrent, ~Overtaken
               PROVE  ProfilesAreCurrent'
    OBVIOUS
  <2>0. /\ version \in Nat /\ announced \in Nat
        /\ gapCache \in Nat \cup {None} /\ \A r \in Readers : reader[r].since \in Nat
    BY DEF ViewsInv, TypeOK, Views
  <2>1. CASE Invalidate
    <3>1. gapCache' = None /\ announced' = version /\ reader' = reader
      BY <2>1 DEF Invalidate
    <3>2. \A r \in Readers : reader[r].pc = "store" => reader[r].profile >= version
      BY <2>0, <2>1 DEF Overtaken, AskedBefore
    <3> QED BY <3>1, <3>2 DEF ProfilesAreCurrent, NextReadReflectsWrite
  <2>2. ASSUME NEW r \in Readers, AskProfile(r) \/ Profile(r) PROVE ProfilesAreCurrent'
    <3>1. /\ announced' = announced
          /\ \A q \in Readers : q # r => reader'[q] = reader[q]
      BY <2>2, ReaderMoves
    <3>2. gapCache' # None => gapCache' >= announced'
      BY <2>2, ReaderMoves DEF ProfilesAreCurrent
    <3>3. reader'[r].pc = "store" => reader'[r].profile >= announced'
      BY <2>0, <2>2, <3>1, ReaderMoves DEF AskedBefore
    <3>4. reader'[r].pc = "served" => reader'[r].profile >= reader'[r].since
      <4>1. SUFFICES ASSUME reader'[r].pc = "served"
                     PROVE  reader'[r].profile >= reader'[r].since
        OBVIOUS
      <4>2. reader'[r].profile \in Nat /\ reader'[r].profile >= announced
        BY <2>0, <2>2, <4>1, ReaderMoves DEF ProfilesAreCurrent, AskedBefore
      <4>3. reader'[r].since = reader[r].since /\ reader[r].since <= announced
        BY <2>2, <4>1, ReaderMoves DEF AskedBefore
      <4> QED BY <2>0, <4>2, <4>3
    <3> QED BY <3>1, <3>2, <3>3, <3>4 DEF ProfilesAreCurrent, NextReadReflectsWrite
  <2>3. CASE ~Invalidate /\ \A r \in Readers : ~(AskProfile(r) \/ Profile(r))
    BY <2>3, OtherMoves DEF ProfilesAreCurrent, NextReadReflectsWrite
  <2> QED BY <2>1, <2>2, <2>3
<1>3. Spec => [](ViewsInv /\ AskedBefore)
  BY <1>1, ViewsInit, ViewsStep, AskedBeforeStep, PTL DEF Spec
<1> QED BY <1>1, <1>2, <1>3, PTL DEF Spec

HIDE ViewsAssumption

-------------------------------------------------------------------------------
(* Part 2: sums over finite sets.  An element of each part of the set is       *)
(* taken out first; that it does not matter which is shown by induction on     *)
(* the parts, which are well-founded.                                          *)

Pick(s) == CHOOSE x \in s : TRUE

\* g sums up f over each part of S, taking out one element after the other.
Adds(g, f, S) ==
    g = [s \in SUBSET S |->
            IF s = {} THEN 0 ELSE f[Pick(s)] + g[s \ {Pick(s)}]]

Total(f, S) == (CHOOSE g : Adds(g, f, S))[S]

LEMMA PickIsIn == \A s : s # {} => Pick(s) \in s
  BY DEF Pick

\* Induction on the parts of a finite set.
LEMMA PartsInduction ==
  ASSUME NEW S, IsFiniteSet(S), NEW T,
         \A s \in SUBSET S : (\A t \in SUBSET s : t # s => t \in T) => s \in T
  PROVE  SUBSET S \subseteq T
<1> DEFINE B == (SUBSET S) \ T
<1> SUFFICES ASSUME B # {} PROVE FALSE
  OBVIOUS
<1>1. IsWellFoundedOn(StrictSubsetOrdering(S), FiniteSubsetsOf(S))
  BY FS_StrictSubsetOrderingWellFounded
<1>2. B \subseteq FiniteSubsetsOf(S)
  BY FS_Subset DEF FiniteSubsetsOf
<1> HIDE DEF B
<1>3. PICK s \in B : \A t \in B : <<t, s>> \notin StrictSubsetOrdering(S)
  BY <1>1, <1>2, WFMin
<1> USE DEF B
<1>4. ASSUME NEW t \in SUBSET s, t # s PROVE t \in T
  <2>1. <<t, s>> \in StrictSubsetOrdering(S)
    BY <1>4 DEF StrictSubsetOrdering
  <2> QED BY <2>1, <1>3
<1> QED BY <1>3, <1>4

LEMMA AddsAgree ==
  ASSUME NEW f, NEW U, IsFiniteSet(U), NEW V \in SUBSET U,
         NEW g, Adds(g, f, U), NEW h, Adds(h, f, V)
  PROVE  \A s \in SUBSET V : g[s] = h[s]
<1> DEFINE T == {s \in SUBSET V : g[s] = h[s]}
<1>1. ASSUME NEW s \in SUBSET V, \A t \in SUBSET s : t # s => t \in T
      PROVE  s \in T
  <2>1. CASE s = {}
    BY <2>1 DEF Adds
  <2>2. CASE s # {}
    <3>1. s \ {Pick(s)} \in T
      BY <1>1, <2>2, PickIsIn
    <3> QED BY <3>1, <2>2 DEF Adds
  <2> QED BY <2>1, <2>2
<1>2. IsFiniteSet(V)
  BY FS_Subset
<1> HIDE DEF T
<1>3. SUBSET V \subseteq T
  BY <1>1, <1>2, PartsInduction
<1> QED BY <1>3 DEF T

LEMMA AddsExists ==
  ASSUME NEW S, IsFiniteSet(S), NEW f
  PROVE  \E g : Adds(g, f, S)
<1> DEFINE T == {s \in SUBSET S : \E g : Adds(g, f, s)}
           Sum(s) == CHOOSE g : Adds(g, f, s)
<1>1. ASSUME NEW s \in SUBSET S, \A t \in SUBSET s : t # s => t \in T
      PROVE  s \in T
  <2> DEFINE G == [t \in SUBSET s |-> IF t = {} THEN 0
                     ELSE f[Pick(t)] + Sum(t \ {Pick(t)})[t \ {Pick(t)}]]
  <2>1. ASSUME NEW t \in SUBSET s, t # s PROVE Adds(Sum(t), f, t)
    BY <1>1, <2>1
  <2>2. ASSUME NEW t \in SUBSET s, t # {}
        PROVE  /\ Pick(t) \in t /\ t \ {Pick(t)} \in SUBSET s
               /\ t \ {Pick(t)} # s
    BY <2>2, PickIsIn
  <2>3. ASSUME NEW t \in SUBSET s, t # s PROVE G[t] = Sum(t)[t]
    <3>1. Adds(Sum(t), f, t)
      BY <2>1, <2>3
    <3> HIDE DEF Sum
    <3>2. CASE t = {}
      BY <3>1, <3>2 DEF Adds
    <3>3. CASE t # {}
      <4> DEFINE u == t \ {Pick(t)}
      <4>1. u \in SUBSET t /\ u \in SUBSET s /\ u # s
        BY <3>3, <2>2
      <4>2. Adds(Sum(u), f, u)
        BY <4>1, <2>1
      <4>3. IsFiniteSet(t)
        BY FS_Subset
      <4>4. Sum(t)[u] = Sum(u)[u]
        BY <3>1, <4>1, <4>2, <4>3, AddsAgree
      <4>5. Sum(t)[t] = f[Pick(t)] + Sum(t)[u]
        BY <3>1, <3>3 DEF Adds
      <4> QED BY <4>4, <4>5, <3>3
    <3> QED BY <3>2, <3>3
  <2> HIDE DEF Sum
  <2>4. G = [t \in SUBSET s |-> G[t]]
    OBVIOUS
  <2>5. ASSUME NEW t \in SUBSET s
        PROVE  G[t] = IF t = {} THEN 0 ELSE f[Pick(t)] + G[t \ {Pick(t)}]
    <3>1. CASE t = {}
      BY <3>1
    <3>2. CASE t # {}
      <4>1. G[t \ {Pick(t)}] = Sum(t \ {Pick(t)})[t \ {Pick(t)}]
        BY <2>2, <2>3, <3>2
      <4>2. G[t] = f[Pick(t)] + Sum(t \ {Pick(t)})[t \ {Pick(t)}]
        BY <3>2
      <4> HIDE DEF G
      <4> QED BY <4>1, <4>2, <3>2
    <3> QED BY <3>1, <3>2
  <2> HIDE DEF G
  <2>6. Adds(G, f, s)
    BY <2>4, <2>5 DEF Adds
  <2> QED BY <2>6
<1> HIDE DEF T
<1>2. SUBSET S \subseteq T
  BY <1>1, PartsInduction
<1> QED BY <1>2 DEF T

\* What a sum is: nothing for no elements, and any element with the rest.
LEMMA TotalAdds ==
  ASSUME NEW S, IsFiniteSet(S), NEW f, NEW g, Adds(g, f, S)
  PROVE  \A s \in SUBSET S : g[s] = Total(f, s)
<1> SUFFICES ASSUME NEW s \in SUBSET S PROVE g[s] = Total(f, s)
  OBVIOUS
<1> DEFINE h == CHOOSE h : Adds(h, f, s)
<1>1. IsFiniteSet(s)
  BY FS_Subset
<1>2. Adds(h, f, s)
  BY <1>1, AddsExists
<1>3. Total(f, s) = h[s]
  BY DEF Total
<1> HIDE DEF h
<1> QED BY <1>2, <1>3, AddsAgree

LEMMA TotalOfNone ==
  ASSUME NEW f
  PROVE  Total(f, {}) = 0
<1>1. IsFiniteSet({})
  BY FS_EmptySet
<1>2. PICK g : Adds(g, f, {})
  BY <1>1, AddsExists
<1>3. g[{}] = Total(f, {})
  BY <1>1, <1>2, TotalAdds
<1> QED BY <1>2, <1>3 DEF Adds

LEMMA TotalTakesOut ==
  ASSUME NEW S, IsFiniteSet(S), NEW f, \A x \in S : f[x] \in Int
  PROVE  /\ Total(f, S) \in Int
         /\ \A x \in S : Total(f, S) = f[x] + Total(f, S \ {x})
<1>1. PICK g : Adds(g, f, S)
  BY AddsExists
<1>2. \A s \in SUBSET S : g[s] = Total(f, s)
  BY <1>1, TotalAdds
<1> DEFINE T == {s \in SUBSET S : /\ g[s] \in Int
                                 /\ \A x \in s : g[s] = f[x] + g[s \ {x}]}
<1>3. ASSUME NEW s \in SUBSET S, \A t \in SUBSET s : t # s => t \in T
      PROVE  s \in T
  <2> DEFINE y == Pick(s)
  <2>1. CASE s = {}
    BY <1>1, <2>1 DEF Adds
  <2>2. ASSUME s # {} PROVE /\ y \in s /\ g[s] = f[y] + g[s \ {y}]
                            /\ f[y] \in Int /\ g[s \ {y}] \in Int
    <3>1. y \in s
      BY <2>2, PickIsIn
    <3>2. s \ {y} \in T
      BY <3>1, <1>3
    <3> QED BY <2>2, <3>1, <3>2, <1>1 DEF Adds
  <2> HIDE DEF y
  <2>3. ASSUME NEW x \in s PROVE g[s] = f[x] + g[s \ {x}]
    <3>1. CASE x = y
      BY <2>2, <3>1
    <3>2. CASE x # y
      <4>1. y \in s /\ s \ {y} \in T /\ s \ {x} \in T
        BY <2>2, <1>3
      <4>2. x \in s \ {y} /\ y \in s \ {x}
        BY <4>1, <3>2
      <4> DEFINE z == (s \ {x}) \ {y}
      <4>3. (s \ {y}) \ {x} = z
        OBVIOUS
      <4>4. z \in T
        BY <1>3, <4>1, <4>2
      <4>5. f[x] \in Int /\ f[y] \in Int /\ g[z] \in Int
        BY <4>1, <4>4
      <4>6. g[s \ {y}] = f[x] + g[z] /\ g[s \ {x}] = f[y] + g[z]
        BY <4>1, <4>2, <4>3
      <4> HIDE DEF z
      <4> QED BY <2>2, <4>5, <4>6
    <3> QED BY <3>1, <3>2
  <2>4. CASE s # {}
    <3>1. g[s] \in Int
      BY <2>2, <2>4
    <3> QED BY <2>3, <3>1
  <2> QED BY <2>1, <2>4
<1> HIDE DEF T
<1>4. SUBSET S \subseteq T
  BY <1>3, PartsInduction
<1>5. S \in T
  BY <1>4
<1> QED BY <1>2, <1>5 DEF T

-------------------------------------------------------------------------------
(* Part 3: the portfolio.                                                     *)

\* What the sums of the books are sums of.
Costs == [p \in Position |-> p.cost]

Values == [p \in Position |-> PositionValue(p)]

LEMMA Amounts ==
  ASSUME BacktestTypes
  PROVE  /\ Scale \in Nat /\ Scale > 0 /\ Unit \in Nat /\ Unit > 0
         /\ settings \in BacktestSettings
         /\ today \in [Symbols -> Row \cup {NoBar}]
         /\ tomorrow \in [Symbols -> Row \cup {NoBar}]
<1>1. Unit \in Nat /\ Unit > 0
  BY BacktestAssumption DEF Unit
<1>2. NoRows \in [Symbols -> Row \cup {NoBar}]
  BY DEF NoRows
<1> QED BY <1>1, <1>2, BacktestAssumption DEF BacktestTypes, RowsAfter

LEMMA ValuesAreWhole ==
  ASSUME BacktestTypes, NEW p \in Position
  PROVE  PositionValue(p) \in Int
<1>1. p.lots \in Int /\ p.price \in Int /\ p.symbol \in Symbols
  BY DEF Position
<1>2. today[p.symbol] # NoBar => today[p.symbol].close \in Int
  BY <1>1, Amounts DEF Row
<1>3. lastClose[p.symbol] # NoPrice => lastClose[p.symbol] \in Int
  BY <1>1 DEF BacktestTypes
<1>4. Scale \in Int /\ Unit \in Int
  BY Amounts
<1> HIDE DEF Unit
<1>5. \A a, b, c \in Int : a * b * c \in Int
  OBVIOUS
<1>6. p.lots * p.price * Scale * Scale * Scale \in Int
  BY <1>1, <1>4, <1>5
<1> QED BY <1>1, <1>2, <1>3, <1>4, <1>5, <1>6 DEF PositionValue

\* A sum as the community modules define it is the sum of the lemmas above.
LEMMA CostsAddUp ==
  ASSUME NEW S \in SUBSET Position, IsFiniteSet(S)
  PROVE  MapThenSumSet(CostOf, S) = Total(Costs, S)
<1> DEFINE Q(h) == h = [s \in SUBSET S |-> IF s = {} THEN 0
                          ELSE LET x == CHOOSE x \in s : TRUE
                               IN CostOf(x) + h[s \ {x}]]
           g == CHOOSE h : Q(h)
<1>1. MapThenSumSet(CostOf, S) = g[S]
  BY DEF MapThenSumSet, MapThenFoldSet
<1>2. \A x \in S : Costs[x] \in Int /\ Costs[x] = CostOf(x)
  BY DEF Costs, CostOf, Position
<1>3. PICK k : Adds(k, Costs, S)
  BY <1>2, AddsExists
<1>4. \A s \in SUBSET S : s # {} => CostOf(Pick(s)) = Costs[Pick(s)]
  BY <1>2, PickIsIn
<1>5. Q(k)
  BY <1>3, <1>4 DEF Adds, Pick
<1>6. Q(g)
  BY <1>5
<1> HIDE DEF g
<1>7. Adds(g, Costs, S)
  BY <1>6, <1>4 DEF Adds, Pick
<1>8. g[S] = Total(Costs, S)
  BY <1>7, TotalAdds
<1> QED BY <1>1, <1>8

LEMMA ValuesAddUp ==
  ASSUME BacktestTypes, NEW S \in SUBSET Position, IsFiniteSet(S)
  PROVE  MarketValue(S) = Total(Values, S)
<1> DEFINE Q(h) == h = [s \in SUBSET S |-> IF s = {} THEN 0
                          ELSE LET x == CHOOSE x \in s : TRUE
                               IN PositionValue(x) + h[s \ {x}]]
           g == CHOOSE h : Q(h)
<1>1. MarketValue(S) = g[S]
  BY DEF MarketValue, MapThenSumSet, MapThenFoldSet
<1>2. \A x \in S : Values[x] = PositionValue(x)
  BY DEF Values
<1>3. PICK k : Adds(k, Values, S)
  BY AddsExists
<1>4. \A s \in SUBSET S : s # {} => PositionValue(Pick(s)) = Values[Pick(s)]
  BY <1>2, PickIsIn
<1>5. Q(k)
  BY <1>3, <1>4 DEF Adds, Pick
<1>6. Q(g)
  BY <1>5
<1> HIDE DEF g
<1>7. Adds(g, Values, S)
  BY <1>6, <1>4 DEF Adds, Pick
<1>8. g[S] = Total(Values, S)
  BY <1>7, TotalAdds
<1> QED BY <1>1, <1>8

\* The sums that the books are kept in.
LEMMA Sums ==
  ASSUME BacktestTypes, NEW S \in SUBSET Position, IsFiniteSet(S)
  PROVE  /\ MarketValue(S) \in Int
         /\ MapThenSumSet(CostOf, S) \in Int
         /\ \A p \in S : MapThenSumSet(CostOf, S)
                           = p.cost + MapThenSumSet(CostOf, S \ {p})
<1>1. \A p \in S : Values[p] \in Int
  BY ValuesAreWhole DEF Values
<1>2. \A p \in S : Costs[p] \in Int /\ Costs[p] = p.cost
  BY DEF Costs, Position
<1>3. MarketValue(S) \in Int
  BY <1>1, ValuesAddUp, TotalTakesOut
<1>4. MapThenSumSet(CostOf, S) \in Int
  BY <1>2, CostsAddUp, TotalTakesOut
<1>5. ASSUME NEW p \in S
      PROVE  MapThenSumSet(CostOf, S) = p.cost + MapThenSumSet(CostOf, S \ {p})
  <2>1. S \ {p} \in SUBSET Position /\ IsFiniteSet(S \ {p})
    BY FS_Subset
  <2> QED BY <1>2, <2>1, CostsAddUp, TotalTakesOut
<1> QED BY <1>3, <1>4, <1>5

\* Money is whole.
LEMMA Money ==
  ASSUME BacktestTypes
  PROVE  /\ \A q \in Nat : BuyPrice(q) \in Nat /\ LotCost(q) \in Nat
         /\ \A q \in Nat \ {0} : LotCost(q) > 0
         /\ \A p \in Position, q \in Int : Proceeds(p, q) \in Int
         /\ \A p \in Position : /\ StopLossPrice(p) \in Int
                                /\ TakeProfitPrice(p) \in Int
         /\ \A q \in Nat : Fine(q) \in Nat
<1> DEFINE st == settings
<1>1. /\ Scale \in Nat /\ Scale > 0
      /\ \A f \in {"slippage", "fee", "tax", "takeProfit", "stopLoss"} : st[f] \in Nat
  BY Amounts DEF BacktestSettings
<1>2. /\ \A a, b \in Int : a * b \in Int
      /\ \A a, b \in Nat : a * b \in Nat
      /\ \A a, b \in Nat : a > 0 /\ b > 0 => a * b > 0
  OBVIOUS
<1>3. ASSUME NEW q \in Nat
      PROVE  /\ BuyPrice(q) \in Nat /\ LotCost(q) \in Nat /\ Fine(q) \in Nat
             /\ q > 0 => LotCost(q) > 0
  <2>1. Scale + settings.slippage \in Nat /\ Scale + settings.slippage > 0
    BY <1>1
  <2>2. Scale + settings.fee \in Nat /\ Scale + settings.fee > 0
    BY <1>1
  <2>3. BuyPrice(q) \in Nat /\ (q > 0 => BuyPrice(q) > 0)
    BY <2>1, <1>2 DEF BuyPrice
  <2>4. LotCost(q) \in Nat /\ (q > 0 => LotCost(q) > 0)
    <3> DEFINE a == BuyPrice(q) * (Scale + settings.fee)
    <3>1. a \in Nat /\ (q > 0 => a > 0)
      BY <2>2, <2>3, <1>2
    <3> HIDE DEF a
    <3>2. a * Scale \in Nat /\ (q > 0 => a * Scale > 0)
      BY <3>1, <1>1, <1>2
    <3>3. (a * Scale) * Scale \in Nat /\ (q > 0 => (a * Scale) * Scale > 0)
      BY <3>2, <1>1, <1>2
    <3> QED BY <3>3 DEF LotCost, a
  <2>5. Fine(q) \in Nat
    BY <1>1, <1>2 DEF Fine
  <2> QED BY <2>3, <2>4, <2>5
<1>4. ASSUME NEW p \in Position
      PROVE  /\ StopLossPrice(p) \in Int /\ TakeProfitPrice(p) \in Int
             /\ \A q \in Int : Proceeds(p, q) \in Int
  <2>1. p.price \in Int /\ p.lots \in Int
    BY DEF Position
  <2>2. /\ Scale + settings.takeProfit \in Int /\ Scale - settings.stopLoss \in Int
        /\ Scale - settings.slippage \in Int
        /\ Scale - settings.fee - settings.tax \in Int
    BY <1>1
  <2>3. StopLossPrice(p) \in Int /\ TakeProfitPrice(p) \in Int
    BY <2>1, <2>2, <1>2 DEF StopLossPrice, TakeProfitPrice
  <2>4. \A q \in Int : Proceeds(p, q) \in Int
    BY <2>1, <2>2, <1>2 DEF Proceeds
  <2> QED BY <2>3, <2>4
<1> QED BY <1>3, <1>4

-------------------------------------------------------------------------------
(* The types, with what is known of the open positions: they are finitely     *)
(* many, one for each symbol, and those bought for tomorrow only stand there   *)
(* once the equity point is recorded.                                          *)

PositionsAreDistinct ==
    /\ IsFiniteSet(open)
    /\ \A p, q \in open : p.symbol = q.symbol => p = q

BoughtInTime ==
    \A p \in open : p.bought <= IF pc = "exits" THEN day ELSE day + 1

AllVisited == pc # "exits" => unvisited = {}

BooksInv ==
    /\ BacktestTypes
    /\ PositionsAreDistinct
    /\ BoughtInTime
    /\ AllVisited

\* How a step of the loop over the positions leaves the set of them.
LEMMA Changed ==
  ASSUME PositionsAreDistinct, NEW p \in open, NEW q,
         q.symbol = p.symbol, open' = (open \ {p}) \cup {q}
  PROVE  PositionsAreDistinct'
BY FS_Subset, FS_AddElement DEF PositionsAreDistinct

LEMMA Removed ==
  ASSUME PositionsAreDistinct, NEW p \in open, open' = open \ {p}
  PROVE  PositionsAreDistinct'
BY FS_Subset DEF PositionsAreDistinct

\* What is sold, and for how much.
LEMMA PricesAreWhole ==
  ASSUME BacktestTypes, NEW p \in open, CanTrade(p), NEW q \in ExitPrices(p)
  PROVE  q \in Int
<1>1. p \in Position /\ p.symbol \in Symbols
  BY DEF BacktestTypes, Position
<1>2. today[p.symbol] \in Row
  BY <1>1, Amounts DEF CanTrade
<1>3. Fine(today[p.symbol].open) \in Int
  BY <1>2, Money DEF Row
<1>4. StopLossPrice(p) \in Int /\ TakeProfitPrice(p) \in Int
  BY <1>1, Money
<1> QED BY <1>3, <1>4 DEF ExitPrices, IntradayExit, Smaller, Larger

LEMMA InitBooks == BacktestInit => BooksInv
<1> SUFFICES ASSUME BacktestInit PROVE BooksInv
  OBVIOUS
<1>1. cash \in Int
  <2>1. settings.initialCash \in Int /\ Unit \in Int
    BY BacktestAssumption DEF BacktestInit, BacktestSettings, Unit
  <2> QED BY <2>1 DEF BacktestInit
<1>2. BacktestTypes
  BY <1>1, BacktestAssumption DEF BacktestInit, BacktestTypes
<1>3. IsFiniteSet(open)
  BY FS_EmptySet DEF BacktestInit
<1> QED BY <1>2, <1>3 DEF BacktestInit, BooksInv, PositionsAreDistinct, BoughtInTime,
                        AllVisited

LEMMA HoldBooks ==
  ASSUME BooksInv, NEW p \in unvisited, Hold(p)
  PROVE  BooksInv'
<1>1. BacktestTypes'
  BY DEF BooksInv, BacktestTypes, Hold, Visited, rowVars, RowsAfter
<1> QED BY <1>1 DEF BooksInv, Hold, Visited, rowVars, PositionsAreDistinct, BoughtInTime,
                    AllVisited

LEMMA SellBooks ==
  ASSUME BooksInv, NEW p \in unvisited, Sell(p)
  PROVE  BooksInv'
<1>1. p \in open /\ p \in Position /\ p.cost \in Int
  BY DEF BooksInv, BacktestTypes, Position
<1>2. PICK q \in ExitPrices(p) :
        /\ cash' = cash + Proceeds(p, q)
        /\ realised' = realised + Proceeds(p, q) - p.cost
        /\ sold' = sold \cup {[trade |-> p, price |-> q]}
  BY DEF Sell
<1>3. q \in Int /\ Proceeds(p, q) \in Int
  BY <1>1, PricesAreWhole, Money DEF Sell, BooksInv
<1>4. cash' \in Int /\ realised' \in Int
  BY <1>1, <1>2, <1>3 DEF BooksInv, BacktestTypes
<1>5. sold' \subseteq [trade : Position, price : Int]
  BY <1>1, <1>2, <1>3 DEF BooksInv, BacktestTypes
<1>6. open' \subseteq Position /\ unvisited' \subseteq open'
  BY DEF Sell, Visited, BooksInv, BacktestTypes
<1>7. BacktestTypes'
  BY <1>4, <1>5, <1>6 DEF BooksInv, BacktestTypes, Sell, rowVars, RowsAfter
<1>8. PositionsAreDistinct'
  BY <1>1, Removed DEF BooksInv, Sell
<1> QED BY <1>7, <1>8 DEF BooksInv, Sell, Visited, rowVars, BoughtInTime, AllVisited

LEMMA RulesBooks ==
  ASSUME BooksInv, NEW p \in unvisited, ApplyExitRules(p)
  PROVE  BooksInv'
<1>1. p \in open /\ p \in Position
  BY DEF BooksInv, BacktestTypes
<1>2. PICK signal \in {0, day} :
        open' = (open \ {p}) \cup {[p EXCEPT !.signalled = signal]}
  BY DEF ApplyExitRules
<1> DEFINE q == [p EXCEPT !.signalled = signal]
<1>3. signal \in 0..Days
  BY BacktestAssumption DEF BooksInv, BacktestTypes
<1>4. q \in Position /\ q.symbol = p.symbol /\ q.bought = p.bought
  BY <1>1, <1>3 DEF Position
<1>5. open' = (open \ {p}) \cup {q}
  BY <1>2
<1> HIDE DEF q
<1>6. open' \subseteq Position /\ unvisited' \subseteq open'
  BY <1>4, <1>5 DEF ApplyExitRules, Visited, BooksInv, BacktestTypes
<1>7. BacktestTypes'
  BY <1>6 DEF BooksInv, BacktestTypes, ApplyExitRules, rowVars, RowsAfter
<1>8. PositionsAreDistinct'
  BY <1>1, <1>4, <1>5, Changed DEF BooksInv
<1>9. BoughtInTime'
  BY <1>1, <1>4, <1>5 DEF BooksInv, BoughtInTime, ApplyExitRules, rowVars
<1> QED BY <1>7, <1>8, <1>9 DEF BooksInv, ApplyExitRules, AllVisited

LEMMA MarkBooks ==
  ASSUME BooksInv, Mark
  PROVE  BooksInv'
<1>1. MarketValue(open) \in Int
  BY Sums DEF BooksInv, PositionsAreDistinct, BacktestTypes
<1>2. marketValue' \in Int /\ point' \in [equity : Int, cash : Int]
  BY <1>1 DEF Mark, BooksInv, BacktestTypes
<1>3. candidates' \subseteq Symbols
  BY DEF Mark
<1>4. BacktestTypes'
  BY <1>2, <1>3 DEF BooksInv, BacktestTypes, Mark, rowVars, RowsAfter
<1>5. BoughtInTime'
  <2>1. \A p \in open : p.bought \in Int
    BY DEF BooksInv, BacktestTypes, Position
  <2> QED BY <2>1 DEF BooksInv, BacktestTypes, BoughtInTime, Mark, rowVars
<1> QED BY <1>4, <1>5 DEF BooksInv, Mark, rowVars, PositionsAreDistinct, AllVisited

LEMMA SkipBooks ==
  ASSUME BooksInv, NEW s \in Symbols, Skip(s)
  PROVE  BooksInv'
<1>1. BacktestTypes'
  BY DEF BooksInv, BacktestTypes, Skip, rowVars, RowsAfter
<1> QED BY <1>1 DEF BooksInv, Skip, rowVars, PositionsAreDistinct, BoughtInTime,
                    AllVisited

\* The position that an order opens.
Order(s) ==
    [symbol |-> s, bought |-> day + 1, price |-> BuyPrice(tomorrow[s].open),
     lots |-> LotsFor(s), cost |-> LotsFor(s) * LotCost(tomorrow[s].open),
     signalled |-> 0]

LEMMA OrderIsPriced ==
  ASSUME BooksInv, NEW s \in Symbols, Buy(s)
  PROVE  /\ day < Days
         /\ BuyPrice(tomorrow[s].open) \in Nat
         /\ LotCost(tomorrow[s].open) \in Nat /\ LotCost(tomorrow[s].open) > 0
<1>1. tomorrow[s] \in Row
  BY Amounts DEF Buy, CanBuy, BooksInv
<1>2. day < Days
  BY DEF Buy, CanBuy, BooksInv, BacktestTypes, RowsAfter, NoRows
<1>3. tomorrow \in MarketDays
  BY <1>2 DEF BooksInv, BacktestTypes, RowsAfter
<1>4. tomorrow[s].open \in Nat \ {0}
  BY <1>1, <1>3, BacktestAssumption DEF Row, Buy, CanBuy
<1> QED BY <1>2, <1>4, Money DEF BooksInv

LEMMA PlanIsCovered ==
  ASSUME BooksInv
  PROVE  PlannedAmount \in Int /\ PlannedAmount <= cash
<1> DEFINE cap   == ((cash + marketValue) * settings.positionSize) \div Scale
           slots == Larger(1, settings.maxPositions - Cardinality(open))
<1>1. /\ cash \in Int /\ marketValue \in Int
      /\ Scale \in Int /\ Scale > 0 /\ settings.positionSize \in Int
      /\ settings.maxPositions \in Int
  BY Amounts DEF BooksInv, BacktestTypes, BacktestSettings
<1>2. Cardinality(open) \in Nat
  BY FS_CardinalityType DEF BooksInv, PositionsAreDistinct
<1>3. cap \in Int
  BY <1>1
<1>4. slots \in Int /\ slots > 0
  BY <1>1, <1>2 DEF Larger
<1> HIDE DEF cap, slots
<1>5. cash \div slots \in Int
  BY <1>1, <1>4
<1>6. PlannedAmount = IF settings.sizing = "fixed_ratio" THEN Smaller(cash, cap)
                      ELSE Smaller(Smaller(cash, cap), cash \div slots)
  BY DEF PlannedAmount, cap, slots
<1> QED BY <1>1, <1>3, <1>5, <1>6 DEF Smaller

LEMMA BuyOrders ==
  ASSUME BooksInv, NEW s \in Symbols, Buy(s)
  PROVE  /\ day < Days
         /\ Order(s) \in Position
         /\ open' = open \cup {Order(s)}
         /\ cash' = cash - Order(s).cost
         /\ \A p \in open : p.symbol # s
         /\ marketValue' \in Int
<1> DEFINE c == LotCost(tomorrow[s].open)
           b == BuyPrice(tomorrow[s].open)
<1>1. day < Days
  BY OrderIsPriced
<1>2. c \in Nat /\ c > 0 /\ b \in Nat
  BY OrderIsPriced
<1>3. PlannedAmount \in Int
  BY PlanIsCovered
<1>4. LotsFor(s) \in Nat \ {0}
  <2>1. LotsFor(s) = PlannedAmount \div c
    BY DEF LotsFor
  <2> HIDE DEF c
  <2>2. LotsFor(s) \in Int
    BY <2>1, <1>2, <1>3
  <2> QED BY <2>2 DEF Buy, CanBuy
<1>5. LotsFor(s) * c \in Nat
  <2> HIDE DEF c
  <2> QED BY <1>2, <1>4
<1>6. day + 1 \in 1..Days
  BY <1>1, BacktestAssumption DEF BooksInv, BacktestTypes
<1>7. Order(s) \in Position
  BY <1>2, <1>4, <1>5, <1>6, BacktestAssumption DEF Order, Position
<1>8. marketValue' \in Int
  <2>1. /\ Scale \in Int /\ marketValue \in Int
        /\ marketValue' = marketValue + LotsFor(s) * b * Scale * Scale * Scale
    BY Amounts DEF Buy, BooksInv, BacktestTypes
  <2> HIDE DEF b
  <2>2. LotsFor(s) \in Int /\ b \in Int
    BY <1>2, <1>4
  <2>3. LotsFor(s) * b * Scale * Scale * Scale \in Int
    BY <2>1, <2>2
  <2> QED BY <2>1, <2>3
<1> QED BY <1>1, <1>7, <1>8 DEF Buy, CanBuy, Order

LEMMA BuyBooks ==
  ASSUME BooksInv, NEW s \in Symbols, Buy(s)
  PROVE  BooksInv'
<1>1. Order(s).symbol = s /\ Order(s).bought = day + 1
  BY DEF Order
<1>2. open' \subseteq Position /\ unvisited' \subseteq open' /\ marketValue' \in Int
  BY BuyOrders DEF BooksInv, BacktestTypes, Buy
<1>3. cash' \in Int /\ opened' \in Nat
  <2>1. Order(s).cost \in Int
    BY BuyOrders DEF Position
  <2> QED BY <2>1, BuyOrders DEF BooksInv, BacktestTypes, Buy
<1>4. BacktestTypes'
  BY <1>2, <1>3 DEF BooksInv, BacktestTypes, Buy, rowVars, RowsAfter
<1>5. PositionsAreDistinct'
  BY <1>1, BuyOrders, FS_AddElement DEF BooksInv, PositionsAreDistinct
<1>6. BoughtInTime'
  <2>1. day' = day /\ pc' = pc /\ pc = "orders"
    BY DEF Buy, rowVars
  <2>2. \A p \in open : p.bought <= day + 1
    BY <2>1 DEF BooksInv, BoughtInTime
  <2> QED BY <2>1, <2>2, <1>1, BuyOrders DEF BoughtInTime, BooksInv, BacktestTypes
<1> QED BY <1>4, <1>5, <1>6 DEF BooksInv, Buy, AllVisited

LEMMA EndDayBooks ==
  ASSUME BooksInv, EndDay
  PROVE  BooksInv'
<1>1. lastClose' \in [Symbols -> Nat \cup {NoPrice}]
  <2>1. \A s \in Symbols : today[s] # NoBar => today[s].close \in Nat
    BY Amounts DEF BooksInv, Row
  <2>2. \A s \in Symbols : lastClose[s] \in Nat \cup {NoPrice}
    BY DEF BooksInv, BacktestTypes
  <2> QED BY <2>1, <2>2 DEF EndDay
<1>2. CASE day < Days
  <2>1. day' \in 1..Days /\ today' \in MarketDays /\ tomorrow' \in RowsAfter(day')
    BY <1>2, BacktestAssumption DEF EndDay, BooksInv, BacktestTypes, RowsAfter
  <2>2. BacktestTypes'
    BY <1>1, <1>2, <2>1 DEF EndDay, BooksInv, BacktestTypes, RowsAfter
  <2> QED BY <1>2, <2>2 DEF EndDay, BooksInv, PositionsAreDistinct, BoughtInTime,
                            AllVisited
<1>3. CASE ~(day < Days)
  <2>1. BacktestTypes'
    BY <1>1, <1>3 DEF EndDay, BooksInv, BacktestTypes, RowsAfter
  <2> QED BY <1>3, <2>1 DEF EndDay, BooksInv, PositionsAreDistinct, BoughtInTime,
                            AllVisited
<1> QED BY <1>2, <1>3

LEMMA StutterBooks ==
  ASSUME BooksInv, UNCHANGED backtestVars
  PROVE  BooksInv'
<1>1. BacktestTypes'
  BY DEF BooksInv, BacktestTypes, backtestVars, rowVars, RowsAfter
<1> QED BY <1>1 DEF BooksInv, backtestVars, rowVars, PositionsAreDistinct, BoughtInTime,
                    AllVisited

LEMMA BooksStep ==
  ASSUME BooksInv, [BacktestNext]_backtestVars
  PROVE  BooksInv'
BY HoldBooks, SellBooks, RulesBooks, MarkBooks, SkipBooks, BuyBooks, EndDayBooks,
   StutterBooks DEF BacktestNext

LEMMA BooksAreTyped == BacktestSpec => []BooksInv
BY InitBooks, BooksStep, PTL DEF BacktestSpec

-------------------------------------------------------------------------------
(* The books.                                                                 *)

CostSum == MapThenSumSet(CostOf, open)

NewCosts == MapThenSumSet(CostOf, BoughtForTomorrow)

Standing == open \ BoughtForTomorrow

StandingValue == MarketValue(Standing)

CashIsAccountedFor ==
    cash + CostSum = settings.initialCash * Unit + realised

PointIsBeforeOrders ==
    pc = "orders" =>
        /\ point.cash = cash + NewCosts
        /\ point.equity = point.cash + StandingValue

LEMMA BalanceIs == BooksBalance <=> CashIsAccountedFor /\ PointIsBeforeOrders
BY DEF BooksBalance, CashIsAccountedFor, PointIsBeforeOrders, CostSum, NewCosts,
       StandingValue, Standing

SumsAreTotals ==
    /\ CostSum = Total(Costs, open)
    /\ NewCosts = Total(Costs, BoughtForTomorrow)
    /\ StandingValue = Total(Values, Standing)

LEMMA SumsAre == BooksInv => SumsAreTotals
<1> SUFFICES ASSUME BooksInv PROVE SumsAreTotals
  OBVIOUS
<1>1. /\ open \in SUBSET Position /\ IsFiniteSet(open)
      /\ BoughtForTomorrow \in SUBSET open /\ Standing \in SUBSET open
  BY DEF BooksInv, BacktestTypes, PositionsAreDistinct, BoughtForTomorrow, Standing
<1>2. IsFiniteSet(BoughtForTomorrow) /\ IsFiniteSet(Standing)
  BY <1>1, FS_Subset
<1> QED BY <1>1, <1>2, CostsAddUp, ValuesAddUp
        DEF BooksInv, CostSum, NewCosts, StandingValue, SumsAreTotals

LEMMA CostTotals ==
  ASSUME NEW S \in SUBSET Position, IsFiniteSet(S)
  PROVE  /\ Total(Costs, S) \in Int
         /\ \A p \in S : Total(Costs, S) = p.cost + Total(Costs, S \ {p})
<1>1. \A p \in S : Costs[p] \in Int /\ Costs[p] = p.cost
  BY DEF Costs, Position
<1> QED BY <1>1, TotalTakesOut

LEMMA InitBalance == BacktestInit => BooksBalance
<1> SUFFICES ASSUME BacktestInit PROVE BooksBalance
  OBVIOUS
<1>1. BooksInv
  BY InitBooks
<1>2. CostSum = 0
  BY <1>1, SumsAre, TotalOfNone DEF BacktestInit, SumsAreTotals
<1>3. cash \in Int
  BY <1>1 DEF BooksInv, BacktestTypes
<1> QED BY <1>2, <1>3, BalanceIs DEF BacktestInit, CashIsAccountedFor, PointIsBeforeOrders

\* What a sale does to the two sides of the books.
LEMMA SidesMatch ==
  ASSUME NEW c \in Int, NEW t \in Int, NEW i \in Int, NEW r \in Int,
         NEW gain \in Int, NEW cost \in Int, NEW u \in Int,
         c + t = i + r, t = cost + u
  PROVE  (c + gain) + u = i + (r + gain - cost)
OBVIOUS

LEMMA CashStep ==
  ASSUME BooksInv, CashIsAccountedFor, BacktestNext, BooksInv'
  PROVE  CashIsAccountedFor'
<1>1. CostSum = Total(Costs, open)
  BY SumsAre DEF SumsAreTotals
<1>2. CostSum' = Total(Costs, open')
  <2>1. BooksInv' => SumsAreTotals'
    BY SumsAre, PTL
  <2> QED BY <2>1 DEF SumsAreTotals, Costs
<1>3. /\ open \in SUBSET Position /\ IsFiniteSet(open)
      /\ open' \in SUBSET Position /\ IsFiniteSet(open')
  BY DEF BooksInv, BacktestTypes, PositionsAreDistinct
<1>4. /\ Total(Costs, open) \in Int /\ Total(Costs, open') \in Int
      /\ cash \in Int /\ realised \in Int
  BY <1>3, CostTotals DEF BooksInv, BacktestTypes
<1>5. settings.initialCash * Unit \in Int
  BY Amounts DEF BooksInv, BacktestSettings
<1>6. CASE open' = open /\ cash' = cash /\ realised' = realised /\ settings' = settings
  BY <1>1, <1>2, <1>6 DEF CashIsAccountedFor, Unit
<1>7. ASSUME NEW p \in unvisited, Sell(p) PROVE CashIsAccountedFor'
  <2>1. p \in open /\ p \in Position /\ p.cost \in Int
    BY DEF BooksInv, BacktestTypes, Position
  <2>2. PICK q \in ExitPrices(p) : /\ cash' = cash + Proceeds(p, q)
                                   /\ realised' = realised + Proceeds(p, q) - p.cost
    BY <1>7 DEF Sell
  <2>3. q \in Int /\ Proceeds(p, q) \in Int
    BY <1>7, <2>1, PricesAreWhole, Money DEF Sell, BooksInv
  <2>4. open' = open \ {p} /\ settings' = settings
    BY <1>7 DEF Sell, rowVars
  <2>5. Total(Costs, open) = p.cost + Total(Costs, open')
    BY <1>3, <2>1, <2>4, CostTotals
  <2> DEFINE i == settings.initialCash * Unit
  <2>6. i' = i
    BY <2>4 DEF Unit
  <2> HIDE DEF i
  <2>7. cash + Total(Costs, open) = i + realised
    BY <1>1 DEF CashIsAccountedFor, i
  <2>8. i \in Int
    BY <1>5 DEF i
  <2>9. cash' + Total(Costs, open') = i + realised'
    BY <1>4, <2>1, <2>2, <2>3, <2>5, <2>7, <2>8, SidesMatch
  <2> QED BY <1>2, <2>6, <2>9 DEF CashIsAccountedFor, i
<1>8. ASSUME NEW p \in unvisited, ApplyExitRules(p) PROVE CashIsAccountedFor'
  <2>1. p \in open /\ p \in Position
    BY DEF BooksInv, BacktestTypes
  <2>2. PICK signal \in {0, day} :
          open' = (open \ {p}) \cup {[p EXCEPT !.signalled = signal]}
    BY <1>8 DEF ApplyExitRules
  <2> DEFINE q == [p EXCEPT !.signalled = signal]
  <2>3. q.symbol = p.symbol /\ q.cost = p.cost
    BY <2>1 DEF Position
  <2>4. q \in open' /\ open' = (open \ {p}) \cup {q}
    BY <2>2
  <2> HIDE DEF q
  <2>5. open' \ {q} = open \ {p}
    BY <2>1, <2>3, <2>4 DEF BooksInv, PositionsAreDistinct
  <2>6. Total(Costs, open') = Total(Costs, open)
    BY <1>3, <2>1, <2>3, <2>4, <2>5, CostTotals
  <2> QED BY <1>1, <1>2, <1>8, <2>6 DEF CashIsAccountedFor, Unit, ApplyExitRules, rowVars
<1>9. ASSUME NEW s \in Symbols, Buy(s) PROVE CashIsAccountedFor'
  <2>1. /\ Order(s) \in Position /\ Order(s).cost \in Int /\ Order(s).symbol = s
        /\ open' = open \cup {Order(s)} /\ Order(s) \notin open
        /\ cash' = cash - Order(s).cost
    BY <1>9, BuyOrders DEF Position, Order
  <2>2. open' \ {Order(s)} = open
    BY <2>1
  <2>3. Total(Costs, open') = Order(s).cost + Total(Costs, open)
    BY <1>3, <2>1, <2>2, CostTotals
  <2>4. cash' + Total(Costs, open') = cash + Total(Costs, open)
    BY <1>4, <2>1, <2>3
  <2> QED BY <1>1, <1>2, <1>9, <2>4 DEF CashIsAccountedFor, Unit, Buy, rowVars
<1> QED BY <1>6, <1>7, <1>8, <1>9
        DEF BacktestNext, Hold, Mark, Skip, EndDay, rowVars

LEMMA PointStep ==
  ASSUME BooksInv, PointIsBeforeOrders, BacktestNext, BooksInv'
  PROVE  PointIsBeforeOrders'
<1>1. /\ NewCosts = Total(Costs, BoughtForTomorrow)
      /\ StandingValue = Total(Values, Standing)
  BY SumsAre DEF SumsAreTotals
<1>2. /\ NewCosts' = Total(Costs, BoughtForTomorrow')
      /\ StandingValue' = Total(Values', Standing')
  <2>1. BooksInv' => SumsAreTotals'
    BY SumsAre, PTL
  <2> QED BY <2>1 DEF SumsAreTotals, Costs
<1>3. \A p \in open : p.bought \in Int
  BY DEF BooksInv, BacktestTypes, Position
<1>4. /\ cash \in Int /\ day \in Int
      /\ open \in SUBSET Position /\ IsFiniteSet(open)
  BY DEF BooksInv, BacktestTypes, PositionsAreDistinct
<1>5. Values' = Values \/ ~UNCHANGED <<today, lastClose>>
  BY DEF Values, PositionValue, Unit
<1>6. CASE Mark
  <2>1. /\ pc = "exits" /\ open' = open /\ cash' = cash /\ day' = day
        /\ UNCHANGED <<today, lastClose>>
        /\ point' = [equity |-> cash + MarketValue(open), cash |-> cash]
    BY <1>6 DEF Mark, rowVars
  <2>2. BoughtForTomorrow' = {}
    BY <2>1, <1>3, <1>4 DEF BooksInv, BoughtInTime, BoughtForTomorrow
  <2>3. Standing' = open
    BY <2>1, <2>2 DEF Standing
  <2>4. StandingValue' = MarketValue(open)
    BY <1>2, <1>4, <1>5, <2>1, <2>3, ValuesAddUp DEF BooksInv
  <2>5. NewCosts' = 0
    BY <1>2, <2>2, TotalOfNone
  <2> QED BY <2>1, <2>4, <2>5, <1>4 DEF PointIsBeforeOrders
<1>7. ASSUME NEW s \in Symbols, Skip(s) PROVE PointIsBeforeOrders'
  <2>1. /\ open' = open /\ day' = day /\ cash' = cash /\ pc' = pc /\ point' = point
        /\ UNCHANGED <<today, lastClose>>
    BY <1>7 DEF Skip, rowVars
  <2>2. BoughtForTomorrow' = BoughtForTomorrow /\ Standing' = Standing
    BY <2>1 DEF BoughtForTomorrow, Standing
  <2> QED BY <1>1, <1>2, <1>5, <2>1, <2>2 DEF PointIsBeforeOrders
<1>8. ASSUME NEW s \in Symbols, Buy(s) PROVE PointIsBeforeOrders'
  <2>1. /\ day' = day /\ pc' = pc /\ point' = point /\ pc = "orders"
        /\ UNCHANGED <<today, lastClose>>
    BY <1>8 DEF Buy, rowVars
  <2>2. /\ Order(s) \in Position /\ Order(s).cost \in Int
        /\ Order(s).bought = day + 1 /\ Order(s) \notin open
        /\ open' = open \cup {Order(s)} /\ cash' = cash - Order(s).cost
    BY <1>8, BuyOrders DEF Position, Order
  <2>3. /\ BoughtForTomorrow' = BoughtForTomorrow \cup {Order(s)}
        /\ Standing' = Standing
    BY <2>1, <2>2 DEF BoughtForTomorrow, Standing
  <2>4. Order(s) \notin BoughtForTomorrow
    BY <2>2 DEF BoughtForTomorrow
  <2>5. /\ BoughtForTomorrow \in SUBSET Position /\ IsFiniteSet(BoughtForTomorrow)
        /\ BoughtForTomorrow' \in SUBSET Position /\ IsFiniteSet(BoughtForTomorrow')
    BY <1>4, <2>2, <2>3, FS_Subset, FS_AddElement DEF BoughtForTomorrow
  <2>6. /\ Total(Costs, BoughtForTomorrow) \in Int
        /\ Total(Costs, BoughtForTomorrow')
             = Order(s).cost + Total(Costs, BoughtForTomorrow)
    <3>1. BoughtForTomorrow' \ {Order(s)} = BoughtForTomorrow
      BY <2>3, <2>4
    <3> QED BY <3>1, <2>3, <2>5, CostTotals
  <2>7. cash' + NewCosts' = cash + NewCosts
    BY <1>1, <1>2, <1>4, <2>2, <2>6
  <2> QED BY <1>1, <1>2, <1>5, <2>1, <2>3, <2>7 DEF PointIsBeforeOrders
<1>9. CASE pc' # "orders"
  BY <1>9 DEF PointIsBeforeOrders
<1> QED BY <1>6, <1>7, <1>8, <1>9 DEF BacktestNext, Hold, Sell, ApplyExitRules, EndDay

LEMMA BalanceStutter ==
  ASSUME BooksInv, BooksBalance, UNCHANGED backtestVars, BooksInv'
  PROVE  BooksBalance'
<1>1. /\ BoughtForTomorrow' = BoughtForTomorrow /\ Standing' = Standing
      /\ Values' = Values /\ Unit' = Unit
  BY DEF backtestVars, rowVars, BoughtForTomorrow, Standing, Values, PositionValue, Unit
<1>2. /\ CostSum' = CostSum /\ NewCosts' = NewCosts /\ StandingValue' = StandingValue
  <2>1. BooksInv' => SumsAreTotals'
    BY SumsAre, PTL
  <2> QED BY <1>1, <2>1, SumsAre DEF SumsAreTotals, Costs, backtestVars
<1>3. CashIsAccountedFor' /\ PointIsBeforeOrders'
  BY <1>1, <1>2, BalanceIs DEF CashIsAccountedFor, PointIsBeforeOrders, backtestVars,
                               rowVars
<1> QED BY <1>3, BalanceIs, PTL

\* The books balance (engine.py:336-353, 704-716, 762-785).
THEOREM BooksAreBalanced == BacktestSpec => []BooksBalance
<1>1. BooksInv /\ BooksBalance /\ [BacktestNext]_backtestVars /\ BooksInv'
        => BooksBalance'
  <2>1. CashIsAccountedFor' /\ PointIsBeforeOrders' => BooksBalance'
    BY BalanceIs, PTL
  <2> QED BY <2>1, BalanceIs, CashStep, PointStep, BalanceStutter
<1> QED BY <1>1, InitBalance, BooksAreTyped, PTL DEF BacktestSpec

-------------------------------------------------------------------------------
(* Sales.                                                                     *)

\* A day's open lies between its low and its high, and so does a threshold that
\* the day went through, unless the day opened beyond it.
LEMMA PricesAreTraded ==
  ASSUME BooksInv, NEW p \in open, CanTrade(p), NEW q \in ExitPrices(p)
  PROVE  Fine(today[p.symbol].low) <= q /\ q <= Fine(today[p.symbol].high)
<1> DEFINE bar == today[p.symbol]
<1>1. p \in Position /\ p.symbol \in Symbols
  BY DEF BooksInv, BacktestTypes, Position
<1>2. bar \in Row
  BY <1>1, Amounts DEF CanTrade, BooksInv
<1>3. bar.low <= bar.open /\ bar.open <= bar.high
  BY <1>1, BacktestAssumption DEF CanTrade, BooksInv, BacktestTypes
<1>4. bar.low \in Nat /\ bar.open \in Nat /\ bar.high \in Nat
  BY <1>2 DEF Row
<1> HIDE DEF bar
<1>5. \A a, b \in Nat : a <= b => Fine(a) <= Fine(b) /\ Fine(a) \in Int /\ Fine(b) \in Int
  <2> SUFFICES ASSUME NEW a \in Nat, NEW b \in Nat, a <= b
               PROVE  Fine(a) <= Fine(b) /\ Fine(a) \in Int /\ Fine(b) \in Int
    OBVIOUS
  <2>1. Scale \in Nat /\ \A x, y, z \in Nat : x <= y => x * z <= y * z /\ x * z \in Nat
    BY Amounts DEF BooksInv
  <2>2. a * Scale <= b * Scale /\ a * Scale \in Nat /\ b * Scale \in Nat
    BY <2>1
  <2>3. (a * Scale) * Scale <= (b * Scale) * Scale
    BY <2>1, <2>2
  <2> QED BY <2>3, Money DEF Fine, BooksInv
<1> DEFINE lo == Fine(bar.low)
           o  == Fine(bar.open)
           hi == Fine(bar.high)
           sl == StopLossPrice(p)
           tp == TakeProfitPrice(p)
<1>6. /\ lo \in Int /\ o \in Int /\ hi \in Int /\ lo <= o /\ o <= hi
      /\ sl \in Int /\ tp \in Int
  BY <1>1, <1>3, <1>4, <1>5, Money DEF BooksInv
<1>7. \/ q = o
      \/ (o <= sl \/ lo <= sl) /\ q = Smaller(o, sl)
      \/ (o >= tp \/ hi >= tp) /\ q = Larger(o, tp)
  BY DEF ExitPrices, IntradayExit, bar
<1> HIDE DEF lo, o, hi, sl, tp
<1>8. lo <= q /\ q <= hi
  BY <1>6, <1>7 DEF Smaller, Larger
<1> QED BY <1>8 DEF lo, hi, bar

LEMMA SalesStep ==
  ASSUME BooksInv, SalesArePossible, [BacktestNext]_backtestVars
  PROVE  SalesArePossible'
<1>1. CASE sold' = sold /\ UNCHANGED <<today, day, settings>>
  BY <1>1 DEF SalesArePossible, Fine
<1>2. ASSUME NEW p \in unvisited, Sell(p) PROVE SalesArePossible'
  <2>1. p \in open /\ CanTrade(p) /\ ~LimitDown(p)
    BY <1>2 DEF Sell, BooksInv, BacktestTypes
  <2>2. PICK q \in ExitPrices(p) : sold' = sold \cup {[trade |-> p, price |-> q]}
    BY <1>2 DEF Sell
  <2>3. Fine(today[p.symbol].low) <= q /\ q <= Fine(today[p.symbol].high)
    BY <2>1, PricesAreTraded
  <2>4. UNCHANGED <<today, day, settings>>
    BY <1>2 DEF Sell, rowVars
  <2> QED BY <2>1, <2>2, <2>3, <2>4 DEF SalesArePossible, Fine, CanTrade, LimitDown
<1>3. CASE EndDay
  <2>1. CASE day < Days
    BY <1>3, <2>1 DEF EndDay, SalesArePossible
  <2>2. CASE ~(day < Days)
    BY <1>3, <2>2, <1>1 DEF EndDay
  <2> QED BY <2>1, <2>2
<1> QED BY <1>1, <1>2, <1>3
        DEF BacktestNext, Hold, ApplyExitRules, Mark, Skip, Buy, backtestVars, rowVars

\* Each sale could have happened (engine.py:364-400, 602-671).
THEOREM SalesCouldHappen == BacktestSpec => []SalesArePossible
<1>1. BacktestInit => SalesArePossible
  BY DEF BacktestInit, SalesArePossible
<1> QED BY <1>1, SalesStep, BooksAreTyped, PTL DEF BacktestSpec

-------------------------------------------------------------------------------
(* Exits.                                                                     *)

IsHeldRightly(p) == CanTrade(p) /\ ShouldBeSold(p) => LimitDown(p)

\* What the loop has visited and left is held rightly, already while it runs.
VisitedAreHeldRightly == \A p \in open \ unvisited : IsHeldRightly(p)

\* Whether a position is held rightly depends on itself and the day.
LEMMA SameDay ==
  ASSUME UNCHANGED <<today, day, settings>>, NEW p
  PROVE  IsHeldRightly(p)' <=> IsHeldRightly(p)
BY DEF IsHeldRightly, CanTrade, ShouldBeSold, LimitDown, Fine, StopLossPrice,
       TakeProfitPrice

LEMMA NoPriceNoReason ==
  ASSUME BooksInv, NEW p \in open, CanTrade(p), ExitPrices(p) = {}
  PROVE  ~ShouldBeSold(p) /\ p.signalled = 0
<1> DEFINE bar == today[p.symbol]
<1>1. p \in Position /\ p.symbol \in Symbols
  BY DEF BooksInv, BacktestTypes, Position
<1>2. bar \in Row
  BY <1>1, Amounts DEF CanTrade, BooksInv
<1>3. bar.low \in Nat /\ bar.open \in Nat /\ bar.high \in Nat
  BY <1>2 DEF Row
<1>4. /\ p.bought \in Int /\ p.signalled \in Nat /\ day \in Int
      /\ settings.holdingDays \in Int
  BY <1>1, Amounts DEF BooksInv, BacktestTypes, Position, BacktestSettings
<1>5. /\ ~(p.signalled > 0) /\ ~(HeldDays(p) >= settings.holdingDays)
      /\ IntradayExit(p, bar) = {}
  BY DEF ExitPrices
<1> HIDE DEF bar
<1>6. /\ ~(settings.stopLoss > 0 /\ Fine(bar.low) <= StopLossPrice(p))
      /\ ~(settings.takeProfit > 0 /\ Fine(bar.high) >= TakeProfitPrice(p))
  BY <1>5 DEF IntradayExit
<1>7. p.signalled = 0
  BY <1>4, <1>5
<1>8. ~(day - p.bought >= settings.holdingDays - 1)
  BY <1>4, <1>5 DEF HeldDays
<1> QED BY <1>6, <1>7, <1>8 DEF ShouldBeSold, bar

LEMMA ExitsStep ==
  ASSUME BooksInv, VisitedAreHeldRightly, [BacktestNext]_backtestVars, BooksInv'
  PROVE  VisitedAreHeldRightly'
<1>1. CASE UNCHANGED <<open, unvisited, today, day, settings>>
  BY <1>1, SameDay DEF VisitedAreHeldRightly
<1>2. ASSUME NEW p \in unvisited, Hold(p) PROVE VisitedAreHeldRightly'
  <2>1. UNCHANGED <<open, today, day, settings>> /\ unvisited' = unvisited \ {p}
    BY <1>2 DEF Hold, rowVars, Visited
  <2>2. IsHeldRightly(p)
    BY <1>2 DEF Hold, IsHeldRightly
  <2> QED BY <2>1, <2>2, SameDay DEF VisitedAreHeldRightly
<1>3. ASSUME NEW p \in unvisited, Sell(p) PROVE VisitedAreHeldRightly'
  <2>1. /\ UNCHANGED <<today, day, settings>>
        /\ unvisited' = unvisited \ {p} /\ open' = open \ {p}
    BY <1>3 DEF Sell, rowVars, Visited
  <2> QED BY <2>1, SameDay DEF VisitedAreHeldRightly
<1>4. ASSUME NEW p \in unvisited, ApplyExitRules(p) PROVE VisitedAreHeldRightly'
  <2>1. /\ UNCHANGED <<today, day, settings>>
        /\ unvisited' = unvisited \ {p}
        /\ p \in open /\ p \in Position /\ CanTrade(p) /\ ExitPrices(p) = {}
    BY <1>4 DEF ApplyExitRules, rowVars, Visited, BooksInv, BacktestTypes
  <2>2. PICK signal \in {0, day} :
          open' = (open \ {p}) \cup {[p EXCEPT !.signalled = signal]}
    BY <1>4 DEF ApplyExitRules
  <2> DEFINE q == [p EXCEPT !.signalled = signal]
  <2>3. /\ q.symbol = p.symbol /\ q.bought = p.bought /\ q.price = p.price
        /\ q.signalled = signal
    BY <2>1 DEF Position
  <2>4. open' = (open \ {p}) \cup {q}
    BY <2>2
  <2> HIDE DEF q
  <2>5. ~ShouldBeSold(p)
    BY <2>1, NoPriceNoReason
  <2>6. ~(0 < signal /\ signal < day)
    BY DEF BooksInv, BacktestTypes
  <2>7. ~ShouldBeSold(q)
    BY <2>3, <2>5, <2>6 DEF ShouldBeSold, StopLossPrice, TakeProfitPrice
  <2>8. IsHeldRightly(q)
    BY <2>7 DEF IsHeldRightly
  <2> QED BY <2>1, <2>4, <2>8, SameDay DEF VisitedAreHeldRightly
<1>5. ASSUME NEW s \in Symbols, Buy(s) PROVE VisitedAreHeldRightly'
  <2>1. UNCHANGED <<unvisited, today, day, settings>> /\ open' = open \cup {Order(s)}
    BY <1>5, BuyOrders DEF Buy, rowVars
  <2>2. ~CanTrade(Order(s))
    BY DEF CanTrade, Order, BooksInv, BacktestTypes
  <2>3. IsHeldRightly(Order(s))
    BY <2>2 DEF IsHeldRightly
  <2> DEFINE o == Order(s)
  <2> HIDE DEF o
  <2>4. open' = open \cup {o} /\ IsHeldRightly(o)
    BY <2>1, <2>3 DEF o
  <2> QED BY <2>1, <2>4, SameDay DEF VisitedAreHeldRightly
<1>6. CASE EndDay
  <2>1. CASE day < Days
    BY <1>6, <2>1 DEF EndDay, VisitedAreHeldRightly
  <2>2. CASE ~(day < Days)
    BY <1>6, <2>2, <1>1 DEF EndDay
  <2> QED BY <2>1, <2>2
<1> QED BY <1>1, <1>2, <1>3, <1>4, <1>5, <1>6
        DEF BacktestNext, Mark, Skip, backtestVars, rowVars

\* A position that should have gone and is still there could not be sold
\* (engine.py:602-682).
THEOREM ExitsHappen == BacktestSpec => []ExitsAreNotMissed
<1>1. BacktestInit => VisitedAreHeldRightly
  BY DEF BacktestInit, VisitedAreHeldRightly
<1>2. BooksInv /\ VisitedAreHeldRightly => ExitsAreNotMissed
  BY DEF BooksInv, AllVisited, VisitedAreHeldRightly, ExitsAreNotMissed, IsHeldRightly
<1> QED BY <1>1, <1>2, ExitsStep, BooksAreTyped, PTL DEF BacktestSpec

-------------------------------------------------------------------------------
(* Cash.                                                                      *)

\* The costs of a sale are not higher than what it brings in.
RatesAreShares ==
    /\ settings.slippage <= Scale
    /\ settings.fee + settings.tax <= Scale

CashSuffices == RatesAreShares => cash >= 0

LEMMA LotsAreAffordable ==
  ASSUME NEW a \in Int, NEW c \in Nat, c > 0
  PROVE  (a \div c) * c <= a
OBVIOUS

LEMMA CashSufficesStep ==
  ASSUME BooksInv, CashSuffices, BacktestNext
  PROVE  CashSuffices'
<1>1. CASE UNCHANGED <<cash, settings>>
  BY <1>1 DEF CashSuffices, RatesAreShares
<1>2. ASSUME NEW p \in unvisited, Sell(p) PROVE CashSuffices'
  <2>1. p \in open /\ p \in Position /\ CanTrade(p) /\ settings' = settings
    BY <1>2 DEF Sell, rowVars, BooksInv, BacktestTypes
  <2>2. PICK q \in ExitPrices(p) : cash' = cash + Proceeds(p, q)
    BY <1>2 DEF Sell
  <2>3. q \in Int /\ q >= 0
    <3>1. Fine(today[p.symbol].low) \in Nat
      BY <2>1, Amounts, Money DEF CanTrade, BooksInv, Row, Position
    <3>2. q \in Int
      BY <2>1, PricesAreWhole DEF BooksInv
    <3> QED BY <3>1, <3>2, <2>1, PricesAreTraded
  <2>4. RatesAreShares => Proceeds(p, q) \in Nat
    <3>1. /\ p.lots \in Nat /\ settings.slippage \in Nat /\ Scale \in Nat
          /\ settings.fee \in Nat /\ settings.tax \in Nat
      BY <2>1, Amounts DEF Position, BooksInv, BacktestSettings
    <3>2. \A a, b \in Nat : a * b \in Nat
      OBVIOUS
    <3>3. RatesAreShares => /\ Scale - settings.slippage \in Nat
                            /\ Scale - settings.fee - settings.tax \in Nat
      BY <3>1 DEF RatesAreShares
    <3> QED BY <2>3, <3>1, <3>2, <3>3 DEF Proceeds
  <2> QED BY <2>1, <2>2, <2>4 DEF CashSuffices, RatesAreShares, BooksInv, BacktestTypes
<1>3. ASSUME NEW s \in Symbols, Buy(s) PROVE CashSuffices'
  <2> DEFINE c == LotCost(tomorrow[s].open)
  <2>1. /\ cash' = cash - LotsFor(s) * c /\ settings' = settings
        /\ LotsFor(s) = PlannedAmount \div c
    BY <1>3 DEF Buy, LotsFor, rowVars
  <2>2. c \in Nat /\ c > 0
    BY <1>3, OrderIsPriced
  <2>3. PlannedAmount \in Int /\ PlannedAmount <= cash
    BY PlanIsCovered
  <2> HIDE DEF c
  <2>4. LotsFor(s) * c <= PlannedAmount
    BY <2>1, <2>2, <2>3, LotsAreAffordable
  <2>5. LotsFor(s) * c \in Int
    BY <2>1, <2>2, <2>3
  <2>6. cash' >= 0
    BY <2>1, <2>3, <2>4, <2>5 DEF BooksInv, BacktestTypes
  <2> QED BY <2>6 DEF CashSuffices
<1> QED BY <1>1, <1>2, <1>3
        DEF BacktestNext, Hold, ApplyExitRules, Mark, Skip, EndDay, rowVars

\* An order is never placed for more than the cash there is, so cash is not
\* spent twice (engine.py:537-548, 762-766).
THEOREM CashIsNotSpentTwice == BacktestSpec => []CashSuffices
<1>1. BacktestInit => CashSuffices
  <2> SUFFICES ASSUME BacktestInit PROVE cash >= 0
    BY DEF CashSuffices
  <2>1. settings.initialCash \in Nat /\ Unit \in Nat
    BY BacktestAssumption DEF BacktestInit, BacktestSettings, Unit
  <2> QED BY <2>1 DEF BacktestInit
<1>2. BooksInv /\ CashSuffices /\ [BacktestNext]_backtestVars => CashSuffices'
  BY CashSufficesStep DEF backtestVars, rowVars, CashSuffices, RatesAreShares
<1> QED BY <1>1, <1>2, BooksAreTyped, PTL DEF BacktestSpec
===============================================================================
