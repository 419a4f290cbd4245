----------------------------- MODULE DerivedViews -----------------------------
(***************************************************************************)
(* What the service keeps in memory about the warehouse:                   *)
(*   - the gap profile, cached by Warehouse.data_gap_profile and dropped   *)
(*     by write_daily_bars (data/warehouse.py);                            *)
(*   - the coverage snapshot, refreshed in the background and served by    *)
(*     /health (service.py).                                               *)
(* A view of the warehouse is the number of partition writes it has seen.  *)
(* Writes come from request handlers, from sync jobs and from scripts in   *)
(* other processes, which know nothing of these caches.                    *)
(***************************************************************************)
EXTENDS Naturals

CONSTANTS
    Readers,    \* threads that ask for the gap profile: /diagnostics, AI tools
    Clients,    \* threads that answer /health
    None,       \* no cached profile
    Fallback,   \* coverage of the legacy cache, used when a partition is unreadable
    MaxWrites,  \* bound on the partition writes
    MaxErrors   \* bound on the reads that meet an unreadable partition

ASSUME ViewsAssumption ==
    /\ MaxWrites \in Nat
    /\ MaxErrors \in Nat
    /\ None \notin Nat
    /\ Fallback \notin Nat

VARIABLES
    version,    \* partition writes so far
    errors,     \* reads that met an unreadable partition so far
    writer,     \* where the writing thread is in write_daily_bars
    announced,  \* the version the latest completed write has left
    gapCache,   \* _gap_profile_cache
    gapFresh,   \* its age is below GAP_PROFILE_TTL_SECONDS
    reader,     \* per reader: where it is, what announced was when it asked, and
                \* the profile it has
    snapshot,   \* _coverage_snapshot
    snapFresh,  \* the age of _coverage_refreshed_at is below the TTL
    refreshing, \* _coverage_refreshing
    refresher,  \* the refresh threads: what each has read
    client      \* per client: where it is in health_payload

writeVars == <<version, writer, announced>>
gapVars == <<gapCache, gapFresh, reader>>
coverageVars == <<snapshot, snapFresh, refreshing, refresher, client>>
vars == <<writeVars, errors, gapVars, coverageVars>>

Init ==
    /\ version = 0
    /\ errors = 0
    /\ writer = "idle"
    /\ announced = 0
    /\ gapCache = None /\ gapFresh = FALSE
    /\ reader = [r \in Readers |-> [pc |-> "idle", since |-> 0, profile |-> None]]
    /\ snapshot = 0 /\ snapFresh = FALSE
    /\ refreshing = FALSE
    /\ refresher = {}
    /\ client = [c \in Clients |-> "idle"]

-------------------------------------------------------------------------------
(* Writes.                                                                  *)

\* write_daily_bars replaces a partition; when it fails at a later year it ends
\* without dropping the gap profile.
WritePartition ==
    /\ version < MaxWrites
    /\ writer = "idle"
    /\ version' = version + 1
    /\ writer' \in {"idle", "written"}
    /\ UNCHANGED <<announced, errors, gapVars, coverageVars>>

\* A script in another process replaces a partition.
ForeignWrite ==
    /\ version < MaxWrites
    /\ version' = version + 1
    /\ UNCHANGED <<writer, announced, errors, gapVars, coverageVars>>

\* invalidate_gap_profile is the last step of a write.  A request handler goes
\* on to refresh the coverage; a sync job does not.
Invalidate ==
    /\ writer = "written"
    /\ gapCache' = None
    /\ gapFresh' = FALSE
    /\ announced' = version
    /\ writer' \in {"idle", "imported"}
    /\ UNCHANGED <<version, errors, reader, coverageVars>>

-------------------------------------------------------------------------------
(* data_gap_profile                                                         *)

AskProfile(r) ==
    /\ reader[r].pc = "idle"
    /\ reader' = [reader EXCEPT ![r] =
          [pc |-> "lookup", since |-> announced, profile |-> None]]
    /\ UNCHANGED <<writeVars, errors, gapCache, gapFresh, coverageVars>>

\* Mutant of ProfileHit: a profile does not age.
ProfileHitAnyAge(r) ==
    /\ reader[r].pc = "lookup"
    /\ gapCache # None
    /\ reader' = [reader EXCEPT ![r].pc = "served", ![r].profile = gapCache]
    /\ UNCHANGED <<writeVars, errors, gapCache, gapFresh, coverageVars>>

ProfileHit(r) ==
    /\ reader[r].pc = "lookup"
    /\ gapCache # None /\ gapFresh
    /\ reader' = [reader EXCEPT ![r].pc = "served", ![r].profile = gapCache]
    /\ UNCHANGED <<writeVars, errors, gapCache, gapFresh, coverageVars>>

ProfileMiss(r) ==
    /\ reader[r].pc = "lookup"
    /\ ~(gapCache # None /\ gapFresh)
    /\ reader' = [reader EXCEPT ![r].pc = "compute"]
    /\ UNCHANGED <<writeVars, errors, gapCache, gapFresh, coverageVars>>

\* _compute_gap_profile, outside the lock.
ComputeProfile(r) ==
    /\ reader[r].pc = "compute"
    /\ reader' = [reader EXCEPT ![r].pc = "store", ![r].profile = version]
    /\ UNCHANGED <<writeVars, errors, gapCache, gapFresh, coverageVars>>

\* An unreadable partition: the reader gets an exception, nothing is cached.
ComputeFails(r) ==
    /\ reader[r].pc = "compute"
    /\ errors < MaxErrors
    /\ errors' = errors + 1
    /\ reader' = [reader EXCEPT ![r].pc = "idle"]
    /\ UNCHANGED <<writeVars, gapCache, gapFresh, coverageVars>>

StoreProfile(r) ==
    /\ reader[r].pc = "store"
    /\ gapCache' = reader[r].profile
    /\ gapFresh' = TRUE
    /\ reader' = [reader EXCEPT ![r].pc = "served"]
    /\ UNCHANGED <<writeVars, errors, coverageVars>>

ProfileAnswered(r) ==
    /\ reader[r].pc = "served"
    /\ reader' = [reader EXCEPT ![r] = [pc |-> "idle", since |-> 0, profile |-> None]]
    /\ UNCHANGED <<writeVars, errors, gapCache, gapFresh, coverageVars>>

\* GAP_PROFILE_TTL_SECONDS have passed.
ProfileExpires ==
    /\ gapFresh
    /\ gapFresh' = FALSE
    /\ UNCHANGED <<writeVars, errors, gapCache, reader, coverageVars>>

-------------------------------------------------------------------------------
(* The coverage snapshot.                                                   *)

\* _has_fresh_coverage_snapshot: an empty snapshot is never fresh.
HasFreshSnapshot == snapshot # 0 /\ snapFresh

\* Mutant of StartRefresh: two refreshes can run at once.
StartRefreshAlways(force) ==
    IF ~force /\ HasFreshSnapshot
    THEN UNCHANGED <<refreshing, refresher>>
    ELSE /\ refreshing' = TRUE
         /\ refresher' = refresher \cup {[pc |-> "read", view |-> 0]}

\* start_coverage_refresh: nothing is started while a refresh is running, not
\* even a forced one.
StartRefresh(force) ==
    IF refreshing \/ (~force /\ HasFreshSnapshot)
    THEN UNCHANGED <<refreshing, refresher>>
    ELSE /\ refreshing' = TRUE
         /\ refresher' = refresher \cup {[pc |-> "read", view |-> 0]}

\* The request handler that has written rows asks for a refresh.
ForceRefresh ==
    /\ writer = "imported"
    /\ writer' = "idle"
    /\ StartRefresh(TRUE)
    /\ UNCHANGED <<version, announced, errors, gapVars, snapshot, snapFresh, client>>

\* _read_coverage_snapshot: the warehouse, else the legacy cache.
ReadCoverage(t) ==
    /\ t.pc = "read"
    /\ \/ /\ refresher' = (refresher \ {t}) \cup {[pc |-> "store", view |-> version]}
          /\ UNCHANGED errors
       \/ /\ errors < MaxErrors
          /\ errors' = errors + 1
          /\ refresher' = (refresher \ {t}) \cup {[pc |-> "store", view |-> Fallback]}
    /\ UNCHANGED <<writeVars, gapVars, snapshot, snapFresh, refreshing, client>>

StoreSnapshot(t) ==
    /\ t.pc = "store"
    /\ snapshot' = t.view
    /\ snapFresh' = TRUE
    /\ refresher' = (refresher \ {t}) \cup {[pc |-> "finish", view |-> t.view]}
    /\ UNCHANGED <<writeVars, errors, gapVars, refreshing, client>>

\* Mutant of FinishRefresh: the flag is left set.
FinishRefreshQuietly(t) ==
    /\ t.pc = "finish"
    /\ refresher' = refresher \ {t}
    /\ UNCHANGED <<writeVars, errors, gapVars, refreshing, snapshot, snapFresh, client>>

FinishRefresh(t) ==
    /\ t.pc = "finish"
    /\ refreshing' = FALSE
    /\ refresher' = refresher \ {t}
    /\ UNCHANGED <<writeVars, errors, gapVars, snapshot, snapFresh, client>>

\* HEALTH_COVERAGE_REFRESH_TTL_SECONDS have passed.
SnapshotExpires ==
    /\ snapFresh
    /\ snapFresh' = FALSE
    /\ UNCHANGED <<writeVars, errors, gapVars, snapshot, refreshing, refresher, client>>

\* health_payload starts a refresh when the snapshot is old, waits a moment ...
AskHealth(c) ==
    /\ client[c] = "idle"
    /\ client' = [client EXCEPT ![c] = "waiting"]
    /\ StartRefresh(FALSE)
    /\ UNCHANGED <<writeVars, errors, gapVars, snapshot, snapFresh>>

\* ... and answers with whatever snapshot there is.
AnswerHealth(c) ==
    /\ client[c] = "waiting"
    /\ client' = [client EXCEPT ![c] = "idle"]
    /\ UNCHANGED <<writeVars, errors, gapVars, snapshot, snapFresh, refreshing, refresher>>

-------------------------------------------------------------------------------

Profile(r) ==
    \/ ProfileHit(r) \/ ProfileMiss(r) \/ ComputeProfile(r) \/ ComputeFails(r)
    \/ StoreProfile(r) \/ ProfileAnswered(r)

Refresh == \E t \in refresher : ReadCoverage(t) \/ StoreSnapshot(t) \/ FinishRefresh(t)

Health(c) == AskHealth(c) \/ AnswerHealth(c)

Writing == Invalidate \/ ForceRefresh

Expire == ProfileExpires \/ SnapshotExpires

Next ==
    \/ WritePartition \/ ForeignWrite \/ Writing
    \/ \E r \in Readers : AskProfile(r) \/ Profile(r)
    \/ \E c \in Clients : Health(c)
    \/ Refresh
    \/ Expire

\* Threads run, time passes, and the user interface polls /health.
Spec ==
    /\ Init /\ [][Next]_vars
    /\ WF_vars(Writing) /\ WF_vars(Refresh)
    /\ WF_vars(ProfileExpires) /\ WF_vars(SnapshotExpires)
    /\ \A r \in Readers : WF_vars(Profile(r))
    /\ \A c \in Clients : WF_vars(Health(c))

-------------------------------------------------------------------------------

Views == 0..MaxWrites

\* Every view, flag and thread stays in the range the two caches give it.
TypeOK ==
    /\ version \in Views
    /\ errors \in 0..MaxErrors
    /\ writer \in {"idle", "written", "imported"}
    /\ announced \in Views
    /\ gapCache \in Views \cup {None}
    /\ gapFresh \in BOOLEAN
    /\ reader \in [Readers ->
          [pc : {"idle", "lookup", "compute", "store", "served"},
           since : Views, profile : Views \cup {None}]]
    /\ snapshot \in Views \cup {Fallback}
    /\ snapFresh \in BOOLEAN
    /\ refreshing \in BOOLEAN
    /\ refresher \subseteq
          [pc : {"read", "store", "finish"}, view : Views \cup {Fallback}]
    /\ client \in [Clients -> {"idle", "waiting"}]

\* The snapshot on the page never goes back to an older state of the warehouse
\* (service.py:270-280).
ForwardStep ==
    snapshot \in Nat /\ snapshot' \in Nat => snapshot <= snapshot'

SnapshotGoesForward == [][ForwardStep]_vars

\* However a forced refresh was dropped or a job ended without one, the polled
\* snapshot is in the end that of the warehouse (service.py:193-203, 254-267).
CoverageConverges == <>[](snapshot = version)

\* A profile that missed a write is not served for ever, although a script in
\* another process, a write that failed halfway or a slow computation can leave
\* one in the cache (warehouse.py:632-643).
StaleProfileServed ==
    \E r \in Readers : reader[r].pc = "served" /\ reader[r].profile # version

ProfilesConverge == <>[]~StaleProfileServed

\* After a write the next read reflects the latest data: a profile asked for
\* after the write has returned has seen it (warehouse.py:163-166).
NextReadReflectsWrite ==
    \A r \in Readers : reader[r].pc = "served" => reader[r].profile >= reader[r].since
===============================================================================
