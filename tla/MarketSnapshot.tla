--------------------------- MODULE MarketSnapshot ---------------------------
(***************************************************************************)
(* The realtime market snapshot (data/realtime.py).  One provider serves   *)
(* every request thread.  A request numbers itself, drops the completed    *)
(* CLS payload, and gathers indexes, breadth and sectors in parallel:      *)
(*   - indexes and breadth share one CLS payload, fetched in one flight    *)
(*     that the other users join;                                          *)
(*   - breadth and sectors each have a slot: one executor thread, and a    *)
(*     lock that its worker keeps until it is done, however long ago the   *)
(*     request has given up on it (the local fallback has one like them);  *)
(*   - the sectors of yesterday's limit-up pool are refreshed behind the   *)
(*     requests' backs and read from a cache.                              *)
(* What is missing is filled from the last successful snapshot or from the *)
(* local bars, and a snapshot that was live in all its parts is retained.  *)
(*                                                                         *)
(* A request is its generation.  A quote is the generation that was        *)
(* current when it was stored, so that its age can be compared; a pool is  *)
(* the number of its day.  Which sources answer, and how completely, is    *)
(* arbitrary; diagnostics and messages are left out.                       *)
(***************************************************************************)
EXTENDS Integers, FiniteSets

CONSTANTS
  Budgeted,        \* modules fetched within a budget: breadth, sectors
  Leavers,         \* bound: requests whose client may go away
  MaxGeneration,   \* bound: requests
  MaxDay           \* bound: trading days that begin

ASSUME SnapshotAssumption ==
  /\ Budgeted \subseteq {"breadth", "sectors"} /\ "breadth" \in Budgeted
  /\ Leavers \subseteq Nat
  /\ MaxGeneration \in Nat /\ MaxDay \in Nat \ {0}

Requests == 1 .. MaxGeneration
Modules  == {"indexes"} \cup Budgeted
Slots    == Budgeted
Fields   == Modules \cup {"yesterday"}
Users    == {"indexes", "breadth"} \X Requests
NoUser   == <<"nobody", 0>>

Missing == 0
Local   == -1
Value   == -1 .. MaxGeneration   \* Local, Missing or when it was stored
Pool    == -1 .. MaxDay          \* Local, Missing or the day of the pool

NotStarted == [t \in Modules |-> "no"]
Nothing    == [t \in Modules |-> Missing]
NotSeen    == [since |-> 0, pool |-> Missing]
NoSnapshot == [generation |-> 0, since |-> 0, status |-> "none",
               part |-> [f \in Fields |-> Missing]]

VARIABLES
  generation,   \* _request_generation
  retained,     \* _last_successful_snapshot and _last_snapshot_generation
  cache,        \* _cls_home_cache
  inFlight,     \* _cls_home_in_flight: the user that owns the flight
  step,         \* where a user of the CLS payload is
  news,         \* _ClsHomeFlight.payload, for each user its event has woken
  slotLock,     \* _breadth_in_flight, _sector_in_flight
  work,         \* the future of each slot and request
  result,       \* its result, until it is taken
  day,          \* today's trading day
  pool,         \* _yesterday_sector_cache: the day of the pool in it
  poolWork,     \* _yesterday_sector_in_flight: the day its worker asks for
  pc,           \* where a request is
  task,         \* what it has handed out
  got,          \* what it has collected
  seen,         \* when it began, and what it has seen of yesterday's pool
  snapshot      \* what it is about to deliver

flightVars  == <<cache, inFlight>>
userVars    == <<step, news>>
slotVars    == <<slotLock, work, result>>
poolVars    == <<day, pool, poolWork>>
requestVars == <<pc, task, got, seen, snapshot>>
vars == <<generation, retained, flightVars, userVars, slotVars, poolVars,
          requestVars>>

Init ==
  /\ generation = 0
  /\ retained = NoSnapshot
  /\ cache = Missing
  /\ inFlight = NoUser
  /\ step = [u \in Users |-> "idle"]
  /\ news = [u \in Users |-> Missing]
  /\ slotLock = [s \in Slots |-> FALSE]
  /\ work = [s \in Slots |-> [r \in Requests |-> "none"]]
  /\ result = [s \in Slots |-> [r \in Requests |-> Missing]]
  /\ day = 1
  /\ pool = Missing
  /\ poolWork = 0
  /\ pc = [r \in Requests |-> "none"]
  /\ task = [r \in Requests |-> NotStarted]
  /\ got = [r \in Requests |-> Nothing]
  /\ seen = [r \in Requests |-> NotSeen]
  /\ snapshot = [r \in Requests |-> NoSnapshot]

-----------------------------------------------------------------------------
(* The CLS home payload: one flight for all its users.                     *)

\* The budget of a worker is spent: its request has left.
Cancelled(s, r) == task[r][s] # "wait"

\* What is younger than a request is as good as new to it.
AsSeenBy(r, stamp) == IF stamp > r THEN r ELSE stamp

\* A user has what it was looking for.  The index task hands it to its
\* request; the breadth worker ends with it.
Found(u, value) ==
  LET r == u[2] IN
  IF u[1] = "indexes"
    THEN /\ task' = [task EXCEPT ![r]["indexes"] = "back"]
         /\ got' = [got EXCEPT ![r]["indexes"] = AsSeenBy(r, value)]
         /\ UNCHANGED slotVars
    ELSE /\ work' = [work EXCEPT !["breadth"][r] = "ready"]
         /\ result' = [result EXCEPT !["breadth"][r] =
                         IF Cancelled("breadth", r) THEN Missing
                                                    ELSE AsSeenBy(r, value)]
         /\ UNCHANGED <<slotLock, task, got>>

\* A payload has quotes, a distribution, or both: a user may not find what
\* it needs, and goes to the next source, as it does after an exception.
UsePayload(u, value, steps) ==
  \/ /\ value # Missing /\ Found(u, value)
     /\ step' = [steps EXCEPT ![u] = "idle"]
  \/ /\ step' = [steps EXCEPT ![u] = "other"]
     /\ UNCHANGED <<slotVars, task, got>>

\* A completed payload that is young enough is used.  Else the user starts a
\* flight, or joins the one under way.
Ask(u) ==
  /\ step[u] = "ask"
  /\ ~(u[1] = "breadth" /\ Cancelled("breadth", u[2]))
  /\ \/ /\ cache # Missing
        /\ UsePayload(u, cache, step)
        /\ UNCHANGED inFlight
     \/ /\ inFlight' = IF inFlight = NoUser THEN u ELSE inFlight
        /\ step' = [step EXCEPT ![u] = IF inFlight = NoUser THEN "fetch" ELSE "wait"]
        /\ UNCHANGED <<slotVars, task, got>>
  /\ UNCHANGED <<generation, retained, cache, news, poolVars, pc, seen, snapshot>>

Waiting == {u \in Users : step[u] = "wait"}

\* The owner's request returns a valid payload, or fails; either way the
\* flight ends and its waiters are woken.
Land(u) ==
  /\ step[u] = "fetch"
  /\ \E value \in {generation, Missing} :
       /\ cache' = IF value = Missing THEN cache ELSE value
       /\ news' = [w \in Users |-> IF w \in Waiting THEN value ELSE news[w]]
       /\ UsePayload(u, value,
             [w \in Users |-> IF w \in Waiting THEN "woken" ELSE step[w]])
  /\ inFlight' = IF inFlight = u THEN NoUser ELSE inFlight
  /\ UNCHANGED <<generation, retained, poolVars, pc, seen, snapshot>>

\* A waiter reads the payload of the flight it joined, not the cache; it
\* fails if the flight did, or if it has waited too long.
Wake(u) ==
  /\ step[u] \in {"wait", "woken"}
  /\ UsePayload(u, news[u], step) \/ UsePayload(u, Missing, step)
  /\ news' = [news EXCEPT ![u] = Missing]
  /\ UNCHANGED <<generation, retained, flightVars, poolVars, pc, seen, snapshot>>

\* Sina, when CLS has no indexes.
OtherSource(u) ==
  /\ u[1] = "indexes" /\ step[u] = "other"
  /\ \E value \in {Missing, generation} : Found(u, value)
  /\ step' = [step EXCEPT ![u] = "idle"]
  /\ UNCHANGED <<generation, retained, flightVars, news, poolVars, pc, seen, snapshot>>

-----------------------------------------------------------------------------
(* Slots: one worker each, and a request that waits for it within a budget. *)

\* The lock is taken without waiting: a busy slot is an empty result.
AcquireSlot(s, r) ==
  /\ task[r][s] = "start"
  /\ IF slotLock[s]
       THEN /\ task' = [task EXCEPT ![r][s] = "back"]
            /\ UNCHANGED <<slotLock, work>>
       ELSE /\ slotLock' = [slotLock EXCEPT ![s] = TRUE]
            /\ work' = [work EXCEPT ![s][r] = "queued"]
            /\ task' = [task EXCEPT ![r][s] = "wait"]
  /\ UNCHANGED <<generation, retained, flightVars, userVars, result,
                 poolVars, pc, got, seen, snapshot>>

StartWork(s, r) ==
  /\ work[s][r] = "queued"
  /\ \A q \in Requests : work[s][q] # "running"
  /\ work' = [work EXCEPT ![s][r] = "running"]
  /\ step' = IF s = "breadth" THEN [step EXCEPT ![<<s, r>>] = "ask"] ELSE step
  /\ UNCHANGED <<generation, retained, flightVars, news, slotLock, result,
                 poolVars, requestVars>>

\* What a chain of sources ends with: the first usable answer, or nothing.
\* Between two sources the worker looks at its budget and may stop; the
\* breadth worker does so before it asks CLS, too.
SectorChain == {Missing, generation}
BreadthChain(r) ==
  CASE step[<<"breadth", r>>] = "ask"   -> {Missing}
    [] step[<<"breadth", r>>] = "other" -> {Missing, generation}
    [] OTHER                            -> {}

FinishWork(s, r) ==
  /\ work[s][r] = "running"
  /\ \E value \in IF s = "breadth" THEN BreadthChain(r) ELSE SectorChain :
       result' = [result EXCEPT ![s][r] =
                    IF Cancelled(s, r) THEN Missing ELSE AsSeenBy(r, value)]
  /\ work' = [work EXCEPT ![s][r] = "ready"]
  /\ step' = IF s = "breadth" THEN [step EXCEPT ![<<s, r>>] = "idle"] ELSE step
  /\ UNCHANGED <<generation, retained, flightVars, news, slotLock, poolVars,
                 requestVars>>

\* The future's callback, in the worker's thread, after its result is out.
ReleaseSlot(s, r) ==
  /\ work[s][r] = "ready"
  /\ work' = [work EXCEPT ![s][r] = IF task[r][s] = "wait" THEN "ended" ELSE "none"]
  /\ slotLock' = [slotLock EXCEPT ![s] = FALSE]
  /\ UNCHANGED <<generation, retained, flightVars, userVars, result,
                 poolVars, requestVars>>

\* The result is there in time, unless the clock says otherwise.
TakeResult(s, r) ==
  /\ task[r][s] = "wait" /\ work[s][r] \in {"ready", "ended"}
  /\ task' = [task EXCEPT ![r][s] = "back"]
  /\ \E value \in {result[s][r], Missing} : got' = [got EXCEPT ![r][s] = value]
  /\ result' = [result EXCEPT ![s][r] = Missing]
  /\ work' = [work EXCEPT ![s][r] = IF @ = "ended" THEN "none" ELSE @]
  /\ UNCHANGED <<generation, retained, flightVars, userVars, slotLock,
                 poolVars, pc, seen, snapshot>>

\* Mutant: the request takes the slot along.
TimeoutSlotFreeing(s, r) ==
  /\ task[r][s] = "wait" /\ work[s][r] \in {"queued", "running"}
  /\ task' = [task EXCEPT ![r][s] = "back"]
  /\ work' = [work EXCEPT ![s][r] = IF @ = "queued" THEN "none" ELSE @]
  /\ slotLock' = [slotLock EXCEPT ![s] = FALSE]
  /\ UNCHANGED <<generation, retained, flightVars, userVars, result,
                 poolVars, pc, got, seen, snapshot>>

\* Mutant: work that has begun is waited for.
TimeoutSlotQueued(s, r) ==
  /\ task[r][s] = "wait" /\ work[s][r] = "queued"
  /\ task' = [task EXCEPT ![r][s] = "back"]
  /\ work' = [work EXCEPT ![s][r] = "none"]
  /\ slotLock' = [slotLock EXCEPT ![s] = FALSE]
  /\ UNCHANGED <<generation, retained, flightVars, userVars, result,
                 poolVars, pc, got, seen, snapshot>>

\* The budget is over: the request leaves.  Work that has not begun is
\* withdrawn, which runs the callback; work that has keeps the slot.
TimeoutSlot(s, r) ==
  /\ task[r][s] = "wait" /\ work[s][r] \in {"queued", "running"}
  /\ task' = [task EXCEPT ![r][s] = "back"]
  /\ IF work[s][r] = "queued"
       THEN /\ work' = [work EXCEPT ![s][r] = "none"]
            /\ slotLock' = [slotLock EXCEPT ![s] = FALSE]
       ELSE UNCHANGED <<work, slotLock>>
  /\ UNCHANGED <<generation, retained, flightVars, userVars, result,
                 poolVars, pc, got, seen, snapshot>>

-----------------------------------------------------------------------------
(* Yesterday's limit-up pool.                                              *)

HasPool == pool = day

\* A request looks for today's result and has it refreshed when there is
\* none or it is old, unless that is under way.
ScheduleYesterday(r) ==
  /\ pc[r] = "schedule"
  /\ pc' = [pc EXCEPT ![r] = "read"]
  /\ \/ poolWork = 0 /\ poolWork' = day
     \/ (poolWork # 0 \/ HasPool) /\ UNCHANGED poolWork
  /\ UNCHANGED <<generation, retained, flightVars, userVars, slotVars, day, pool,
                 task, got, seen, snapshot>>

\* Then it reads the cache, if it is of the current pool, and starts its tasks.
ReadYesterday(r) ==
  /\ pc[r] = "read"
  /\ pc' = [pc EXCEPT ![r] = "gather"]
  /\ seen' = [seen EXCEPT ![r].pool = IF HasPool THEN pool ELSE Missing]
  /\ task' = [task EXCEPT ![r] = [t \in Modules |->
                                    IF t = "indexes" THEN "run" ELSE "start"]]
  /\ step' = [step EXCEPT ![<<"indexes", r>>] = "ask"]
  /\ UNCHANGED <<generation, retained, flightVars, news, slotVars, poolVars,
                 got, snapshot>>

\* The worker asks for the day on which it began.  Only a complete answer is
\* stored.  (That a complete answer may be empty is left out.)
FetchYesterday ==
  /\ poolWork # 0
  /\ poolWork' = 0
  /\ pool' \in {pool, poolWork}
  /\ UNCHANGED <<generation, retained, flightVars, userVars, slotVars, day,
                 requestVars>>

NewDay ==
  /\ day < MaxDay
  /\ day' = day + 1
  /\ UNCHANGED <<generation, retained, flightVars, userVars, slotVars, pool,
                 poolWork, requestVars>>

-----------------------------------------------------------------------------
(* A request.                                                              *)

Enter(r) ==
  /\ r = generation + 1
  /\ generation' = r
  /\ pc' = [pc EXCEPT ![r] = "clear"]
  /\ seen' = [seen EXCEPT ![r].since = day]
  /\ UNCHANGED <<retained, flightVars, userVars, slotVars, poolVars, task,
                 got, snapshot>>

\* Mutant: the payload of the request before is good enough.
ClearCacheNot(r) ==
  /\ pc[r] = "clear"
  /\ pc' = [pc EXCEPT ![r] = "schedule"]
  /\ UNCHANGED <<generation, retained, flightVars, userVars, slotVars,
                 poolVars, task, got, seen, snapshot>>

\* Only what is complete is dropped: a flight goes on.
ClearCache(r) ==
  /\ pc[r] = "clear"
  /\ pc' = [pc EXCEPT ![r] = "schedule"]
  /\ cache' = Missing
  /\ UNCHANGED <<generation, retained, inFlight, userVars, slotVars,
                 poolVars, task, got, seen, snapshot>>

Live(r) == \A m \in Modules : got[r][m] # Missing

\* What the request has of its own, if anything.
Own(r, f) == IF f = "yesterday" THEN seen[r].pool ELSE got[r][f]

\* What is missing is taken from the retained snapshot.
Kept(r) == {f \in Fields : Own(r, f) = Missing /\ retained.part[f] # Missing}

\* Mutant: what was retained of the pool does not count.
StatusOfModules(r, local) ==
  CASE Live(r) -> "live"
    [] \E m \in Modules : got[r][m] # Missing -> "stale"
    [] OTHER -> IF local = Local \/ Kept(r) # {} THEN "stale" ELSE "unavailable"

Status(r, local) ==
  CASE Live(r) /\ Kept(r) = {} -> "live"
    [] Kept(r) # {} \/ \E m \in Modules : got[r][m] # Missing -> "stale"
    [] OTHER -> IF local = Local THEN "stale" ELSE "unavailable"

\* If something is missing, the local bars are read, in a slot like those
\* above: it may be busy, time out or find nothing.
LocalSnapshot(r) == IF Live(r) THEN {Missing} ELSE {Missing, Local}

\* All tasks are back, and the retained snapshot fills the gaps.
Compose(r) ==
  /\ pc[r] = "gather"
  /\ \A m \in Modules : task[r][m] = "back"
  /\ \E local \in LocalSnapshot(r) :
       snapshot' = [snapshot EXCEPT ![r] =
         [generation |-> r, since |-> seen[r].since, status |-> Status(r, local),
          part |-> [f \in Fields |-> IF Own(r, f) # Missing THEN Own(r, f)
                    ELSE IF f \in Kept(r) THEN retained.part[f] ELSE local]]]
  /\ pc' = [pc EXCEPT ![r] = "deliver"]
  /\ got' = [got EXCEPT ![r] = Nothing]
  /\ seen' = [seen EXCEPT ![r] = NotSeen]
  /\ UNCHANGED <<generation, retained, flightVars, userVars, slotVars,
                 poolVars, task>>

\* Mutant: the last request to end wins.
RemembersLast(r) == snapshot[r].status = "live"

Remembers(r) == snapshot[r].status = "live" /\ r > retained.generation

\* A request ends, and its locals are gone.
End(r) ==
  /\ pc' = [pc EXCEPT ![r] = "done"]
  /\ task' = [task EXCEPT ![r] = NotStarted]
  /\ got' = [got EXCEPT ![r] = Nothing]
  /\ seen' = [seen EXCEPT ![r] = NotSeen]
  /\ snapshot' = [snapshot EXCEPT ![r] = NoSnapshot]

\* A live snapshot is retained, unless a later request has been quicker.
Deliver(r) ==
  /\ pc[r] = "deliver"
  /\ retained' = IF Remembers(r) THEN snapshot[r] ELSE retained
  /\ End(r)
  /\ UNCHANGED <<generation, flightVars, userVars, slotVars, poolVars>>

\* The client goes away at an event of the stream: nothing else happens, but
\* the tasks are awaited.
Abandon(r) ==
  /\ r \in Leavers
  /\ \/ /\ pc[r] = "gather" /\ \E m \in Modules : task[r][m] = "back"
        /\ pc' = [pc EXCEPT ![r] = "closing"]
        /\ UNCHANGED <<task, got, seen, snapshot>>
     \/ pc[r] = "deliver" /\ End(r)
  /\ UNCHANGED <<generation, retained, flightVars, userVars, slotVars, poolVars>>

Close(r) ==
  /\ pc[r] = "closing"
  /\ \A m \in Modules : task[r][m] = "back"
  /\ End(r)
  /\ UNCHANGED <<generation, retained, flightVars, userVars, slotVars, poolVars>>

-----------------------------------------------------------------------------
RequestStep(r) ==
  \/ ClearCache(r) \/ ScheduleYesterday(r) \/ ReadYesterday(r)
  \/ Compose(r) \/ Deliver(r) \/ Close(r)
  \/ \E s \in Slots : AcquireSlot(s, r) \/ TakeResult(s, r) \/ TimeoutSlot(s, r)

UserStep(u) == Ask(u) \/ Land(u) \/ Wake(u) \/ OtherSource(u)

WorkerStep(s, r) ==
  StartWork(s, r) \/ FinishWork(s, r) \/ ReleaseSlot(s, r)

Next ==
  \/ \E r \in Requests : Enter(r) \/ RequestStep(r) \/ Abandon(r)
  \/ \E u \in Users : UserStep(u)
  \/ \E s \in Slots, r \in Requests : WorkerStep(s, r)
  \/ FetchYesterday \/ NewDay

Spec == Init /\ [][Next]_vars
-----------------------------------------------------------------------------
(* Properties.                                                             *)

\* Types, and: a request goes on with nothing still under way; the flight
\* has an owner that is fetching.
TypeOK ==
  /\ generation \in 0 .. MaxGeneration
  /\ {retained} \cup {snapshot[r] : r \in Requests} \subseteq
       [generation : 0 .. MaxGeneration, since : 0 .. MaxDay,
        status : {"none", "live", "stale", "unavailable"},
        part : [Fields -> Value \cup Pool]]
  /\ cache \in 0 .. MaxGeneration
  /\ inFlight \in Users \cup {NoUser}
  /\ inFlight # NoUser => step[inFlight] = "fetch"
  /\ step \in [Users -> {"idle", "ask", "fetch", "wait", "woken", "other"}]
  /\ news \in [Users -> 0 .. MaxGeneration]
  /\ slotLock \in [Slots -> BOOLEAN]
  /\ work \in [Slots -> [Requests -> {"none", "queued", "running", "ready", "ended"}]]
  /\ result \in [Slots -> [Requests -> Value]]
  /\ day \in 1 .. MaxDay
  /\ pool \in 0 .. MaxDay
  /\ poolWork \in 0 .. MaxDay
  /\ pc \in [Requests -> {"none", "clear", "schedule", "read", "gather",
                          "deliver", "closing", "done"}]
  /\ task \in [Requests -> [Modules -> {"no", "run", "start", "wait", "back"}]]
  /\ got \in [Requests -> [Modules -> Value]]
  /\ seen \in [Requests -> [since : 0 .. MaxDay, pool : Pool]]
  /\ \A r \in Requests : pc[r] = "deliver" =>
       \A m \in Modules : task[r][m] = "back"

\* What a request gathers was stored after it began: it may share a flight
\* that was already under way, but not the payload of one that was over
\* (_clear_cls_home_completed_cache, realtime.py:273, 886-889).
FreshQuotes ==
  \A r \in Requests, m \in Modules : got[r][m] # Missing => got[r][m] >= r

\* A snapshot delivered as "live", and one that is retained, is all the work
\* of its own request: nothing in it was retained before, came from the local
\* bars, or is of a pool of an earlier day (realtime.py:379-452, 529-530).
LiveIsOwn ==
  \A s \in {snapshot[r] : r \in Requests} \cup {retained} :
    s.status = "live" =>
      /\ \A m \in Modules : s.part[m] = s.generation
      /\ s.part["yesterday"] \in {Missing} \cup s.since .. MaxDay

\* The retained snapshot is only replaced by one of a later request, in
\* whatever order requests finish (realtime.py:275-305).
RetainedGoesForward ==
  [][retained' # retained => retained'.generation > retained.generation]_retained

\* The work in a slot that is not over.
Active(s) == {r \in Requests : work[s][r] \in {"queued", "running", "ready"}}

\* A slot is locked exactly while there is work in it that is not over, and
\* there is never more than one such piece of work: a request that gives up
\* leaves the slot to its worker (realtime.py:586-740).
SlotsAreExact ==
  \A s \in Slots : (slotLock[s] <=> Active(s) # {}) /\ Cardinality(Active(s)) <= 1

\* A request never depends on what another thread does next: its own thread
\* or its index task can go on, however long the workers in the slots and the
\* owner of the flight take (realtime.py:586-740, 841-853).
GoesOnAlone ==
  \A r \in Requests : pc[r] \notin {"none", "done"} =>
    ENABLED RequestStep(r) \/ ENABLED UserStep(<<"indexes", r>>)
=============================================================================
