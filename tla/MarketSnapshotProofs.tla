-------------------------- MODULE MarketSnapshotProofs -------------------------
(***************************************************************************)
(* Proofs about the realtime market snapshot, for any number of requests,  *)
(* of days and of clients that go away, and with or without the sectors.   *)
(***************************************************************************)
EXTENDS MarketSnapshot, FiniteSetTheorems, TLAPS

\* A request that has handed out its tasks, and one whose cache was cleared.
Underway == {"gather", "deliver", "closing", "done"}
Cleared == {"schedule", "read"} \cup Underway

SnapshotType == [generation : 0 .. MaxGeneration, since : 0 .. MaxDay,
                 status : {"none", "live", "stale", "unavailable"},
                 part : [Fields -> Value \cup Pool]]

\* The state of the requests and of their results.
RequestTypes ==
  /\ generation \in 0 .. MaxGeneration
  /\ retained \in SnapshotType /\ snapshot \in [Requests -> SnapshotType]
  /\ pc \in [Requests -> {"none", "clear", "schedule", "read", "gather",
                          "deliver", "closing", "done"}]
  /\ task \in [Requests -> [Modules -> {"no", "run", "start", "wait", "back"}]]
  /\ got \in [Requests -> [Modules -> Value]]
  /\ seen \in [Requests -> [since : 0 .. MaxDay, pool : Pool]]

\* The state of the flight, of the slots and of yesterday's pool.
WorkerTypes ==
  /\ cache \in 0 .. MaxGeneration
  /\ inFlight \in Users \cup {NoUser}
  /\ step \in [Users -> {"idle", "ask", "fetch", "wait", "woken", "other"}]
  /\ news \in [Users -> 0 .. MaxGeneration]
  /\ slotLock \in [Slots -> BOOLEAN]
  /\ work \in [Slots -> [Requests -> {"none", "queued", "running", "ready", "ended"}]]
  /\ result \in [Slots -> [Requests -> Value]]
  /\ day \in 1 .. MaxDay
  /\ pool \in 0 .. MaxDay
  /\ poolWork \in 0 .. MaxDay

\* Work is handed out by a request that has entered and cleared the cache.
Entered ==
  \A r \in Requests :
    /\ pc[r] # "none" => r <= generation
    /\ pc[r] = "none" => seen[r] = NotSeen
    /\ \A m \in Modules : task[r][m] # "no" => pc[r] \in Underway
    /\ \A s \in Slots : work[s][r] # "none" => pc[r] \in Underway
    /\ pc[r] = "deliver" => \A m \in Modules : task[r][m] = "back"

\* A user of the payload serves work that is not over: that of the slot, or the
\* index task its request waits for; and the owner of the flight is fetching.
UsersServe ==
  /\ \A r \in Requests :
       /\ step[<<"breadth", r>>] # "idle" => work["breadth"][r] = "running"
       /\ step[<<"indexes", r>>] # "idle" => task[r]["indexes"] = "run"
  /\ inFlight # NoUser => step[inFlight] = "fetch"

\* What a request waits for is under way: its index task has not come to its end, and
\* there is work for it in every slot in which it waits.
WaitIsServed(r) ==
  /\ pc[r] \in {"gather", "closing"} =>
       /\ task[r]["indexes"] \in {"run", "back"}
       /\ \A s \in Slots : task[r][s] \in {"start", "wait", "back"}
  /\ task[r]["indexes"] = "run" => step[<<"indexes", r>>] # "idle"
  /\ \A s \in Slots : task[r][s] = "wait" => work[s][r] # "none"

WaitsAreServed == \A r \in Requests : WaitIsServed(r)

\* Whatever a request can come to use was stored after it had cleared the cache.
NothingOld ==
  /\ cache # Missing => \A r \in Requests : pc[r] \in Cleared => r <= cache
  /\ \A u \in Users : news[u] # Missing => u[2] <= news[u]
  /\ \A r \in Requests : \A s \in Slots : result[s][r] \in {Missing, r}
  /\ \A r \in Requests : \A m \in Modules : got[r][m] \in {Missing, r}

\* The lock of a slot is that of the one piece of work in it.
Locked ==
  \A s \in Slots :
    /\ slotLock[s] <=> \E r \in Requests : r \in Active(s)
    /\ \A q, r \in Requests : q \in Active(s) /\ r \in Active(s) => q = r

\* A snapshot that is live has only parts of its own request.
OwnParts(s) ==
  s.status = "live" =>
    /\ \A m \in Modules : s.part[m] = s.generation
    /\ s.part["yesterday"] \in {Missing} \cup s.since .. MaxDay

LivePartsAreOwn ==
  /\ \A r \in Requests : seen[r].since <= day /\ seen[r].pool \in {Missing} \cup seen[r].since .. day
  /\ \A r \in Requests : snapshot[r].status = "live" => snapshot[r].generation = r
  /\ \A r \in Requests : OwnParts(snapshot[r])
  /\ OwnParts(retained)

SnapshotInv ==
  /\ RequestTypes /\ WorkerTypes /\ Entered /\ UsersServe
  /\ WaitsAreServed /\ NothingOld /\ Locked /\ LivePartsAreOwn

USE SnapshotAssumption

-------------------------------------------------------------------------------
(* An entry of a table of tables.                                           *)

LEMMA Put ==
  ASSUME NEW A, NEW B, NEW C, NEW f \in [A -> [B -> C]], NEW a \in A, NEW b \in B, NEW c \in C
  PROVE  /\ [f EXCEPT ![a][b] = c] \in [A -> [B -> C]]
         /\ \A x \in A : \A y \in B :
              [f EXCEPT ![a][b] = c][x][y] = IF x = a /\ y = b THEN c ELSE f[x][y]
  OBVIOUS

LEMMA PutOne ==
  ASSUME NEW A, NEW C, NEW f \in [A -> C], NEW a \in A, NEW c \in C
  PROVE  /\ [f EXCEPT ![a] = c] \in [A -> C]
         /\ \A x \in A : [f EXCEPT ![a] = c][x] = IF x = a THEN c ELSE f[x]
  OBVIOUS

-------------------------------------------------------------------------------
(* The users of the payload.                                                *)

LEMMA UserIs ==
  /\ \A u \in Users : u[1] \in {"indexes", "breadth"} /\ u[2] \in Requests /\ u = <<u[1], u[2]>>
  /\ \A r \in Requests : <<"indexes", r>> \in Users /\ <<"breadth", r>> \in Users
  BY DEF Users

LEMMA Constants ==
  /\ "breadth" \in Slots /\ "indexes" \in Modules /\ Slots \subseteq Modules
  /\ "indexes" \notin Slots /\ Modules \subseteq Fields /\ "yesterday" \in Fields
  /\ "yesterday" \notin Modules /\ \A f \in Fields : f = "yesterday" \/ f \in Modules
  /\ \A r \in Requests : r \in Nat /\ r >= 1 /\ r <= MaxGeneration /\ r \in Value
  BY DEF Slots, Modules, Fields, Requests, Value

LEMMA NoOneIsNoUser == NoUser \notin Users
  BY DEF Users, NoUser, Requests

\* A user that has something to do serves a request that has cleared the cache.
LEMMA UserEntered ==
  ASSUME SnapshotInv, NEW u \in Users, step[u] # "idle"
  PROVE  u[2] <= generation /\ pc[u[2]] \in Underway
<1>1. u[1] \in {"indexes", "breadth"} /\ u[2] \in Requests /\ u = <<u[1], u[2]>>
  BY UserIs
<1>2. CASE u[1] = "indexes"
  <2> DEFINE r == u[2]
  <2>1. r \in Requests /\ step[<<"indexes", r>>] # "idle"
    BY <1>1, <1>2
  <2> HIDE DEF r
  <2>2. task[r]["indexes"] = "run"
    BY <2>1 DEF SnapshotInv, UsersServe
  <2>3. r <= generation /\ pc[r] \in Underway
    BY <2>1, <2>2, Constants DEF SnapshotInv, Entered, Underway
  <2> QED BY <2>3 DEF r
<1>3. CASE u[1] = "breadth"
  <2> DEFINE r == u[2]
  <2>1. r \in Requests /\ step[<<"breadth", r>>] # "idle"
    BY <1>1, <1>3
  <2> HIDE DEF r
  <2>2. work["breadth"][r] = "running"
    BY <2>1 DEF SnapshotInv, UsersServe
  <2>3. r <= generation /\ pc[r] \in Underway
    BY <2>1, <2>2, Constants DEF SnapshotInv, Entered, Underway
  <2> QED BY <2>3 DEF r
<1> QED BY <1>1, <1>2, <1>3

\* What every step of a user does: it may find a payload that is not too old,
\* and then it is done; the other users are left alone, or woken.
UserMoves(u) ==
  /\ step[u] # "idle"
  /\ step' \in [Users -> {"idle", "ask", "fetch", "wait", "woken", "other"}]
  /\ \A w \in Users : w # u => step'[w] = step[w] \/ (step[w] = "wait" /\ step'[w] = "woken")
  /\ \/ step'[u] # "idle" /\ UNCHANGED <<slotVars, task, got>>
     \/ step'[u] = "idle" /\ \E value \in 0 .. MaxGeneration :
          (value # Missing => u[2] <= value) /\ Found(u, value)
  /\ UNCHANGED <<generation, retained, poolVars, pc, seen, snapshot>>
  /\ cache' \in {cache, generation}
  /\ inFlight' \in Users \cup {NoUser} /\ (inFlight' # NoUser => step'[inFlight'] = "fetch")
  /\ news' \in [Users -> 0 .. MaxGeneration]
  /\ \A w \in Users : news'[w] = news[w] \/ news'[w] = Missing
                      \/ (step[w] # "idle" /\ news'[w] = generation)

LEMMA Using ==
  ASSUME NEW u \in Users, NEW value \in 0 .. MaxGeneration, value # Missing => u[2] <= value,
         NEW steps, steps \in [Users -> {"idle", "ask", "fetch", "wait", "woken", "other"}],
         UsePayload(u, value, steps)
  PROVE  /\ step' \in [Users -> {"idle", "ask", "fetch", "wait", "woken", "other"}]
         /\ \A w \in Users : w # u => step'[w] = steps[w]
         /\ step'[u] \in {"idle", "other"}
         /\ \/ step'[u] # "idle" /\ UNCHANGED <<slotVars, task, got>>
            \/ step'[u] = "idle" /\ \E v \in 0 .. MaxGeneration :
                 (v # Missing => u[2] <= v) /\ Found(u, v)
<1>1. CASE /\ value # Missing /\ Found(u, value)
           /\ step' = [steps EXCEPT ![u] = "idle"]
  BY <1>1
<1>2. CASE /\ step' = [steps EXCEPT ![u] = "other"]
           /\ UNCHANGED <<slotVars, task, got>>
  BY <1>2
<1> QED BY <1>1, <1>2 DEF UsePayload

LEMMA UserStepMoves ==
  ASSUME SnapshotInv, NEW u \in Users, UserStep(u)
  PROVE  UserMoves(u)
<1>0. /\ step \in [Users -> {"idle", "ask", "fetch", "wait", "woken", "other"}]
      /\ news \in [Users -> 0 .. MaxGeneration] /\ cache \in 0 .. MaxGeneration
      /\ generation \in 0 .. MaxGeneration /\ inFlight \in Users \cup {NoUser}
      /\ (inFlight # NoUser => step[inFlight] = "fetch")
      /\ u[2] \in Requests /\ NoUser \notin Users
  BY UserIs, NoOneIsNoUser DEF SnapshotInv, RequestTypes, WorkerTypes, UsersServe
<1>1. CASE Ask(u)
  <2>1. step[u] = "ask" /\ u[2] <= generation /\ pc[u[2]] \in Underway
    BY <1>1, UserEntered DEF Ask
  <2>2. cache # Missing => u[2] <= cache
    BY <1>0, <2>1 DEF SnapshotInv, NothingOld, Cleared
  <2>3. CASE UsePayload(u, cache, step) /\ inFlight' = inFlight
    <3>1. /\ step' \in [Users -> {"idle", "ask", "fetch", "wait", "woken", "other"}]
          /\ \A w \in Users : w # u => step'[w] = step[w]
          /\ \/ step'[u] # "idle" /\ UNCHANGED <<slotVars, task, got>>
             \/ step'[u] = "idle" /\ \E v \in 0 .. MaxGeneration :
                  (v # Missing => u[2] <= v) /\ Found(u, v)
      BY <1>0, <2>2, <2>3, Using
    <3>2. inFlight # u
      BY <1>0, <2>1
    <3> QED BY <1>0, <1>1, <2>1, <2>3, <3>1, <3>2 DEF UserMoves, Ask
  <2>4. CASE /\ inFlight' = IF inFlight = NoUser THEN u ELSE inFlight
             /\ step' = [step EXCEPT ![u] = IF inFlight = NoUser THEN "fetch" ELSE "wait"]
             /\ UNCHANGED <<slotVars, task, got>>
    <3>1. inFlight # u
      BY <1>0, <2>1
    <3> QED BY <1>0, <1>1, <2>1, <2>4, <3>1 DEF UserMoves, Ask
  <2> QED BY <1>1, <2>3, <2>4 DEF Ask
<1>2. CASE Land(u)
  <2> DEFINE woken == [w \in Users |-> IF w \in Waiting THEN "woken" ELSE step[w]]
  <2>1. step[u] = "fetch" /\ u[2] <= generation /\ pc[u[2]] \in Underway
    BY <1>2, UserEntered DEF Land
  <2>2. PICK value \in {generation, Missing} :
          /\ cache' = IF value = Missing THEN cache ELSE value
          /\ news' = [w \in Users |-> IF w \in Waiting THEN value ELSE news[w]]
          /\ UsePayload(u, value, woken)
    BY <1>2 DEF Land
  <2>3. value \in 0 .. MaxGeneration /\ (value # Missing => u[2] <= value)
    BY <1>0, <2>1, <2>2 DEF Missing
  <2>4. woken \in [Users -> {"idle", "ask", "fetch", "wait", "woken", "other"}]
    BY <1>0
  <2>5. \A w \in Users : woken[w] = step[w] \/ (step[w] = "wait" /\ woken[w] = "woken")
    BY DEF Waiting
  <2> HIDE DEF woken
  <2>6. /\ step' \in [Users -> {"idle", "ask", "fetch", "wait", "woken", "other"}]
        /\ \A w \in Users : w # u => step'[w] = woken[w]
        /\ \/ step'[u] # "idle" /\ UNCHANGED <<slotVars, task, got>>
           \/ step'[u] = "idle" /\ \E v \in 0 .. MaxGeneration :
                (v # Missing => u[2] <= v) /\ Found(u, v)
    BY <2>2, <2>3, <2>4, Using
  <2>7. /\ inFlight' \in Users \cup {NoUser}
        /\ inFlight' # NoUser => step'[inFlight'] = "fetch"
    <3>1. inFlight' = IF inFlight = u THEN NoUser ELSE inFlight
      BY <1>2 DEF Land
    <3>2. CASE inFlight \in Users /\ inFlight # u
      <4>1. step[inFlight] = "fetch"
        BY <1>0, <3>2
      <4>2. step'[inFlight] = woken[inFlight] /\ woken[inFlight] = "fetch"
        BY <2>5, <2>6, <3>2, <4>1
      <4> QED BY <3>1, <3>2, <4>2
    <3> QED BY <1>0, <3>1, <3>2
  <2>8. /\ news' \in [Users -> 0 .. MaxGeneration]
        /\ \A w \in Users : news'[w] = news[w] \/ news'[w] = Missing
                            \/ (step[w] # "idle" /\ news'[w] = generation)
    BY <1>0, <2>2, <2>3 DEF Waiting
  <2>9. UNCHANGED <<generation, retained, poolVars, pc, seen, snapshot>>
    BY <1>2 DEF Land
  <2>10. cache' \in {cache, generation}
    BY <2>2
  <2> QED BY <2>1, <2>5, <2>6, <2>7, <2>8, <2>9, <2>10 DEF UserMoves
<1>3. CASE Wake(u)
  <2>1. /\ step[u] \in {"wait", "woken"} /\ news' = [news EXCEPT ![u] = Missing]
        /\ UNCHANGED <<generation, retained, flightVars, poolVars, pc, seen, snapshot>>
    BY <1>3 DEF Wake
  <2>2. PICK value \in {news[u], Missing} : UsePayload(u, value, step)
    BY <1>3 DEF Wake
  <2>3. value \in 0 .. MaxGeneration /\ (value # Missing => u[2] <= value)
    BY <1>0, <2>2 DEF SnapshotInv, NothingOld, Missing
  <2>4. /\ step' \in [Users -> {"idle", "ask", "fetch", "wait", "woken", "other"}]
        /\ \A w \in Users : w # u => step'[w] = step[w]
        /\ \/ step'[u] # "idle" /\ UNCHANGED <<slotVars, task, got>>
           \/ step'[u] = "idle" /\ \E v \in 0 .. MaxGeneration :
                (v # Missing => u[2] <= v) /\ Found(u, v)
    BY <1>0, <2>2, <2>3, Using
  <2>5. news' \in [Users -> 0 .. MaxGeneration]
        /\ \A w \in Users : news'[w] = news[w] \/ news'[w] = Missing
    BY <1>0, <2>1 DEF Missing
  <2>6. inFlight # u
    BY <1>0, <2>1
  <2> QED BY <1>0, <2>1, <2>4, <2>5, <2>6 DEF UserMoves, flightVars
<1>4. CASE OtherSource(u)
  <2>1. /\ step[u] = "other" /\ step' = [step EXCEPT ![u] = "idle"]
        /\ UNCHANGED <<generation, retained, flightVars, news, poolVars, pc, seen, snapshot>>
    BY <1>4 DEF OtherSource
  <2>2. PICK value \in {Missing, generation} : Found(u, value)
    BY <1>4 DEF OtherSource
  <2>3. value \in 0 .. MaxGeneration /\ (value # Missing => u[2] <= value)
    BY <1>0, <2>1, <2>2, UserEntered DEF Missing
  <2>4. inFlight # u /\ step'[u] = "idle"
    BY <1>0, <2>1
  <2> QED BY <1>0, <2>1, <2>2, <2>3, <2>4 DEF UserMoves, flightVars
<1> QED BY <1>1, <1>2, <1>3, <1>4 DEF UserStep

-------------------------------------------------------------------------------
(* Types.                                                                   *)

LEMMA Seen ==
  ASSUME SnapshotInv, NEW r \in Requests, NEW value \in 0 .. MaxGeneration,
         value # Missing => r <= value
  PROVE  AsSeenBy(r, value) \in {Missing, r} /\ AsSeenBy(r, value) \in Value
  BY DEF AsSeenBy, Missing, Requests, Value

\* A user that finds a payload gives it to the request it serves.
FoundBy(u) ==
  LET r == u[2] IN
  \/ /\ u[1] = "indexes"
     /\ task' = [task EXCEPT ![r]["indexes"] = "back"]
     /\ \E v \in {Missing, r} : got' = [got EXCEPT ![r]["indexes"] = v]
     /\ UNCHANGED slotVars
  \/ /\ u[1] = "breadth"
     /\ work' = [work EXCEPT !["breadth"][r] = "ready"]
     /\ \E v \in {Missing, r} : result' = [result EXCEPT !["breadth"][r] = v]
     /\ UNCHANGED <<slotLock, task, got>>

LEMMA FindingMoves ==
  ASSUME SnapshotInv, NEW u \in Users, UserMoves(u)
  PROVE  \/ step'[u] # "idle" /\ UNCHANGED <<slotVars, task, got>>
         \/ step'[u] = "idle" /\ FoundBy(u)
<1>1. CASE step'[u] # "idle" /\ UNCHANGED <<slotVars, task, got>>
  BY <1>1
<1>2. ASSUME step'[u] = "idle", NEW value \in 0 .. MaxGeneration,
             value # Missing => u[2] <= value, Found(u, value)
      PROVE  step'[u] = "idle" /\ FoundBy(u)
  <2>1. u[1] \in {"indexes", "breadth"} /\ u[2] \in Requests
    BY UserIs
  <2>2. AsSeenBy(u[2], value) \in {Missing, u[2]}
    BY <1>2, <2>1, Seen
  <2>3. CASE u[1] = "indexes"
    BY <1>2, <2>2, <2>3 DEF Found, FoundBy
  <2>4. CASE u[1] = "breadth"
    <3>1. (IF Cancelled("breadth", u[2]) THEN Missing ELSE AsSeenBy(u[2], value)) \in {Missing, u[2]}
      BY <2>2
    <3> QED BY <1>2, <2>4, <3>1 DEF Found, FoundBy
  <2> QED BY <1>2, <2>1, <2>3, <2>4
<1> QED BY <1>1, <1>2 DEF UserMoves

LEMMA RequestTypesStep == SnapshotInv /\ [Next]_vars => RequestTypes'
<1> SUFFICES ASSUME SnapshotInv, [Next]_vars PROVE RequestTypes'
  OBVIOUS
<1>0. RequestTypes /\ WorkerTypes
  BY DEF SnapshotInv
<1>a. NoSnapshot \in SnapshotType
  BY DEF NoSnapshot, SnapshotType, Fields, Missing, Value, Pool
<1>b. Nothing \in [Modules -> Value] /\ NotStarted \in [Modules -> {"no", "run", "start", "wait", "back"}]
      /\ NotSeen \in [since : 0 .. MaxDay, pool : Pool]
  BY DEF Nothing, NotStarted, NotSeen, Missing, Value, Pool
<1>c. Missing \in Value /\ Missing \in Pool /\ Local \in Value
  BY DEF Missing, Local, Value, Pool
<1> USE DEF flightVars, userVars, slotVars, poolVars, requestVars
<1>1. ASSUME NEW r \in Requests, Enter(r) PROVE RequestTypes'
  <2>1. r \in 0 .. MaxGeneration
    BY DEF Requests
  <2>2. seen' \in [Requests -> [since : 0 .. MaxDay, pool : Pool]]
    <3>1. seen' = [seen EXCEPT ![r].since = day] /\ day \in 0 .. MaxDay
      BY <1>0, <1>1 DEF Enter, WorkerTypes
    <3> QED BY <1>0, <3>1 DEF RequestTypes
  <2> QED BY <1>0, <2>1, <2>2, <1>1 DEF Enter, RequestTypes
<1>2. ASSUME NEW r \in Requests, ClearCache(r) PROVE RequestTypes'
  BY <1>0, <1>a, <1>b, <1>c, Constants, <1>2 DEF ClearCache, RequestTypes
<1>3. ASSUME NEW r \in Requests, ScheduleYesterday(r) PROVE RequestTypes'
  BY <1>0, <1>a, <1>b, <1>c, Constants, <1>3 DEF ScheduleYesterday, RequestTypes
<1>4. ASSUME NEW r \in Requests, ReadYesterday(r) PROVE RequestTypes'
  <2>1. seen' \in [Requests -> [since : 0 .. MaxDay, pool : Pool]]
    <3>1. (IF HasPool THEN pool ELSE Missing) \in Pool
      BY <1>0, <1>c DEF WorkerTypes, Pool
    <3> DEFINE p == IF HasPool THEN pool ELSE Missing
    <3>2. seen' = [seen EXCEPT ![r].pool = p] /\ p \in Pool
      BY <3>1, <1>4 DEF ReadYesterday
    <3> HIDE DEF p
    <3> QED BY <1>0, <3>2 DEF RequestTypes
  <2>2. task' \in [Requests -> [Modules -> {"no", "run", "start", "wait", "back"}]]
    BY <1>0, <1>4 DEF ReadYesterday, RequestTypes
  <2> QED BY <1>0, <2>1, <2>2, <1>4 DEF ReadYesterday, RequestTypes
<1>5. ASSUME NEW r \in Requests, Compose(r) PROVE RequestTypes'
  <2>1. PICK local \in LocalSnapshot(r) :
          snapshot' = [snapshot EXCEPT ![r] =
            [generation |-> r, since |-> seen[r].since, status |-> Status(r, local),
             part |-> [f \in Fields |-> IF Own(r, f) # Missing THEN Own(r, f)
                       ELSE IF f \in Kept(r) THEN retained.part[f] ELSE local]]]
    BY <1>5 DEF Compose
  <2> DEFINE part == [f \in Fields |-> IF Own(r, f) # Missing THEN Own(r, f)
                       ELSE IF f \in Kept(r) THEN retained.part[f] ELSE local]
  <2>2. local \in Value
    BY <1>c DEF LocalSnapshot
  <2>3. \A f \in Fields : Own(r, f) \in Value \cup Pool
    BY <1>0, Constants DEF Own, RequestTypes
  <2>4. retained.part \in [Fields -> Value \cup Pool]
    BY <1>0 DEF RequestTypes, SnapshotType
  <2>5. part \in [Fields -> Value \cup Pool]
    BY <2>2, <2>3, <2>4
  <2>6. Status(r, local) \in {"none", "live", "stale", "unavailable"}
    BY DEF Status
  <2>7. r \in 0 .. MaxGeneration /\ seen[r].since \in 0 .. MaxDay
    BY <1>0 DEF RequestTypes, Requests
  <2> HIDE DEF part
  <2> DEFINE sn == [generation |-> r, since |-> seen[r].since, status |-> Status(r, local),
                    part |-> part]
  <2>8. sn \in SnapshotType
    BY <2>5, <2>6, <2>7 DEF SnapshotType
  <2>9. snapshot' = [snapshot EXCEPT ![r] = sn]
    BY <2>1 DEF part
  <2> HIDE DEF sn
  <2>10. snapshot' \in [Requests -> SnapshotType]
    BY <1>0, <2>8, <2>9 DEF RequestTypes
  <2> QED BY <1>0, <1>b, <2>10, <1>5 DEF Compose, RequestTypes
<1>6. ASSUME NEW r \in Requests, Deliver(r) PROVE RequestTypes'
  BY <1>0, <1>a, <1>b, <1>c, Constants, <1>6 DEF Deliver, End, RequestTypes
<1>7. ASSUME NEW r \in Requests, Close(r) PROVE RequestTypes'
  BY <1>0, <1>a, <1>b, <1>c, Constants, <1>7 DEF Close, End, RequestTypes
<1>8. ASSUME NEW r \in Requests, Abandon(r) PROVE RequestTypes'
  BY <1>0, <1>a, <1>b, <1>c, Constants, <1>8 DEF Abandon, End, RequestTypes
<1>9. ASSUME NEW s \in Slots, NEW r \in Requests, AcquireSlot(s, r) PROVE RequestTypes'
  <2>1. task' = [task EXCEPT ![r][s] = "back"] \/ task' = [task EXCEPT ![r][s] = "wait"]
    BY <1>9 DEF AcquireSlot
  <2>2. task' \in [Requests -> [Modules -> {"no", "run", "start", "wait", "back"}]]
    <3>1. \A v \in {"back", "wait"} :
            [task EXCEPT ![r][s] = v] \in [Requests -> [Modules -> {"no", "run", "start", "wait", "back"}]]
      BY <1>0, Constants, Put DEF RequestTypes
    <3> QED BY <2>1, <3>1
  <2> QED BY <1>0, <2>2, <1>9 DEF AcquireSlot, RequestTypes
<1>10. ASSUME NEW s \in Slots, NEW r \in Requests, TakeResult(s, r) PROVE RequestTypes'
  <2>1. PICK value \in {result[s][r], Missing} : got' = [got EXCEPT ![r][s] = value]
    BY <1>10 DEF TakeResult
  <2>2. value \in Value
    BY <1>0, <1>c, <2>1 DEF WorkerTypes
  <2>3. got' \in [Requests -> [Modules -> Value]]
    BY <1>0, <2>1, <2>2, Constants DEF RequestTypes
  <2>4. task' \in [Requests -> [Modules -> {"no", "run", "start", "wait", "back"}]]
    BY <1>0, Constants, <1>10 DEF TakeResult, RequestTypes
  <2> QED BY <1>0, <2>3, <2>4, <1>10 DEF TakeResult, RequestTypes
<1>11. ASSUME NEW s \in Slots, NEW r \in Requests, TimeoutSlot(s, r) PROVE RequestTypes'
  BY <1>0, <1>a, <1>b, <1>c, Constants, <1>11 DEF TimeoutSlot, RequestTypes
<1>12. ASSUME NEW s \in Slots, NEW r \in Requests, StartWork(s, r) PROVE RequestTypes'
  BY <1>0, <1>a, <1>b, <1>c, Constants, <1>12 DEF StartWork, RequestTypes
<1>13. ASSUME NEW s \in Slots, NEW r \in Requests, FinishWork(s, r) PROVE RequestTypes'
  BY <1>0, <1>a, <1>b, <1>c, Constants, <1>13 DEF FinishWork, RequestTypes
<1>14. ASSUME NEW s \in Slots, NEW r \in Requests, ReleaseSlot(s, r) PROVE RequestTypes'
  BY <1>0, <1>a, <1>b, <1>c, Constants, <1>14 DEF ReleaseSlot, RequestTypes
<1>15. ASSUME NEW u \in Users, UserStep(u) PROVE RequestTypes'
  <2>1. UserMoves(u) /\ u[2] \in Requests
    BY <1>15, UserStepMoves, UserIs
  <2>2. UNCHANGED <<task, got>> \/ FoundBy(u)
    BY <2>1, FindingMoves
  <2>3. CASE UNCHANGED <<task, got>>
    BY <1>0, <2>1, <2>3 DEF UserMoves, RequestTypes
  <2>4. CASE FoundBy(u)
    <3>1. task' \in [Requests -> [Modules -> {"no", "run", "start", "wait", "back"}]]
      <4>1. [task EXCEPT ![u[2]]["indexes"] = "back"] \in [Requests -> [Modules -> {"no", "run", "start", "wait", "back"}]]
        BY <1>0, <2>1, Constants, Put DEF RequestTypes
      <4> QED BY <1>0, <2>4, <4>1 DEF FoundBy, RequestTypes
    <3>2. got' \in [Requests -> [Modules -> Value]]
      <4>1. \A v \in {Missing, u[2]} : [got EXCEPT ![u[2]]["indexes"] = v] \in [Requests -> [Modules -> Value]]
        BY <1>0, <1>c, <2>1, Constants, Put DEF RequestTypes
      <4>2. got' = got \/ \E v \in {Missing, u[2]} : got' = [got EXCEPT ![u[2]]["indexes"] = v]
        BY <2>4 DEF FoundBy
      <4> QED BY <1>0, <4>1, <4>2 DEF RequestTypes
    <3> QED BY <1>0, <2>1, <3>1, <3>2 DEF UserMoves, RequestTypes
  <2> QED BY <2>2, <2>3, <2>4
<1>16. CASE FetchYesterday
  BY <1>0, <1>a, <1>b, <1>c, Constants, <1>16 DEF FetchYesterday, RequestTypes
<1>17. CASE NewDay
  BY <1>0, <1>a, <1>b, <1>c, Constants, <1>17 DEF NewDay, RequestTypes
<1>18. CASE UNCHANGED vars
  BY <1>0, <1>a, <1>b, <1>c, Constants, <1>18 DEF vars, RequestTypes
<1> QED
  BY <1>1, <1>2, <1>3, <1>4, <1>5, <1>6, <1>7, <1>8, <1>9, <1>10, <1>11, <1>12, <1>13, <1>14, <1>15, <1>16, <1>17, <1>18 DEF Next, RequestStep, WorkerStep

LEMMA WorkerTypesStep == SnapshotInv /\ [Next]_vars => WorkerTypes'
<1> SUFFICES ASSUME SnapshotInv, [Next]_vars PROVE WorkerTypes'
  OBVIOUS
<1>0. RequestTypes /\ WorkerTypes
  BY DEF SnapshotInv
<1>c. Missing \in Value /\ Missing \in 0 .. MaxGeneration
  BY DEF Missing, Value
<1> USE DEF flightVars, userVars, slotVars, poolVars, requestVars
<1>1. ASSUME NEW r \in Requests, Enter(r) PROVE WorkerTypes'
  BY <1>0, <1>c, <1>1 DEF Enter, WorkerTypes
<1>2. ASSUME NEW r \in Requests, ClearCache(r) PROVE WorkerTypes'
  BY <1>0, <1>c, <1>2 DEF ClearCache, WorkerTypes
<1>3. ASSUME NEW r \in Requests, ScheduleYesterday(r) PROVE WorkerTypes'
  BY <1>0, <1>c, <1>3 DEF ScheduleYesterday, WorkerTypes
<1>4. ASSUME NEW r \in Requests, ReadYesterday(r) PROVE WorkerTypes'
  <2>1. step' \in [Users -> {"idle", "ask", "fetch", "wait", "woken", "other"}]
    BY <1>0, UserIs, <1>4 DEF ReadYesterday, WorkerTypes
  <2> QED BY <1>0, <2>1, <1>4 DEF ReadYesterday, WorkerTypes
<1>5. ASSUME NEW r \in Requests, Compose(r) PROVE WorkerTypes'
  BY <1>0, <1>c, <1>5 DEF Compose, WorkerTypes
<1>6. ASSUME NEW r \in Requests, Deliver(r) PROVE WorkerTypes'
  BY <1>0, <1>c, <1>6 DEF Deliver, End, WorkerTypes
<1>7. ASSUME NEW r \in Requests, Close(r) PROVE WorkerTypes'
  BY <1>0, <1>c, <1>7 DEF Close, End, WorkerTypes
<1>8. ASSUME NEW r \in Requests, Abandon(r) PROVE WorkerTypes'
  BY <1>0, <1>c, <1>8 DEF Abandon, End, WorkerTypes
<1>9. ASSUME NEW s \in Slots, NEW r \in Requests, AcquireSlot(s, r) PROVE WorkerTypes'
  <2>1. slotLock' = slotLock \/ slotLock' = [slotLock EXCEPT ![s] = TRUE]
    BY <1>9 DEF AcquireSlot
  <2>2. work' \in [Slots -> [Requests -> {"none", "queued", "running", "ready", "ended"}]]
    <3>1. work' = work \/ work' = [work EXCEPT ![s][r] = "queued"]
      BY <1>9 DEF AcquireSlot
    <3>2. work \in [Slots -> [Requests -> {"none", "queued", "running", "ready", "ended"}]]
      BY <1>0 DEF WorkerTypes
    <3>3. CASE work' = work
      BY <3>2, <3>3
    <3>4. CASE work' = [work EXCEPT ![s][r] = "queued"]
      BY <3>2, <3>4
    <3> QED BY <3>1, <3>3, <3>4
  <2>3. slotLock' \in [Slots -> BOOLEAN]
    <3>1. [slotLock EXCEPT ![s] = TRUE] \in [Slots -> BOOLEAN]
      BY <1>0, PutOne DEF WorkerTypes
    <3> QED BY <1>0, <2>1, <3>1 DEF WorkerTypes
  <2> QED BY <1>0, <2>2, <2>3, <1>9 DEF AcquireSlot, WorkerTypes
<1>10. ASSUME NEW s \in Slots, NEW r \in Requests, TakeResult(s, r) PROVE WorkerTypes'
  BY <1>0, <1>c, <1>10 DEF TakeResult, WorkerTypes
<1>11. ASSUME NEW s \in Slots, NEW r \in Requests, TimeoutSlot(s, r) PROVE WorkerTypes'
  <2>1. slotLock' = slotLock \/ slotLock' = [slotLock EXCEPT ![s] = FALSE]
    BY <1>11 DEF TimeoutSlot
  <2>2. work' \in [Slots -> [Requests -> {"none", "queued", "running", "ready", "ended"}]]
    <3>1. work' = work \/ work' = [work EXCEPT ![s][r] = "none"]
      BY <1>11 DEF TimeoutSlot
    <3>2. work \in [Slots -> [Requests -> {"none", "queued", "running", "ready", "ended"}]]
      BY <1>0 DEF WorkerTypes
    <3>3. CASE work' = work
      BY <3>2, <3>3
    <3>4. CASE work' = [work EXCEPT ![s][r] = "none"]
      BY <3>2, <3>4
    <3> QED BY <3>1, <3>3, <3>4
  <2>3. slotLock' \in [Slots -> BOOLEAN]
    <3>1. [slotLock EXCEPT ![s] = FALSE] \in [Slots -> BOOLEAN]
      BY <1>0, PutOne DEF WorkerTypes
    <3> QED BY <1>0, <2>1, <3>1 DEF WorkerTypes
  <2> QED BY <1>0, <2>2, <2>3, <1>11 DEF TimeoutSlot, WorkerTypes
<1>12. ASSUME NEW s \in Slots, NEW r \in Requests, StartWork(s, r) PROVE WorkerTypes'
  <2>1. /\ step' = IF s = "breadth" THEN [step EXCEPT ![<<s, r>>] = "ask"] ELSE step
        /\ work' = [work EXCEPT ![s][r] = "running"]
    BY <1>12 DEF StartWork
  <2>2. step' \in [Users -> {"idle", "ask", "fetch", "wait", "woken", "other"}]
    BY <1>0, <2>1, UserIs DEF WorkerTypes
  <2>3. work' \in [Slots -> [Requests -> {"none", "queued", "running", "ready", "ended"}]]
    BY <1>0, <2>1 DEF WorkerTypes
  <2> QED BY <1>0, <2>2, <2>3, <1>12 DEF StartWork, WorkerTypes
<1>13. ASSUME NEW s \in Slots, NEW r \in Requests, FinishWork(s, r) PROVE WorkerTypes'
  <2>1. /\ step' = IF s = "breadth" THEN [step EXCEPT ![<<s, r>>] = "idle"] ELSE step
        /\ work' = [work EXCEPT ![s][r] = "ready"]
    BY <1>13 DEF FinishWork
  <2>2. PICK value \in IF s = "breadth" THEN BreadthChain(r) ELSE SectorChain :
          result' = [result EXCEPT ![s][r] = IF Cancelled(s, r) THEN Missing ELSE AsSeenBy(r, value)]
    BY <1>13 DEF FinishWork
  <2>3. step' \in [Users -> {"idle", "ask", "fetch", "wait", "woken", "other"}]
    BY <1>0, <2>1, UserIs DEF WorkerTypes
  <2>4. work' \in [Slots -> [Requests -> {"none", "queued", "running", "ready", "ended"}]]
    BY <1>0, <2>1 DEF WorkerTypes
  <2>5. value \in {Missing, generation}
    BY <2>2 DEF BreadthChain, SectorChain
  <2>6. (IF Cancelled(s, r) THEN Missing ELSE AsSeenBy(r, value)) \in Value
    BY <1>0, <2>5 DEF RequestTypes, AsSeenBy, Missing, Value, Requests
  <2>7. result' \in [Slots -> [Requests -> Value]]
    BY <1>0, <2>2, <2>6 DEF WorkerTypes
  <2> QED BY <1>0, <2>3, <2>4, <2>7, <1>13 DEF FinishWork, WorkerTypes
<1>14. ASSUME NEW s \in Slots, NEW r \in Requests, ReleaseSlot(s, r) PROVE WorkerTypes'
  BY <1>0, <1>c, <1>14 DEF ReleaseSlot, WorkerTypes
<1>15. ASSUME NEW u \in Users, UserStep(u) PROVE WorkerTypes'
  <2>1. UserMoves(u) /\ u[2] \in Requests
    BY <1>15, UserStepMoves, UserIs
  <2>2. UNCHANGED slotVars \/ FoundBy(u)
    BY <2>1, FindingMoves
  <2>3. /\ work' \in [Slots -> [Requests -> {"none", "queued", "running", "ready", "ended"}]]
        /\ result' \in [Slots -> [Requests -> Value]]
        /\ slotLock' = slotLock
    <3>1. CASE UNCHANGED slotVars
      BY <1>0, <3>1 DEF WorkerTypes
    <3>2. CASE FoundBy(u)
      <4>1. slotLock' = slotLock
        BY <3>2 DEF FoundBy
      <4>2. work' \in [Slots -> [Requests -> {"none", "queued", "running", "ready", "ended"}]]
        <5>1. [work EXCEPT !["breadth"][u[2]] = "ready"] \in [Slots -> [Requests -> {"none", "queued", "running", "ready", "ended"}]]
          BY <1>0, <2>1, Constants, Put DEF WorkerTypes
        <5> QED BY <1>0, <3>2, <5>1 DEF FoundBy, WorkerTypes
      <4>3. result' \in [Slots -> [Requests -> Value]]
        <5>1. \A v \in {Missing, u[2]} : [result EXCEPT !["breadth"][u[2]] = v] \in [Slots -> [Requests -> Value]]
          BY <1>0, <1>c, <2>1, Constants, Put DEF WorkerTypes
        <5>2. result' = result \/ \E v \in {Missing, u[2]} : result' = [result EXCEPT !["breadth"][u[2]] = v]
          BY <3>2 DEF FoundBy
        <5>3. result \in [Slots -> [Requests -> Value]]
          BY <1>0 DEF WorkerTypes
        <5> QED BY ONLY <5>1, <5>2, <5>3
      <4> QED BY <4>1, <4>2, <4>3
    <3> QED BY <2>2, <3>1, <3>2
  <2>4. cache' \in 0 .. MaxGeneration
    BY <1>0, <2>1 DEF UserMoves, WorkerTypes, RequestTypes
  <2> QED BY <1>0, <2>1, <2>3, <2>4 DEF UserMoves, WorkerTypes
<1>16. CASE FetchYesterday
  BY <1>0, <1>c, <1>16 DEF FetchYesterday, WorkerTypes
<1>17. CASE NewDay
  BY <1>0, <1>c, <1>17 DEF NewDay, WorkerTypes
<1>18. CASE UNCHANGED vars
  BY <1>0, <1>c, <1>18 DEF vars, WorkerTypes
<1> QED
  BY <1>1, <1>2, <1>3, <1>4, <1>5, <1>6, <1>7, <1>8, <1>9, <1>10, <1>11, <1>12, <1>13, <1>14, <1>15, <1>16, <1>17, <1>18 DEF Next, RequestStep, WorkerStep

-------------------------------------------------------------------------------
(* What the steps at a slot do to each entry of the tables.                 *)

LEMMA Tables ==
  ASSUME SnapshotInv, NEW s \in Slots, NEW r \in Requests
  PROVE  /\ \A v \in {"back", "wait"} : \A q \in Requests : \A m \in Modules :
              [task EXCEPT ![r][s] = v][q][m] = IF q = r /\ m = s THEN v ELSE task[q][m]
         /\ \A v \in {"none", "queued", "running", "ready", "ended"} :
            \A t \in Slots : \A q \in Requests :
              [work EXCEPT ![s][r] = v][t][q] = IF t = s /\ q = r THEN v ELSE work[t][q]
         /\ \A v \in Value : \A t \in Slots : \A q \in Requests :
              [result EXCEPT ![s][r] = v][t][q] = IF t = s /\ q = r THEN v ELSE result[t][q]
         /\ \A v \in Value : \A q \in Requests : \A m \in Modules :
              [got EXCEPT ![r][s] = v][q][m] = IF q = r /\ m = s THEN v ELSE got[q][m]
<1>1. /\ task \in [Requests -> [Modules -> {"no", "run", "start", "wait", "back"}]]
      /\ work \in [Slots -> [Requests -> {"none", "queued", "running", "ready", "ended"}]]
      /\ result \in [Slots -> [Requests -> Value]]
      /\ got \in [Requests -> [Modules -> Value]]
      /\ s \in Modules
  BY Constants DEF SnapshotInv, RequestTypes, WorkerTypes
<1>2. \A v \in {"back", "wait"} : \A q \in Requests : \A m \in Modules :
              [task EXCEPT ![r][s] = v][q][m] = IF q = r /\ m = s THEN v ELSE task[q][m]
  BY <1>1, Put
<1>3. \A v \in {"none", "queued", "running", "ready", "ended"} :
            \A t \in Slots : \A q \in Requests :
              [work EXCEPT ![s][r] = v][t][q] = IF t = s /\ q = r THEN v ELSE work[t][q]
  BY <1>1, Put
<1>4. \A v \in Value : \A t \in Slots : \A q \in Requests :
              [result EXCEPT ![s][r] = v][t][q] = IF t = s /\ q = r THEN v ELSE result[t][q]
  BY <1>1, Put
<1>5. \A v \in Value : \A q \in Requests : \A m \in Modules :
              [got EXCEPT ![r][s] = v][q][m] = IF q = r /\ m = s THEN v ELSE got[q][m]
  BY <1>1, Put
<1> QED BY <1>2, <1>3, <1>4, <1>5

\* The lock of one slot is taken, or given back.
LEMMA Locks ==
  ASSUME SnapshotInv, NEW s \in Slots
  PROVE  /\ \A t \in Slots : [slotLock EXCEPT ![s] = TRUE][t] <=> slotLock[t] \/ t = s
         /\ \A t \in Slots : [slotLock EXCEPT ![s] = FALSE][t] <=> slotLock[t] /\ t # s
<1>1. slotLock \in [Slots -> BOOLEAN]
  BY DEF SnapshotInv, WorkerTypes
<1> QED BY <1>1

LEMMA AcquireMoves ==
  ASSUME SnapshotInv, NEW s \in Slots, NEW r \in Requests, AcquireSlot(s, r)
  PROVE  /\ task[r][s] = "start"
         /\ \A q \in Requests : \A m \in Modules :
              task'[q][m] = IF q = r /\ m = s THEN (IF slotLock[s] THEN "back" ELSE "wait")
                                              ELSE task[q][m]
         /\ \A t \in Slots : \A q \in Requests :
              work'[t][q] = IF t = s /\ q = r /\ ~slotLock[s] THEN "queued" ELSE work[t][q]
         /\ \A t \in Slots : slotLock'[t] <=> slotLock[t] \/ t = s
<1>1. CASE slotLock[s]
  <2>1. task[r][s] = "start" /\ task' = [task EXCEPT ![r][s] = "back"]
        /\ slotLock' = slotLock /\ work' = work
    BY <1>1 DEF AcquireSlot
  <2> QED BY <1>1, <2>1, Tables
<1>2. CASE ~slotLock[s]
  <2>1. task[r][s] = "start" /\ task' = [task EXCEPT ![r][s] = "wait"]
        /\ slotLock' = [slotLock EXCEPT ![s] = TRUE] /\ work' = [work EXCEPT ![s][r] = "queued"]
    BY <1>2 DEF AcquireSlot
  <2>2. \A t \in Slots : slotLock'[t] <=> slotLock[t] \/ t = s
    BY <2>1, Locks
  <2>3. \A t \in Slots : \A q \in Requests :
          work'[t][q] = IF t = s /\ q = r THEN "queued" ELSE work[t][q]
    BY <2>1, Tables
  <2>4. \A q \in Requests : \A m \in Modules :
          task'[q][m] = IF q = r /\ m = s THEN "wait" ELSE task[q][m]
    BY <2>1, Tables
  <2> QED BY <1>2, <2>1, <2>2, <2>3, <2>4
<1> QED BY <1>1, <1>2

LEMMA TimeoutMoves ==
  ASSUME SnapshotInv, NEW s \in Slots, NEW r \in Requests, TimeoutSlot(s, r)
  PROVE  /\ task[r][s] = "wait" /\ work[s][r] \in {"queued", "running"}
         /\ \A q \in Requests : \A m \in Modules :
              task'[q][m] = IF q = r /\ m = s THEN "back" ELSE task[q][m]
         /\ \A t \in Slots : \A q \in Requests :
              work'[t][q] = IF t = s /\ q = r /\ work[s][r] = "queued" THEN "none" ELSE work[t][q]
         /\ \A t \in Slots : slotLock'[t] <=> slotLock[t] /\ ~(t = s /\ work[s][r] = "queued")
<1>0. task[r][s] = "wait" /\ work[s][r] \in {"queued", "running"}
      /\ task' = [task EXCEPT ![r][s] = "back"]
  BY DEF TimeoutSlot
<1>a. \A q \in Requests : \A m \in Modules :
        task'[q][m] = IF q = r /\ m = s THEN "back" ELSE task[q][m]
  BY <1>0, Tables
<1>1. CASE work[s][r] = "queued"
  <2>1. slotLock' = [slotLock EXCEPT ![s] = FALSE] /\ work' = [work EXCEPT ![s][r] = "none"]
    BY <1>1 DEF TimeoutSlot
  <2>2. \A t \in Slots : slotLock'[t] <=> slotLock[t] /\ t # s
    BY <2>1, Locks
  <2>3. \A t \in Slots : \A q \in Requests :
          work'[t][q] = IF t = s /\ q = r THEN "none" ELSE work[t][q]
    BY <2>1, Tables
  <2> QED BY <1>0, <1>a, <1>1, <2>2, <2>3
<1>2. CASE work[s][r] # "queued"
  <2>1. slotLock' = slotLock /\ work' = work
    BY <1>2 DEF TimeoutSlot
  <2> QED BY <1>0, <1>a, <1>2, <2>1
<1> QED BY <1>1, <1>2

LEMMA TakeMoves ==
  ASSUME SnapshotInv, NEW s \in Slots, NEW r \in Requests, TakeResult(s, r)
  PROVE  /\ task[r][s] = "wait" /\ work[s][r] \in {"ready", "ended"}
         /\ \A q \in Requests : \A m \in Modules :
              task'[q][m] = IF q = r /\ m = s THEN "back" ELSE task[q][m]
         /\ \A t \in Slots : \A q \in Requests :
              work'[t][q] = IF t = s /\ q = r /\ work[s][r] = "ended" THEN "none" ELSE work[t][q]
         /\ \A t \in Slots : \A q \in Requests : result'[t][q] \in {result[t][q], Missing}
         /\ \A q \in Requests : \A m \in Modules :
              got'[q][m] = got[q][m] \/ (q = r /\ m = s /\ got'[q][m] \in {result[s][r], Missing})
<1>0. /\ task[r][s] = "wait" /\ work[s][r] \in {"ready", "ended"}
      /\ task' = [task EXCEPT ![r][s] = "back"]
      /\ result' = [result EXCEPT ![s][r] = Missing]
      /\ work' = [work EXCEPT ![s][r] = IF work[s][r] = "ended" THEN "none" ELSE work[s][r]]
  BY DEF TakeResult
<1>1. PICK value \in {result[s][r], Missing} : got' = [got EXCEPT ![r][s] = value]
  BY DEF TakeResult
<1>2. Missing \in Value /\ value \in Value
  BY <1>1 DEF SnapshotInv, WorkerTypes, Missing, Value
<1>3. \A q \in Requests : \A m \in Modules :
        task'[q][m] = IF q = r /\ m = s THEN "back" ELSE task[q][m]
  BY <1>0, Tables
<1>4. \A t \in Slots : \A q \in Requests :
        work'[t][q] = IF t = s /\ q = r /\ work[s][r] = "ended" THEN "none" ELSE work[t][q]
  <2>1. (IF work[s][r] = "ended" THEN "none" ELSE work[s][r])
          \in {"none", "queued", "running", "ready", "ended"}
    BY <1>0
  <2> QED BY <1>0, <2>1, Tables
<1>5. \A t \in Slots : \A q \in Requests : result'[t][q] \in {result[t][q], Missing}
  BY <1>0, <1>2, Tables
<1>6. \A q \in Requests : \A m \in Modules :
        got'[q][m] = got[q][m] \/ (q = r /\ m = s /\ got'[q][m] \in {result[s][r], Missing})
  BY <1>1, <1>2, Tables
<1> QED BY <1>0, <1>3, <1>4, <1>5, <1>6

LEMMA StartMoves ==
  ASSUME SnapshotInv, NEW s \in Slots, NEW r \in Requests, StartWork(s, r)
  PROVE  /\ work[s][r] = "queued"
         /\ \A t \in Slots : \A q \in Requests :
              work'[t][q] = IF t = s /\ q = r THEN "running" ELSE work[t][q]
         /\ \A u \in Users : step'[u] = IF s = "breadth" /\ u = <<s, r>> THEN "ask" ELSE step[u]
<1>1. /\ work[s][r] = "queued" /\ work' = [work EXCEPT ![s][r] = "running"]
      /\ step' = IF s = "breadth" THEN [step EXCEPT ![<<s, r>>] = "ask"] ELSE step
      /\ step \in [Users -> {"idle", "ask", "fetch", "wait", "woken", "other"}]
  BY DEF StartWork, SnapshotInv, WorkerTypes
<1>2. \A u \in Users : step'[u] = IF s = "breadth" /\ u = <<s, r>> THEN "ask" ELSE step[u]
  BY <1>1, UserIs
<1> QED BY <1>1, <1>2, Tables

\* A worker that ends is at none of the steps of a flight.
LEMMA FinishAsks ==
  ASSUME NEW r \in Requests, FinishWork("breadth", r)
  PROVE  step[<<"breadth", r>>] \in {"ask", "other"}
<1>1. PICK value \in BreadthChain(r) : TRUE
  BY DEF FinishWork
<1> QED BY <1>1 DEF BreadthChain

LEMMA FinishMoves ==
  ASSUME SnapshotInv, NEW s \in Slots, NEW r \in Requests, FinishWork(s, r)
  PROVE  /\ work[s][r] = "running"
         /\ \A t \in Slots : \A q \in Requests :
              work'[t][q] = IF t = s /\ q = r THEN "ready" ELSE work[t][q]
         /\ \A u \in Users : step'[u] = IF s = "breadth" /\ u = <<s, r>> THEN "idle" ELSE step[u]
<1>1. /\ work[s][r] = "running" /\ work' = [work EXCEPT ![s][r] = "ready"]
      /\ step' = IF s = "breadth" THEN [step EXCEPT ![<<s, r>>] = "idle"] ELSE step
      /\ step \in [Users -> {"idle", "ask", "fetch", "wait", "woken", "other"}]
  BY DEF FinishWork, SnapshotInv, WorkerTypes
<1>8. \A u \in Users : step'[u] = IF s = "breadth" /\ u = <<s, r>> THEN "idle" ELSE step[u]
  BY <1>1, UserIs
<1>9. \A t \in Slots : \A q \in Requests :
        work'[t][q] = IF t = s /\ q = r THEN "ready" ELSE work[t][q]
  BY <1>1, Tables
<1> QED BY <1>1, <1>8, <1>9

LEMMA FinishResults ==
  ASSUME SnapshotInv, NEW s \in Slots, NEW r \in Requests, FinishWork(s, r)
  PROVE  \A t \in Slots : \A q \in Requests :
           result'[t][q] = result[t][q] \/ result'[t][q] \in {Missing, q}
<1>1. work[s][r] = "running"
  BY DEF FinishWork
<1>2. PICK value \in IF s = "breadth" THEN BreadthChain(r) ELSE SectorChain :
        result' = [result EXCEPT ![s][r] = IF Cancelled(s, r) THEN Missing ELSE AsSeenBy(r, value)]
  BY DEF FinishWork
<1>3. value \in {Missing, generation}
  BY <1>2 DEF BreadthChain, SectorChain
<1>4. r <= generation /\ generation \in 0 .. MaxGeneration
  <2>1. generation \in 0 .. MaxGeneration /\ Entered
    BY DEF SnapshotInv, RequestTypes
  <2> QED BY <1>1, <2>1 DEF Entered, Underway
<1>5. (IF Cancelled(s, r) THEN Missing ELSE AsSeenBy(r, value)) \in {Missing, r}
  <2>1. AsSeenBy(r, value) \in {Missing, r}
    BY <1>3, <1>4, Seen DEF Missing
  <2> QED BY <2>1
<1>6. \A v \in {Missing, r} : v \in Value
  BY Constants DEF Missing, Value
<1> QED BY <1>2, <1>5, <1>6, Tables

LEMMA ReleaseMoves ==
  ASSUME SnapshotInv, NEW s \in Slots, NEW r \in Requests, ReleaseSlot(s, r)
  PROVE  /\ work[s][r] = "ready"
         /\ \A t \in Slots : \A q \in Requests :
              IF t = s /\ q = r THEN work'[t][q] \in {"ended", "none"}
                                ELSE work'[t][q] = work[t][q]
         /\ task[r][s] = "wait" => work'[s][r] = "ended"
         /\ \A t \in Slots : slotLock'[t] <=> slotLock[t] /\ t # s
<1>1. /\ work[s][r] = "ready"
      /\ work' = [work EXCEPT ![s][r] = IF task[r][s] = "wait" THEN "ended" ELSE "none"]
      /\ slotLock' = [slotLock EXCEPT ![s] = FALSE]
  BY DEF ReleaseSlot
<1>2. \A t \in Slots : \A q \in Requests :
        IF t = s /\ q = r THEN work'[t][q] \in {"ended", "none"}
                          ELSE work'[t][q] = work[t][q]
  BY <1>1, Tables
<1>3. \A t \in Slots : slotLock'[t] <=> slotLock[t] /\ t # s
  BY <1>1, Locks
<1>4. task[r][s] = "wait" => work'[s][r] = "ended"
  BY <1>1, Tables
<1> QED BY <1>1, <1>2, <1>3, <1>4

\* A user of the payload that has found one touches one entry.
LEMMA FoundMoves ==
  ASSUME SnapshotInv, NEW u \in Users, UserMoves(u)
  PROVE  /\ \A q \in Requests : \A m \in Modules :
              task'[q][m] = task[q][m]
              \/ (q = u[2] /\ m = "indexes" /\ u[1] = "indexes"
                  /\ task'[q][m] = "back" /\ step'[u] = "idle")
         /\ u[1] = "indexes" /\ step'[u] = "idle" => task'[u[2]]["indexes"] = "back"
         /\ \A t \in Slots : \A q \in Requests :
              work'[t][q] = work[t][q]
              \/ (q = u[2] /\ t = "breadth" /\ u[1] = "breadth"
                  /\ work'[t][q] = "ready" /\ step'[u] = "idle")
         /\ slotLock' = slotLock
         /\ \A t \in Slots : \A q \in Requests :
              result'[t][q] = result[t][q] \/ result'[t][q] \in {Missing, q}
         /\ \A q \in Requests : \A m \in Modules :
              got'[q][m] = got[q][m] \/ got'[q][m] \in {Missing, q}
<1>1. CASE step'[u] # "idle" /\ UNCHANGED <<slotVars, task, got>>
  BY <1>1 DEF slotVars
<1>2. CASE step'[u] = "idle" /\ FoundBy(u)
  <2>1. /\ u[2] \in Requests /\ Missing \in Value /\ u[2] \in Value
        /\ task \in [Requests -> [Modules -> {"no", "run", "start", "wait", "back"}]]
        /\ got \in [Requests -> [Modules -> Value]]
    BY UserIs, Constants DEF SnapshotInv, RequestTypes, Missing, Value
  <2>2. CASE u[1] = "indexes"
    <3>1. /\ task' = [task EXCEPT ![u[2]]["indexes"] = "back"]
          /\ UNCHANGED slotVars
      BY <1>2, <2>2 DEF FoundBy
    <3>2. PICK v \in {Missing, u[2]} : got' = [got EXCEPT ![u[2]]["indexes"] = v]
      BY <1>2, <2>2 DEF FoundBy
    <3>0. "indexes" \in Modules /\ v \in Value
      BY <2>1, Constants
    <3> DEFINE States == {"no", "run", "start", "wait", "back"}
    <3>a. task \in [Requests -> [Modules -> States]] /\ "back" \in States
      BY <2>1
    <3> HIDE DEF States
    <3>3. \A q \in Requests : \A m \in Modules :
            task'[q][m] = IF q = u[2] /\ m = "indexes" THEN "back" ELSE task[q][m]
      BY ONLY <2>1, <3>0, <3>a, <3>1, Put
    <3>4. \A q \in Requests : \A m \in Modules :
            got'[q][m] = IF q = u[2] /\ m = "indexes" THEN v ELSE got[q][m]
      BY ONLY <2>1, <3>0, <3>2, Put
    <3> QED BY <1>2, <2>1, <2>2, <3>0, <3>1, <3>2, <3>3, <3>4 DEF slotVars
  <2>3. CASE u[1] = "breadth"
    <3>1. /\ work' = [work EXCEPT !["breadth"][u[2]] = "ready"]
          /\ UNCHANGED <<slotLock, task, got>>
      BY <1>2, <2>3 DEF FoundBy
    <3>2. PICK v \in {Missing, u[2]} : result' = [result EXCEPT !["breadth"][u[2]] = v]
      BY <1>2, <2>3 DEF FoundBy
    <3>3. \A t \in Slots : \A q \in Requests :
            work'[t][q] = IF t = "breadth" /\ q = u[2] THEN "ready" ELSE work[t][q]
      BY <2>1, <3>1, Tables, Constants
    <3>4. \A t \in Slots : \A q \in Requests :
            result'[t][q] = IF t = "breadth" /\ q = u[2] THEN v ELSE result[t][q]
      BY <2>1, <3>2, Tables, Constants
    <3> QED BY <1>2, <2>3, <3>1, <3>2, <3>3, <3>4
  <2> QED BY <2>2, <2>3, UserIs
<1> QED BY <1>1, <1>2, FindingMoves

-------------------------------------------------------------------------------
(* Requests enter in order, and users serve what is not over.               *)

LEMMA EnteredStep == SnapshotInv /\ [Next]_vars => Entered'
<1> SUFFICES ASSUME SnapshotInv, [Next]_vars PROVE Entered'
  OBVIOUS
<1>0. RequestTypes /\ WorkerTypes /\ Entered
  BY DEF SnapshotInv
<1> USE DEF flightVars, userVars, slotVars, poolVars, requestVars
<1>1. ASSUME NEW r \in Requests, Enter(r) PROVE Entered'
  BY <1>0, Constants, <1>1 DEF Enter, Entered, Underway, RequestTypes, WorkerTypes, NotSeen
<1>2. ASSUME NEW r \in Requests, ClearCache(r) PROVE Entered'
  BY <1>0, Constants, <1>2 DEF ClearCache, Entered, Underway, RequestTypes, WorkerTypes, NotSeen
<1>3. ASSUME NEW r \in Requests, ScheduleYesterday(r) PROVE Entered'
  BY <1>0, Constants, <1>3 DEF ScheduleYesterday, Entered, Underway, RequestTypes, WorkerTypes, NotSeen
<1>4. ASSUME NEW r \in Requests, ReadYesterday(r) PROVE Entered'
  BY <1>0, Constants, <1>4 DEF ReadYesterday, Entered, Underway, RequestTypes, WorkerTypes, NotSeen
<1>5. ASSUME NEW r \in Requests, Compose(r) PROVE Entered'
  BY <1>0, Constants, <1>5 DEF Compose, Entered, Underway, RequestTypes, WorkerTypes, NotSeen
<1>6. ASSUME NEW r \in Requests, Deliver(r) PROVE Entered'
  BY <1>0, Constants, <1>6 DEF Deliver, End, Entered, Underway, RequestTypes, WorkerTypes, NotSeen
<1>7. ASSUME NEW r \in Requests, Close(r) PROVE Entered'
  BY <1>0, Constants, <1>7 DEF Close, End, Entered, Underway, RequestTypes, WorkerTypes, NotSeen
<1>8. ASSUME NEW r \in Requests, Abandon(r) PROVE Entered'
  BY <1>0, Constants, <1>8 DEF Abandon, End, Entered, Underway, RequestTypes, WorkerTypes, NotSeen
<1>9. ASSUME NEW s \in Slots, NEW r \in Requests, AcquireSlot(s, r) PROVE Entered'
  <2>1. pc' = pc /\ generation' = generation /\ seen' = seen
    BY <1>9 DEF AcquireSlot
  <2> QED BY <1>0, <2>1, <1>9, AcquireMoves, Constants DEF Entered
<1>10. ASSUME NEW s \in Slots, NEW r \in Requests, TakeResult(s, r) PROVE Entered'
  <2>1. pc' = pc /\ generation' = generation /\ seen' = seen
    BY <1>10 DEF TakeResult
  <2> QED BY <1>0, <2>1, <1>10, TakeMoves, Constants DEF Entered
<1>11. ASSUME NEW s \in Slots, NEW r \in Requests, TimeoutSlot(s, r) PROVE Entered'
  <2>1. pc' = pc /\ generation' = generation /\ seen' = seen
    BY <1>11 DEF TimeoutSlot
  <2> QED BY <1>0, <2>1, <1>11, TimeoutMoves, Constants DEF Entered
<1>12. ASSUME NEW s \in Slots, NEW r \in Requests, StartWork(s, r) PROVE Entered'
  <2>1. pc' = pc /\ generation' = generation /\ seen' = seen /\ task' = task
    BY <1>12 DEF StartWork
  <2> QED BY <1>0, <2>1, <1>12, StartMoves, Constants DEF Entered
<1>13. ASSUME NEW s \in Slots, NEW r \in Requests, FinishWork(s, r) PROVE Entered'
  <2>a. work[s][r] = "running" /\ \A t \in Slots : \A q \in Requests :
          work'[t][q] = IF t = s /\ q = r THEN "ready" ELSE work[t][q]
    BY <1>13, FinishMoves
  <2>1. pc' = pc /\ generation' = generation /\ seen' = seen /\ task' = task
    BY <1>13 DEF FinishWork
  <2> QED BY <1>0, <2>1, <2>a DEF Entered
<1>14. ASSUME NEW s \in Slots, NEW r \in Requests, ReleaseSlot(s, r) PROVE Entered'
  <2>1. pc' = pc /\ generation' = generation /\ seen' = seen /\ task' = task
    BY <1>14 DEF ReleaseSlot
  <2> QED BY <1>0, <2>1, <1>14, ReleaseMoves, Constants DEF Entered
<1>15. ASSUME NEW u \in Users, UserStep(u) PROVE Entered'
  <2>1. UserMoves(u) /\ u[2] \in Requests /\ pc[u[2]] \in Underway
    <3>1. UserMoves(u)
      BY <1>15, UserStepMoves
    <3> QED BY <3>1, UserIs, UserEntered DEF UserMoves
  <2>2. pc' = pc /\ generation' = generation /\ seen' = seen
    BY <2>1 DEF UserMoves
  <2> QED BY <1>0, <2>1, <2>2, FoundMoves DEF Entered
<1>16. CASE FetchYesterday
  BY <1>0, Constants, <1>16 DEF FetchYesterday, Entered, Underway, RequestTypes, WorkerTypes, NotSeen
<1>17. CASE NewDay
  BY <1>0, Constants, <1>17 DEF NewDay, Entered, Underway, RequestTypes, WorkerTypes, NotSeen
<1>18. CASE UNCHANGED vars
  BY <1>0, Constants, <1>18 DEF vars, Entered, Underway, RequestTypes, WorkerTypes, NotSeen
<1> QED
  BY <1>1, <1>2, <1>3, <1>4, <1>5, <1>6, <1>7, <1>8, <1>9, <1>10, <1>11, <1>12, <1>13, <1>14, <1>15, <1>16, <1>17, <1>18 DEF Next, RequestStep, WorkerStep

\* A step that gives the request nothing to wait for, and takes nothing away, serves it.
LEMMA StillServed ==
  ASSUME NEW r \in Requests, WaitIsServed(r),
         pc'[r] \in {"gather", "closing"} => pc[r] \in {"gather", "closing"},
         task'[r] = task[r] \/ task'[r] = NotStarted,
         task'[r] # task[r] => pc'[r] = "done",
         step'[<<"indexes", r>>] = step[<<"indexes", r>>],
         \A s \in Slots : work'[s][r] = work[s][r]
  PROVE  WaitIsServed(r)'
<1>1. CASE task'[r] = task[r]
  BY <1>1 DEF WaitIsServed
<1>2. CASE task'[r] # task[r]
  <2>1. pc'[r] = "done" /\ \A m \in Modules : task'[r][m] = "no"
    BY <1>2 DEF NotStarted
  <2> QED BY <2>1, Constants DEF WaitIsServed
<1> QED BY <1>1, <1>2

LEMMA WaitsAreServedStep == SnapshotInv /\ [Next]_vars => WaitsAreServed'
<1> SUFFICES ASSUME SnapshotInv, [Next]_vars, NEW q \in Requests PROVE WaitIsServed(q)'
  BY DEF WaitsAreServed
<1>0. RequestTypes /\ WorkerTypes /\ Entered /\ WaitIsServed(q)
  BY DEF SnapshotInv, WaitsAreServed
<1>a. \A r \in Requests : <<"indexes", r>> \in Users /\ <<"breadth", r>> \in Users
  BY UserIs
<1>b. "indexes" \in Modules /\ Slots \subseteq Modules /\ "indexes" \notin Slots
  BY Constants
<1> USE DEF flightVars, userVars, slotVars, poolVars, requestVars
<1>1. ASSUME NEW r \in Requests, Enter(r) PROVE WaitIsServed(q)'
  <2>1. /\ pc'[q] \in {"gather", "closing"} => pc[q] \in {"gather", "closing"}
        /\ task'[q] = task[q] \/ task'[q] = NotStarted
        /\ task'[q] # task[q] => pc'[q] = "done"
    BY <1>0, <1>1 DEF Enter, RequestTypes
  <2>2. step' = step /\ work' = work
    BY <1>1 DEF Enter
  <2> QED BY <1>0, <2>1, <2>2, StillServed
<1>2. ASSUME NEW r \in Requests, ClearCache(r) PROVE WaitIsServed(q)'
  <2>1. /\ pc'[q] \in {"gather", "closing"} => pc[q] \in {"gather", "closing"}
        /\ task'[q] = task[q] \/ task'[q] = NotStarted
        /\ task'[q] # task[q] => pc'[q] = "done"
    BY <1>0, <1>2 DEF ClearCache, RequestTypes
  <2>2. step' = step /\ work' = work
    BY <1>2 DEF ClearCache
  <2> QED BY <1>0, <2>1, <2>2, StillServed
<1>3. ASSUME NEW r \in Requests, ScheduleYesterday(r) PROVE WaitIsServed(q)'
  <2>1. /\ pc'[q] \in {"gather", "closing"} => pc[q] \in {"gather", "closing"}
        /\ task'[q] = task[q] \/ task'[q] = NotStarted
        /\ task'[q] # task[q] => pc'[q] = "done"
    BY <1>0, <1>3 DEF ScheduleYesterday, RequestTypes
  <2>2. step' = step /\ work' = work
    BY <1>3 DEF ScheduleYesterday
  <2> QED BY <1>0, <2>1, <2>2, StillServed
<1>4. ASSUME NEW r \in Requests, ReadYesterday(r) PROVE WaitIsServed(q)'
  <2>1. /\ pc' = [pc EXCEPT ![r] = "gather"] /\ work' = work
        /\ task' = [task EXCEPT ![r] = [t \in Modules |-> IF t = "indexes" THEN "run" ELSE "start"]]
        /\ step' = [step EXCEPT ![<<"indexes", r>>] = "ask"]
    BY <1>4 DEF ReadYesterday
  <2>2. CASE q = r
    <3>1. task'[q]["indexes"] = "run" /\ \A s \in Slots : task'[q][s] = "start"
      BY <1>0, <1>b, <2>1, <2>2 DEF RequestTypes
    <3>2. step'[<<"indexes", q>>] = "ask"
      BY <1>0, <1>a, <2>1, <2>2 DEF WorkerTypes
    <3> QED BY <3>1, <3>2 DEF WaitIsServed
  <2>3. CASE q # r
    <3>1. pc'[q] = pc[q] /\ task'[q] = task[q]
      BY <1>0, <2>1, <2>3 DEF RequestTypes
    <3>2. step'[<<"indexes", q>>] = step[<<"indexes", q>>]
      BY <1>0, <1>a, <2>1, <2>3 DEF WorkerTypes
    <3> QED BY <1>0, <2>1, <3>1, <3>2, StillServed
  <2> QED BY <2>2, <2>3
<1>5. ASSUME NEW r \in Requests, Compose(r) PROVE WaitIsServed(q)'
  <2>1. /\ pc'[q] \in {"gather", "closing"} => pc[q] \in {"gather", "closing"}
        /\ task'[q] = task[q] \/ task'[q] = NotStarted
        /\ task'[q] # task[q] => pc'[q] = "done"
    BY <1>0, <1>5 DEF Compose, RequestTypes
  <2>2. step' = step /\ work' = work
    BY <1>5 DEF Compose
  <2> QED BY <1>0, <2>1, <2>2, StillServed
<1>6. ASSUME NEW r \in Requests, Deliver(r) PROVE WaitIsServed(q)'
  <2>1. /\ pc'[q] \in {"gather", "closing"} => pc[q] \in {"gather", "closing"}
        /\ task'[q] = task[q] \/ task'[q] = NotStarted
        /\ task'[q] # task[q] => pc'[q] = "done"
    BY <1>0, <1>6 DEF Deliver, End, RequestTypes
  <2>2. step' = step /\ work' = work
    BY <1>6 DEF Deliver
  <2> QED BY <1>0, <2>1, <2>2, StillServed
<1>7. ASSUME NEW r \in Requests, Close(r) PROVE WaitIsServed(q)'
  <2>1. /\ pc'[q] \in {"gather", "closing"} => pc[q] \in {"gather", "closing"}
        /\ task'[q] = task[q] \/ task'[q] = NotStarted
        /\ task'[q] # task[q] => pc'[q] = "done"
    BY <1>0, <1>7 DEF Close, End, RequestTypes
  <2>2. step' = step /\ work' = work
    BY <1>7 DEF Close
  <2> QED BY <1>0, <2>1, <2>2, StillServed
<1>8. ASSUME NEW r \in Requests, Abandon(r) PROVE WaitIsServed(q)'
  <2>1. /\ pc'[q] \in {"gather", "closing"} => pc[q] \in {"gather", "closing"}
        /\ task'[q] = task[q] \/ task'[q] = NotStarted
        /\ task'[q] # task[q] => pc'[q] = "done"
    BY <1>0, <1>8 DEF Abandon, End, RequestTypes
  <2>2. step' = step /\ work' = work
    BY <1>8 DEF Abandon
  <2> QED BY <1>0, <2>1, <2>2, StillServed
<1>9. ASSUME NEW s \in Slots, NEW r \in Requests, AcquireSlot(s, r) PROVE WaitIsServed(q)'
  <2>1. pc' = pc /\ step' = step
    BY <1>9 DEF AcquireSlot
  <2>2. /\ task'[q]["indexes"] = task[q]["indexes"]
        /\ \A t \in Slots : task'[q][t] \in {task[q][t], "wait", "back"}
    BY <1>b, <1>9, AcquireMoves
  <2>3. \A t \in Slots : task'[q][t] = "wait" => work'[t][q] # "none"
    BY <1>0, <1>b, <1>9, AcquireMoves DEF WaitIsServed
  <2> QED BY <1>0, <2>1, <2>2, <2>3 DEF WaitIsServed
<1>10. ASSUME NEW s \in Slots, NEW r \in Requests, TakeResult(s, r) PROVE WaitIsServed(q)'
  <2>1. pc' = pc /\ step' = step
    BY <1>10 DEF TakeResult
  <2>2. /\ task'[q]["indexes"] = task[q]["indexes"]
        /\ \A t \in Slots : task'[q][t] \in {task[q][t], "wait", "back"}
    BY <1>b, <1>10, TakeMoves
  <2>3. \A t \in Slots : task'[q][t] = "wait" => work'[t][q] # "none"
    BY <1>0, <1>b, <1>10, TakeMoves DEF WaitIsServed
  <2> QED BY <1>0, <2>1, <2>2, <2>3 DEF WaitIsServed
<1>11. ASSUME NEW s \in Slots, NEW r \in Requests, TimeoutSlot(s, r) PROVE WaitIsServed(q)'
  <2>1. pc' = pc /\ step' = step
    BY <1>11 DEF TimeoutSlot
  <2>2. /\ task'[q]["indexes"] = task[q]["indexes"]
        /\ \A t \in Slots : task'[q][t] \in {task[q][t], "wait", "back"}
    BY <1>b, <1>11, TimeoutMoves
  <2>3. \A t \in Slots : task'[q][t] = "wait" => work'[t][q] # "none"
    BY <1>0, <1>b, <1>11, TimeoutMoves DEF WaitIsServed
  <2> QED BY <1>0, <2>1, <2>2, <2>3 DEF WaitIsServed
<1>12. ASSUME NEW s \in Slots, NEW r \in Requests, StartWork(s, r) PROVE WaitIsServed(q)'
  <2>1. pc' = pc /\ task' = task
    BY <1>12 DEF StartWork
  <2>2. step'[<<"indexes", q>>] = step[<<"indexes", q>>]
    BY <1>a, <1>12, StartMoves
  <2>3. \A t \in Slots : task[q][t] = "wait" /\ work[t][q] # "none" => work'[t][q] # "none"
    BY <1>12, StartMoves
  <2> QED BY <1>0, <2>1, <2>2, <2>3 DEF WaitIsServed
<1>13. ASSUME NEW s \in Slots, NEW r \in Requests, FinishWork(s, r) PROVE WaitIsServed(q)'
  <2>1. pc' = pc /\ task' = task
    BY <1>13 DEF FinishWork
  <2>2. step'[<<"indexes", q>>] = step[<<"indexes", q>>]
    BY <1>a, <1>13, FinishMoves
  <2>3. \A t \in Slots : task[q][t] = "wait" /\ work[t][q] # "none" => work'[t][q] # "none"
    BY <1>13, FinishMoves
  <2> QED BY <1>0, <2>1, <2>2, <2>3 DEF WaitIsServed
<1>14. ASSUME NEW s \in Slots, NEW r \in Requests, ReleaseSlot(s, r) PROVE WaitIsServed(q)'
  <2>1. pc' = pc /\ task' = task
    BY <1>14 DEF ReleaseSlot
  <2>2. step'[<<"indexes", q>>] = step[<<"indexes", q>>]
    BY <1>14 DEF ReleaseSlot
  <2>3. \A t \in Slots : task[q][t] = "wait" /\ work[t][q] # "none" => work'[t][q] # "none"
    BY <1>14, ReleaseMoves
  <2> QED BY <1>0, <2>1, <2>2, <2>3 DEF WaitIsServed
<1>15. ASSUME NEW u \in Users, UserStep(u) PROVE WaitIsServed(q)'
  <2>1. UserMoves(u)
    BY <1>15, UserStepMoves
  <2>2. pc' = pc /\ u = <<u[1], u[2]>>
    BY <2>1, UserIs DEF UserMoves
  <2>3. ASSUME task'[q]["indexes"] = "run"
        PROVE  step'[<<"indexes", q>>] # "idle"
    <3>1. task[q]["indexes"] = "run"
      BY <1>b, <2>1, <2>3, FoundMoves
    <3>2. step[<<"indexes", q>>] # "idle"
      BY <1>0, <3>1 DEF WaitIsServed
    <3>3. CASE u = <<"indexes", q>>
      BY <2>1, <2>3, <3>3, FoundMoves
    <3>4. CASE u # <<"indexes", q>>
      BY <1>a, <2>1, <3>2, <3>4 DEF UserMoves
    <3> QED BY <3>3, <3>4
  <2>4. \A s \in Slots : task'[q][s] = task[q][s]
    BY <1>b, <2>1, FoundMoves
  <2>5. \A s \in Slots : work[s][q] # "none" => work'[s][q] # "none"
    BY <2>1, FoundMoves
  <2>6. task'[q]["indexes"] \in {task[q]["indexes"], "back"}
    BY <1>b, <2>1, FoundMoves
  <2> QED BY <1>0, <2>2, <2>3, <2>4, <2>5, <2>6 DEF WaitIsServed
<1>16. CASE FetchYesterday
  BY <1>0, <1>16 DEF FetchYesterday, WaitIsServed
<1>17. CASE NewDay
  BY <1>0, <1>17 DEF NewDay, WaitIsServed
<1>18. CASE UNCHANGED vars
  BY <1>0, <1>18 DEF vars, WaitIsServed
<1> QED
  BY <1>1, <1>2, <1>3, <1>4, <1>5, <1>6, <1>7, <1>8, <1>9, <1>10, <1>11, <1>12, <1>13, <1>14, <1>15, <1>16, <1>17, <1>18 DEF Next, RequestStep, WorkerStep

LEMMA UsersServeStep == SnapshotInv /\ [Next]_vars => UsersServe'
<1> SUFFICES ASSUME SnapshotInv, [Next]_vars PROVE UsersServe'
  OBVIOUS
<1>0. RequestTypes /\ WorkerTypes /\ Entered /\ UsersServe /\ Locked
  BY DEF SnapshotInv
<1>a. \A r \in Requests : <<"indexes", r>> \in Users /\ <<"breadth", r>> \in Users
  BY UserIs
<1>b. inFlight \in Users \cup {NoUser} /\ NoUser \notin Users
  BY <1>0, NoOneIsNoUser DEF WorkerTypes
<1>c. \A u \in Users : u[1] \in {"indexes", "breadth"} /\ u[2] \in Requests /\ u = <<u[1], u[2]>>
  BY UserIs
<1> USE DEF flightVars, userVars, slotVars, poolVars, requestVars
<1>1. ASSUME NEW r \in Requests, Enter(r) PROVE UsersServe'
  BY <1>0, <1>a, <1>b, Constants, <1>1 DEF Enter, UsersServe, Entered, Underway, RequestTypes, WorkerTypes
<1>2. ASSUME NEW r \in Requests, ClearCache(r) PROVE UsersServe'
  BY <1>0, <1>a, <1>b, Constants, <1>2 DEF ClearCache, UsersServe, Entered, Underway, RequestTypes, WorkerTypes
<1>3. ASSUME NEW r \in Requests, ScheduleYesterday(r) PROVE UsersServe'
  BY <1>0, <1>a, <1>b, Constants, <1>3 DEF ScheduleYesterday, UsersServe, Entered, Underway, RequestTypes, WorkerTypes
<1>4. ASSUME NEW r \in Requests, ReadYesterday(r) PROVE UsersServe'
  <2>1. /\ pc[r] = "read" /\ inFlight' = inFlight /\ work' = work
        /\ step' = [step EXCEPT ![<<"indexes", r>>] = "ask"]
        /\ task' = [task EXCEPT ![r] = [t \in Modules |->
                                    IF t = "indexes" THEN "run" ELSE "start"]]
    BY <1>4 DEF ReadYesterday
  <2>2. step[<<"indexes", r>>] = "idle"
    BY <1>0, <2>1, Constants DEF UsersServe, Entered, Underway
  <2>3. \A u \in Users : step'[u] = IF u = <<"indexes", r>> THEN "ask" ELSE step[u]
    BY <1>0, <1>a, <2>1 DEF WorkerTypes
  <2>4. task'[r]["indexes"] = "run" /\ \A q \in Requests : q # r => task'[q] = task[q]
    BY <1>0, <2>1, Constants DEF RequestTypes
  <2>5. inFlight' # NoUser => step'[inFlight'] = "fetch"
    BY <1>0, <1>b, <2>1, <2>2, <2>3 DEF UsersServe
  <2>6. \A q \in Requests : step'[<<"indexes", q>>] # "idle" => task'[q]["indexes"] = "run"
    BY <1>0, <1>a, <2>3, <2>4 DEF UsersServe
  <2>7. \A q \in Requests : step'[<<"breadth", q>>] = step[<<"breadth", q>>]
    BY <1>a, <2>3
  <2> QED BY <1>0, <2>1, <2>5, <2>6, <2>7 DEF UsersServe
<1>5. ASSUME NEW r \in Requests, Compose(r) PROVE UsersServe'
  BY <1>0, <1>a, <1>b, Constants, <1>5 DEF Compose, UsersServe, Entered, Underway, RequestTypes, WorkerTypes
<1>6. ASSUME NEW r \in Requests, Deliver(r) PROVE UsersServe'
  BY <1>0, <1>a, <1>b, Constants, <1>6 DEF Deliver, End, UsersServe, Entered, Underway, RequestTypes, WorkerTypes
<1>7. ASSUME NEW r \in Requests, Close(r) PROVE UsersServe'
  BY <1>0, <1>a, <1>b, Constants, <1>7 DEF Close, End, UsersServe, Entered, Underway, RequestTypes, WorkerTypes
<1>8. ASSUME NEW r \in Requests, Abandon(r) PROVE UsersServe'
  <2>1. step' = step /\ inFlight' = inFlight /\ work' = work
    BY <1>8 DEF Abandon, End
  <2>2. \A q \in Requests : task[q]["indexes"] = "run" => task'[q]["indexes"] = "run"
    <3>1. CASE task' = task
      BY <3>1
    <3>2. CASE pc[r] = "deliver" /\ task' = [task EXCEPT ![r] = NotStarted]
      BY <1>0, <3>2, Constants DEF Entered, RequestTypes
    <3> QED BY <3>1, <3>2, <1>8 DEF Abandon, End
  <2> QED BY <1>0, <2>1, <2>2 DEF UsersServe
<1>9. ASSUME NEW s \in Slots, NEW r \in Requests, AcquireSlot(s, r) PROVE UsersServe'
  <2>1. step' = step /\ inFlight' = inFlight
    BY <1>9 DEF AcquireSlot
  <2>2. \A q \in Requests : task'[q]["indexes"] = task[q]["indexes"]
    BY <1>9, AcquireMoves, Constants
  <2>3. \A q \in Requests : work["breadth"][q] = "running" => work'["breadth"][q] = "running"
    BY <1>0, <1>9, AcquireMoves, Constants DEF Locked, Active
  <2> QED BY <1>0, <1>a, <2>1, <2>2, <2>3 DEF UsersServe
<1>10. ASSUME NEW s \in Slots, NEW r \in Requests, TakeResult(s, r) PROVE UsersServe'
  <2>1. step' = step /\ inFlight' = inFlight
    BY <1>10 DEF TakeResult
  <2>2. \A q \in Requests : task'[q]["indexes"] = task[q]["indexes"]
    BY <1>10, TakeMoves, Constants
  <2>3. \A q \in Requests : work["breadth"][q] = "running" => work'["breadth"][q] = "running"
    BY <1>10, TakeMoves, Constants
  <2> QED BY <1>0, <1>a, <2>1, <2>2, <2>3 DEF UsersServe
<1>11. ASSUME NEW s \in Slots, NEW r \in Requests, TimeoutSlot(s, r) PROVE UsersServe'
  <2>1. step' = step /\ inFlight' = inFlight
    BY <1>11 DEF TimeoutSlot
  <2>2. \A q \in Requests : task'[q]["indexes"] = task[q]["indexes"]
    BY <1>11, TimeoutMoves, Constants
  <2>3. \A q \in Requests : work["breadth"][q] = "running" => work'["breadth"][q] = "running"
    BY <1>11, TimeoutMoves, Constants
  <2> QED BY <1>0, <1>a, <2>1, <2>2, <2>3 DEF UsersServe
<1>12. ASSUME NEW s \in Slots, NEW r \in Requests, StartWork(s, r) PROVE UsersServe'
  <2>a. \A u \in Users : step'[u] = IF s = "breadth" /\ u = <<s, r>> THEN "ask" ELSE step[u]
    BY <1>12, StartMoves
  <2>1. task' = task /\ inFlight' = inFlight
    BY <1>12 DEF StartWork
  <2>2. step[<<"breadth", r>>] = "idle" \/ s # "breadth"
    BY <1>0, <1>12, StartMoves DEF UsersServe
  <2>3. inFlight' # NoUser => step'[inFlight'] = "fetch"
    <3>1. inFlight \in Users => step'[inFlight] = IF s = "breadth" /\ inFlight = <<s, r>> THEN "ask" ELSE step[inFlight]
      BY <1>12, StartMoves
    <3> QED BY <1>0, <1>b, <2>1, <2>2, <3>1 DEF UsersServe
  <2>4. \A q \in Requests : step'[<<"indexes", q>>] = step[<<"indexes", q>>]
    BY <1>a, <1>12, StartMoves
  <2>5. \A q \in Requests : step'[<<"breadth", q>>] # "idle" => work'["breadth"][q] = "running"
    <3>1. \A q \in Requests : step'[<<"breadth", q>>] = step[<<"breadth", q>>] \/ (s = "breadth" /\ q = r)
      BY <1>a, <2>a
    <3>2. \A q \in Requests : work["breadth"][q] = "running" => work'["breadth"][q] = "running"
      BY <1>12, StartMoves, Constants
    <3>3. s = "breadth" => work'["breadth"][r] = "running"
      BY <1>12, StartMoves, Constants
    <3> QED BY <1>0, <3>1, <3>2, <3>3 DEF UsersServe
  <2> QED BY <1>0, <2>1, <2>3, <2>4, <2>5 DEF UsersServe
<1>13. ASSUME NEW s \in Slots, NEW r \in Requests, FinishWork(s, r) PROVE UsersServe'
  <2>a. /\ work[s][r] = "running"
        /\ \A t \in Slots : \A q \in Requests :
             work'[t][q] = IF t = s /\ q = r THEN "ready" ELSE work[t][q]
        /\ \A u \in Users : step'[u] = IF s = "breadth" /\ u = <<s, r>> THEN "idle" ELSE step[u]
    BY <1>13, FinishMoves
  <2>1. task' = task /\ inFlight' = inFlight
    BY <1>13 DEF FinishWork
  <2>2. s = "breadth" => step[<<"breadth", r>>] \in {"ask", "other"}
    BY <1>13, FinishAsks
  <2>3. inFlight' # NoUser => step'[inFlight'] = "fetch"
    <3>1. inFlight \in Users => step'[inFlight] = IF s = "breadth" /\ inFlight = <<s, r>> THEN "idle" ELSE step[inFlight]
      BY <2>a
    <3> QED BY <1>0, <1>b, <2>1, <2>2, <3>1 DEF UsersServe
  <2>4. \A q \in Requests : step'[<<"indexes", q>>] = step[<<"indexes", q>>]
    BY <1>a, <2>a
  <2>5. \A q \in Requests : step'[<<"breadth", q>>] # "idle" => work'["breadth"][q] = "running"
    <3>1. \A q \in Requests : IF s = "breadth" /\ q = r THEN step'[<<"breadth", q>>] = "idle"
                              ELSE step'[<<"breadth", q>>] = step[<<"breadth", q>>]
      BY <1>a, <2>a
    <3>2. \A q \in Requests : work'["breadth"][q] = work["breadth"][q] \/ (s = "breadth" /\ q = r)
      BY <2>a, Constants
    <3> QED BY <1>0, <3>1, <3>2 DEF UsersServe
  <2> QED BY <1>0, <2>1, <2>3, <2>4, <2>5 DEF UsersServe
<1>14. ASSUME NEW s \in Slots, NEW r \in Requests, ReleaseSlot(s, r) PROVE UsersServe'
  <2>1. step' = step /\ inFlight' = inFlight
    BY <1>14 DEF ReleaseSlot
  <2>2. \A q \in Requests : task'[q]["indexes"] = task[q]["indexes"]
    BY <1>14 DEF ReleaseSlot
  <2>3. \A q \in Requests : work["breadth"][q] = "running" => work'["breadth"][q] = "running"
    BY <1>14, ReleaseMoves, Constants
  <2> QED BY <1>0, <1>a, <2>1, <2>2, <2>3 DEF UsersServe
<1>15. ASSUME NEW u \in Users, UserStep(u) PROVE UsersServe'
  <2>1. UserMoves(u)
    BY <1>15, UserStepMoves
  <2>2. inFlight' # NoUser => step'[inFlight'] = "fetch"
    BY <2>1 DEF UserMoves
  <2>3. \A w \in Users : step'[w] # "idle" => step[w] # "idle"
    BY <2>1 DEF UserMoves
  <2>4. \A q \in Requests : step'[<<"indexes", q>>] # "idle" => task'[q]["indexes"] = "run"
    <3> SUFFICES ASSUME NEW q \in Requests, step'[<<"indexes", q>>] # "idle"
                 PROVE  task'[q]["indexes"] = "run"
      OBVIOUS
    <3>1. task[q]["indexes"] = "run"
      BY <1>0, <1>a, <2>3 DEF UsersServe
    <3>2. ~(q = u[2] /\ u[1] = "indexes" /\ step'[u] = "idle")
      BY <1>c
    <3> QED BY <2>1, <3>1, <3>2, FoundMoves, Constants
  <2>5. \A q \in Requests : step'[<<"breadth", q>>] # "idle" => work'["breadth"][q] = "running"
    <3> SUFFICES ASSUME NEW q \in Requests, step'[<<"breadth", q>>] # "idle"
                 PROVE  work'["breadth"][q] = "running"
      OBVIOUS
    <3>1. work["breadth"][q] = "running"
      BY <1>0, <1>a, <2>3 DEF UsersServe
    <3>2. ~(q = u[2] /\ u[1] = "breadth" /\ step'[u] = "idle")
      BY <1>c
    <3> QED BY <2>1, <3>1, <3>2, FoundMoves, Constants
  <2> QED BY <2>2, <2>4, <2>5 DEF UsersServe
<1>16. CASE FetchYesterday
  BY <1>0, <1>a, <1>b, Constants, <1>16 DEF FetchYesterday, UsersServe, Entered, Underway, RequestTypes, WorkerTypes
<1>17. CASE NewDay
  BY <1>0, <1>a, <1>b, Constants, <1>17 DEF NewDay, UsersServe, Entered, Underway, RequestTypes, WorkerTypes
<1>18. CASE UNCHANGED vars
  BY <1>0, <1>a, <1>b, Constants, <1>18 DEF vars, UsersServe, Entered, Underway, RequestTypes, WorkerTypes
<1> QED
  BY <1>1, <1>2, <1>3, <1>4, <1>5, <1>6, <1>7, <1>8, <1>9, <1>10, <1>11, <1>12, <1>13, <1>14, <1>15, <1>16, <1>17, <1>18 DEF Next, RequestStep, WorkerStep

-------------------------------------------------------------------------------
(* What a request uses, the locks of the slots, and what is live.           *)

LEMMA NothingOldStep == SnapshotInv /\ [Next]_vars => NothingOld'
<1> SUFFICES ASSUME SnapshotInv, [Next]_vars PROVE NothingOld'
  OBVIOUS
<1>0. RequestTypes /\ WorkerTypes /\ Entered /\ NothingOld
  BY DEF SnapshotInv
<1> USE DEF flightVars, userVars, slotVars, poolVars, requestVars
<1>1. ASSUME NEW r \in Requests, Enter(r) PROVE NothingOld'
  BY <1>0, <1>1 DEF Enter, NothingOld, RequestTypes, WorkerTypes, Cleared, Underway
<1>2. ASSUME NEW r \in Requests, ClearCache(r) PROVE NothingOld'
  BY <1>0, <1>2 DEF ClearCache, NothingOld, RequestTypes, WorkerTypes, Cleared, Underway
<1>3. ASSUME NEW r \in Requests, ScheduleYesterday(r) PROVE NothingOld'
  BY <1>0, <1>3 DEF ScheduleYesterday, NothingOld, RequestTypes, WorkerTypes, Cleared, Underway
<1>4. ASSUME NEW r \in Requests, ReadYesterday(r) PROVE NothingOld'
  BY <1>0, <1>4 DEF ReadYesterday, NothingOld, RequestTypes, WorkerTypes, Cleared, Underway
<1>5. ASSUME NEW r \in Requests, Compose(r) PROVE NothingOld'
  <2>1. UNCHANGED <<cache, news, result>>
    BY <1>5 DEF Compose
  <2>2. \A q \in Requests : pc'[q] \in Cleared => pc[q] \in Cleared
    BY <1>0, <1>5 DEF Compose, RequestTypes, Cleared, Underway
  <2>3. \A q \in Requests : got'[q] = got[q] \/ got'[q] = Nothing
    BY <1>0, <1>5 DEF Compose, RequestTypes
  <2>4. \A m \in Modules : Nothing[m] = Missing
    BY DEF Nothing
  <2> QED BY <1>0, <2>1, <2>2, <2>3, <2>4 DEF NothingOld
<1>6. ASSUME NEW r \in Requests, Deliver(r) PROVE NothingOld'
  <2>1. UNCHANGED <<cache, news, result>>
    BY <1>6 DEF Deliver, End
  <2>2. \A q \in Requests : pc'[q] \in Cleared => pc[q] \in Cleared
    BY <1>0, <1>6 DEF Deliver, End, RequestTypes, Cleared, Underway
  <2>3. \A q \in Requests : got'[q] = got[q] \/ got'[q] = Nothing
    BY <1>0, <1>6 DEF Deliver, End, RequestTypes
  <2>4. \A m \in Modules : Nothing[m] = Missing
    BY DEF Nothing
  <2> QED BY <1>0, <2>1, <2>2, <2>3, <2>4 DEF NothingOld
<1>7. ASSUME NEW r \in Requests, Close(r) PROVE NothingOld'
  <2>1. UNCHANGED <<cache, news, result>>
    BY <1>7 DEF Close, End
  <2>2. \A q \in Requests : pc'[q] \in Cleared => pc[q] \in Cleared
    BY <1>0, <1>7 DEF Close, End, RequestTypes, Cleared, Underway
  <2>3. \A q \in Requests : got'[q] = got[q] \/ got'[q] = Nothing
    BY <1>0, <1>7 DEF Close, End, RequestTypes
  <2>4. \A m \in Modules : Nothing[m] = Missing
    BY DEF Nothing
  <2> QED BY <1>0, <2>1, <2>2, <2>3, <2>4 DEF NothingOld
<1>8. ASSUME NEW r \in Requests, Abandon(r) PROVE NothingOld'
  <2>1. UNCHANGED <<cache, news, result>>
    BY <1>8 DEF Abandon, End
  <2>2. \A q \in Requests : pc'[q] \in Cleared => pc[q] \in Cleared
    BY <1>0, <1>8 DEF Abandon, End, RequestTypes, Cleared, Underway
  <2>3. \A q \in Requests : got'[q] = got[q] \/ got'[q] = Nothing
    BY <1>0, <1>8 DEF Abandon, End, RequestTypes
  <2>4. \A m \in Modules : Nothing[m] = Missing
    BY DEF Nothing
  <2> QED BY <1>0, <2>1, <2>2, <2>3, <2>4 DEF NothingOld
<1>9. ASSUME NEW s \in Slots, NEW r \in Requests, AcquireSlot(s, r) PROVE NothingOld'
  <2>1. UNCHANGED <<cache, news, result, got, pc>>
    BY <1>9 DEF AcquireSlot
  <2> QED BY <1>0, <2>1 DEF NothingOld
<1>10. ASSUME NEW s \in Slots, NEW r \in Requests, TakeResult(s, r) PROVE NothingOld'
  <2>1. UNCHANGED <<cache, news, pc>>
    BY <1>10 DEF TakeResult
  <2> QED BY <1>0, <2>1, <1>10, TakeMoves DEF NothingOld
<1>11. ASSUME NEW s \in Slots, NEW r \in Requests, TimeoutSlot(s, r) PROVE NothingOld'
  <2>1. UNCHANGED <<cache, news, result, got, pc>>
    BY <1>11 DEF TimeoutSlot
  <2> QED BY <1>0, <2>1 DEF NothingOld
<1>12. ASSUME NEW s \in Slots, NEW r \in Requests, StartWork(s, r) PROVE NothingOld'
  <2>1. UNCHANGED <<cache, news, result, got, pc>>
    BY <1>12 DEF StartWork
  <2> QED BY <1>0, <2>1 DEF NothingOld
<1>13. ASSUME NEW s \in Slots, NEW r \in Requests, FinishWork(s, r) PROVE NothingOld'
  <2>1. UNCHANGED <<cache, news, pc, got>>
    BY <1>13 DEF FinishWork
  <2> QED BY <1>0, <2>1, <1>13, FinishResults DEF NothingOld
<1>14. ASSUME NEW s \in Slots, NEW r \in Requests, ReleaseSlot(s, r) PROVE NothingOld'
  <2>1. UNCHANGED <<cache, news, result, got, pc>>
    BY <1>14 DEF ReleaseSlot
  <2> QED BY <1>0, <2>1 DEF NothingOld
<1>15. ASSUME NEW u \in Users, UserStep(u) PROVE NothingOld'
  <2>1. UserMoves(u) /\ pc' = pc
    BY <1>15, UserStepMoves DEF UserMoves
  <2>2. cache' # Missing => \A r \in Requests : pc'[r] \in Cleared => r <= cache'
    <3>1. \A r \in Requests : pc[r] \in Cleared => r <= generation
      BY <1>0 DEF Entered, Cleared, Underway
    <3>2. cache' = cache \/ cache' = generation
      BY <2>1 DEF UserMoves
    <3> QED BY <1>0, <2>1, <3>1, <3>2 DEF NothingOld
  <2>3. \A w \in Users : news'[w] # Missing => w[2] <= news'[w]
    BY <1>0, <2>1, UserEntered DEF NothingOld, UserMoves
  <2> QED BY <1>0, <2>1, <2>2, <2>3, FoundMoves DEF NothingOld
<1>16. CASE FetchYesterday
  BY <1>0, <1>16 DEF FetchYesterday, NothingOld, RequestTypes, WorkerTypes, Cleared, Underway
<1>17. CASE NewDay
  BY <1>0, <1>17 DEF NewDay, NothingOld, RequestTypes, WorkerTypes, Cleared, Underway
<1>18. CASE UNCHANGED vars
  BY <1>0, <1>18 DEF vars, NothingOld, RequestTypes, WorkerTypes, Cleared, Underway
<1> QED
  BY <1>1, <1>2, <1>3, <1>4, <1>5, <1>6, <1>7, <1>8, <1>9, <1>10, <1>11, <1>12, <1>13, <1>14, <1>15, <1>16, <1>17, <1>18 DEF Next, RequestStep, WorkerStep

LEMMA LockedStep == SnapshotInv /\ [Next]_vars => Locked'
<1> SUFFICES ASSUME SnapshotInv, [Next]_vars PROVE Locked'
  OBVIOUS
<1>0. WorkerTypes /\ UsersServe /\ Locked
  BY DEF SnapshotInv
<1> USE DEF flightVars, userVars, slotVars, poolVars, requestVars
<1>1. ASSUME NEW r \in Requests, Enter(r) PROVE Locked'
  BY <1>0, <1>1 DEF Enter, Locked, Active
<1>2. ASSUME NEW r \in Requests, ClearCache(r) PROVE Locked'
  BY <1>0, <1>2 DEF ClearCache, Locked, Active
<1>3. ASSUME NEW r \in Requests, ScheduleYesterday(r) PROVE Locked'
  BY <1>0, <1>3 DEF ScheduleYesterday, Locked, Active
<1>4. ASSUME NEW r \in Requests, ReadYesterday(r) PROVE Locked'
  BY <1>0, <1>4 DEF ReadYesterday, Locked, Active
<1>5. ASSUME NEW r \in Requests, Compose(r) PROVE Locked'
  BY <1>0, <1>5 DEF Compose, Locked, Active
<1>6. ASSUME NEW r \in Requests, Deliver(r) PROVE Locked'
  BY <1>0, <1>6 DEF Deliver, End, Locked, Active
<1>7. ASSUME NEW r \in Requests, Close(r) PROVE Locked'
  BY <1>0, <1>7 DEF Close, End, Locked, Active
<1>8. ASSUME NEW r \in Requests, Abandon(r) PROVE Locked'
  BY <1>0, <1>8 DEF Abandon, End, Locked, Active
<1>9. ASSUME NEW s \in Slots, NEW r \in Requests, AcquireSlot(s, r) PROVE Locked'
  <2>1. \A t \in Slots : \A q \in Requests :
          q \in Active(t)' <=> q \in Active(t) \/ (t = s /\ q = r /\ ~slotLock[s])
    BY <1>9, AcquireMoves DEF Active
  <2>2. \A t \in Slots : slotLock'[t] <=> slotLock[t] \/ t = s
    BY <1>9, AcquireMoves DEF AcquireSlot
  <2> QED BY <1>0, <2>1, <2>2 DEF Locked
<1>10. ASSUME NEW s \in Slots, NEW r \in Requests, TakeResult(s, r) PROVE Locked'
  <2>1. \A t \in Slots : \A q \in Requests :
          q \in Active(t)' <=> q \in Active(t)
    BY <1>10, TakeMoves DEF Active
  <2>2. \A t \in Slots : slotLock'[t] <=> slotLock[t]
    BY <1>10 DEF TakeResult
  <2> QED BY <1>0, <2>1, <2>2 DEF Locked
<1>11. ASSUME NEW s \in Slots, NEW r \in Requests, TimeoutSlot(s, r) PROVE Locked'
  <2>1. \A t \in Slots : \A q \in Requests :
          q \in Active(t)' <=> q \in Active(t) /\ ~(t = s /\ q = r /\ work[s][r] = "queued")
    BY <1>11, TimeoutMoves DEF Active
  <2>2. \A t \in Slots : slotLock'[t] <=> slotLock[t] /\ ~(t = s /\ work[s][r] = "queued")
    BY <1>11, TimeoutMoves DEF TimeoutSlot
  <2>3. r \in Active(s)
    BY <1>11, TimeoutMoves DEF Active
  <2> QED BY <1>0, <2>1, <2>2, <2>3 DEF Locked
<1>12. ASSUME NEW s \in Slots, NEW r \in Requests, StartWork(s, r) PROVE Locked'
  <2>1. \A t \in Slots : \A q \in Requests :
          q \in Active(t)' <=> q \in Active(t)
    BY <1>12, StartMoves DEF Active
  <2>2. \A t \in Slots : slotLock'[t] <=> slotLock[t]
    BY <1>12 DEF StartWork
  <2> QED BY <1>0, <2>1, <2>2 DEF Locked
<1>13. ASSUME NEW s \in Slots, NEW r \in Requests, FinishWork(s, r) PROVE Locked'
  <2>1. \A t \in Slots : \A q \in Requests :
          q \in Active(t)' <=> q \in Active(t)
    BY <1>13, FinishMoves DEF Active
  <2>2. \A t \in Slots : slotLock'[t] <=> slotLock[t]
    BY <1>13 DEF FinishWork
  <2> QED BY <1>0, <2>1, <2>2 DEF Locked
<1>14. ASSUME NEW s \in Slots, NEW r \in Requests, ReleaseSlot(s, r) PROVE Locked'
  <2>1. \A t \in Slots : \A q \in Requests :
          q \in Active(t)' <=> q \in Active(t) /\ ~(t = s /\ q = r)
    BY <1>14, ReleaseMoves DEF Active
  <2>2. \A t \in Slots : slotLock'[t] <=> slotLock[t] /\ t # s
    BY <1>14, ReleaseMoves DEF ReleaseSlot
  <2>3. r \in Active(s)
    BY <1>14, ReleaseMoves DEF Active
  <2> QED BY <1>0, <2>1, <2>2, <2>3 DEF Locked
<1>15. ASSUME NEW u \in Users, UserStep(u) PROVE Locked'
  <2>1. UserMoves(u) /\ step[u] # "idle"
    BY <1>15, UserStepMoves DEF UserMoves
  <2>2. u[1] = "breadth" => work["breadth"][u[2]] = "running" /\ u[2] \in Requests
    <3>1. u[2] \in Requests /\ u = <<u[1], u[2]>>
      BY UserIs
    <3>2. u[1] = "breadth" => step[<<"breadth", u[2]>>] # "idle"
      BY <2>1, <3>1
    <3> QED BY <1>0, <3>1, <3>2 DEF UsersServe
  <2>3. /\ slotLock' = slotLock
        /\ \A t \in Slots : \A q \in Requests :
             work'[t][q] = work[t][q]
             \/ (work[t][q] = "running" /\ work'[t][q] = "ready")
    BY <2>1, <2>2, FoundMoves
  <2>4. \A t \in Slots : \A q \in Requests : q \in Active(t)' <=> q \in Active(t)
    BY <2>3 DEF Active
  <2> QED BY <1>0, <2>3, <2>4 DEF Locked
<1>16. CASE FetchYesterday
  BY <1>0, <1>16 DEF FetchYesterday, Locked, Active
<1>17. CASE NewDay
  BY <1>0, <1>17 DEF NewDay, Locked, Active
<1>18. CASE UNCHANGED vars
  BY <1>0, <1>18 DEF vars, Locked, Active
<1> QED
  BY <1>1, <1>2, <1>3, <1>4, <1>5, <1>6, <1>7, <1>8, <1>9, <1>10, <1>11, <1>12, <1>13, <1>14, <1>15, <1>16, <1>17, <1>18 DEF Next, RequestStep, WorkerStep

LEMMA LivePartsStep == SnapshotInv /\ [Next]_vars => LivePartsAreOwn'
<1> SUFFICES ASSUME SnapshotInv, [Next]_vars PROVE LivePartsAreOwn'
  OBVIOUS
<1>0. RequestTypes /\ WorkerTypes /\ Entered /\ NothingOld /\ LivePartsAreOwn
  BY DEF SnapshotInv
<1>a. NoSnapshot.status = "none" /\ NotSeen = [since |-> 0, pool |-> Missing]
  BY DEF NoSnapshot, NotSeen
<1>b. day \in Nat /\ MaxDay \in Nat /\ day <= MaxDay
  BY <1>0 DEF WorkerTypes
<1> USE DEF flightVars, userVars, slotVars, poolVars, requestVars
<1>1. ASSUME NEW r \in Requests, Enter(r) PROVE LivePartsAreOwn'
  <2>1. UNCHANGED <<snapshot, retained, day>> /\ seen' = [seen EXCEPT ![r].since = day]
    BY <1>1 DEF Enter
  <2>2. seen[r] = NotSeen
    BY <1>0, <1>1 DEF Enter, Entered, RequestTypes, Requests
  <2>3. \A q \in Requests : IF q = r THEN seen'[q].since = day /\ seen'[q].pool = Missing
                                     ELSE seen'[q] = seen[q]
    BY <1>0, <1>a, <2>1, <2>2 DEF RequestTypes
  <2>4. \A q \in Requests : seen'[q].since <= day
                            /\ seen'[q].pool \in {Missing} \cup seen'[q].since .. day
    BY <1>0, <1>b, <2>3 DEF LivePartsAreOwn
  <2> QED BY <1>0, <2>1, <2>4 DEF LivePartsAreOwn, OwnParts
<1>2. ASSUME NEW r \in Requests, ClearCache(r) PROVE LivePartsAreOwn'
  <2>1. UNCHANGED <<seen, snapshot, retained, day>>
    BY <1>2 DEF ClearCache
  <2> QED BY <1>0, <2>1 DEF LivePartsAreOwn, OwnParts
<1>3. ASSUME NEW r \in Requests, ScheduleYesterday(r) PROVE LivePartsAreOwn'
  <2>1. UNCHANGED <<seen, snapshot, retained, day>>
    BY <1>3 DEF ScheduleYesterday
  <2> QED BY <1>0, <2>1 DEF LivePartsAreOwn, OwnParts
<1>4. ASSUME NEW r \in Requests, ReadYesterday(r) PROVE LivePartsAreOwn'
  <2>1. UNCHANGED <<snapshot, retained, day>>
        /\ seen' = [seen EXCEPT ![r].pool = IF pool = day THEN pool ELSE Missing]
    BY <1>4 DEF ReadYesterday, HasPool
  <2>2. \A q \in Requests : IF q = r THEN /\ seen'[q].since = seen[q].since
                                          /\ seen'[q].pool \in {day, Missing}
                                     ELSE seen'[q] = seen[q]
    BY <1>0, <2>1 DEF RequestTypes
  <2>3. \A q \in Requests : seen[q].since \in Nat
    BY <1>0 DEF RequestTypes
  <2>4. \A q \in Requests : seen'[q].since <= day
                            /\ seen'[q].pool \in {Missing} \cup seen'[q].since .. day
    BY <1>0, <1>b, <2>2, <2>3 DEF LivePartsAreOwn
  <2> QED BY <1>0, <2>1, <2>4 DEF LivePartsAreOwn, OwnParts
<1>5. ASSUME NEW r \in Requests, Compose(r) PROVE LivePartsAreOwn'
  <2>1. PICK local \in LocalSnapshot(r) :
          snapshot' = [snapshot EXCEPT ![r] =
            [generation |-> r, since |-> seen[r].since, status |-> Status(r, local),
             part |-> [f \in Fields |-> IF Own(r, f) # Missing THEN Own(r, f)
                       ELSE IF f \in Kept(r) THEN retained.part[f] ELSE local]]]
    BY <1>5 DEF Compose
  <2> DEFINE part == [f \in Fields |-> IF Own(r, f) # Missing THEN Own(r, f)
                       ELSE IF f \in Kept(r) THEN retained.part[f] ELSE local]
             sn == [generation |-> r, since |-> seen[r].since, status |-> Status(r, local),
                    part |-> part]
  <2>2. ASSUME Status(r, local) = "live"
        PROVE  /\ \A m \in Modules : part[m] = r
               /\ part["yesterday"] \in {Missing} \cup seen[r].since .. MaxDay
    <3>1. Live(r) /\ Kept(r) = {}
      BY <2>2 DEF Status
    <3>2. local = Missing
      BY <2>1, <3>1 DEF LocalSnapshot
    <3>3. \A m \in Modules : got[r][m] = r /\ r # Missing /\ Own(r, m) = got[r][m]
      BY <1>0, <3>1, Constants DEF Live, NothingOld, Own
    <3>4. part["yesterday"] = seen[r].pool
      BY <3>1, <3>2, Constants DEF Own
    <3>5. seen[r].since \in Nat /\ seen[r].pool \in {Missing} \cup seen[r].since .. day
      BY <1>0 DEF LivePartsAreOwn, RequestTypes
    <3>6. seen[r].pool \in {Missing} \cup seen[r].since .. MaxDay
      BY <1>b, <3>5
    <3>7. \A m \in Modules : part[m] = r
      BY <3>3, Constants
    <3> QED BY <3>4, <3>6, <3>7
  <2>3. OwnParts(sn) /\ sn.generation = r
    <3> HIDE DEF part
    <3> QED BY <2>2 DEF OwnParts
  <2>4. snapshot' = [snapshot EXCEPT ![r] = sn]
    BY <2>1
  <2> HIDE DEF sn
  <2>5. \A q \in Requests : OwnParts(snapshot'[q])
                            /\ (snapshot'[q].status = "live" => snapshot'[q].generation = q)
    BY <1>0, <2>3, <2>4 DEF LivePartsAreOwn, RequestTypes
  <2>6. \A q \in Requests : seen'[q] = seen[q] \/ seen'[q] = NotSeen
    BY <1>0, <1>5 DEF Compose, RequestTypes
  <2>7. \A q \in Requests : seen'[q].since <= day
                            /\ seen'[q].pool \in {Missing} \cup seen'[q].since .. day
    BY <1>0, <1>a, <1>b, <2>6 DEF LivePartsAreOwn
  <2>8. day' = day /\ retained' = retained
    BY <1>5 DEF Compose
  <2> QED BY <1>0, <2>5, <2>7, <2>8 DEF LivePartsAreOwn, OwnParts
<1>6. ASSUME NEW r \in Requests, Deliver(r) PROVE LivePartsAreOwn'
  <2>1. day' = day /\ retained' \in {snapshot[r], retained}
    BY <1>6 DEF Deliver, End
  <2>2. \A q \in Requests : seen'[q] = seen[q] \/ seen'[q] = NotSeen
    BY <1>0, <1>6 DEF Deliver, End, RequestTypes
  <2>3. \A q \in Requests : seen'[q].since <= day
                            /\ seen'[q].pool \in {Missing} \cup seen'[q].since .. day
    BY <1>0, <1>a, <1>b, <2>2 DEF LivePartsAreOwn
  <2>4. \A q \in Requests : snapshot'[q] = snapshot[q] \/ snapshot'[q] = NoSnapshot
    BY <1>0, <1>6 DEF Deliver, End, RequestTypes
  <2>5. \A q \in Requests : OwnParts(snapshot'[q])
                            /\ (snapshot'[q].status = "live" => snapshot'[q].generation = q)
    BY <1>0, <1>a, <2>4 DEF LivePartsAreOwn, OwnParts
  <2>6. OwnParts(retained')
    BY <1>0, <2>1 DEF LivePartsAreOwn
  <2> QED BY <1>0, <2>1, <2>3, <2>5, <2>6 DEF LivePartsAreOwn, OwnParts
<1>7. ASSUME NEW r \in Requests, Close(r) PROVE LivePartsAreOwn'
  <2>1. UNCHANGED <<retained, day>>
    BY <1>7 DEF Close, End
  <2>2. \A q \in Requests : seen'[q] = seen[q] \/ seen'[q] = NotSeen
    BY <1>0, <1>7 DEF Close, End, RequestTypes
  <2>3. \A q \in Requests : seen'[q].since <= day
                            /\ seen'[q].pool \in {Missing} \cup seen'[q].since .. day
    BY <1>0, <1>a, <1>b, <2>2 DEF LivePartsAreOwn
  <2>4. \A q \in Requests : snapshot'[q] = snapshot[q] \/ snapshot'[q] = NoSnapshot
    BY <1>0, <1>7 DEF Close, End, RequestTypes
  <2>5. \A q \in Requests : OwnParts(snapshot'[q])
                            /\ (snapshot'[q].status = "live" => snapshot'[q].generation = q)
    BY <1>0, <1>a, <2>4 DEF LivePartsAreOwn, OwnParts
  <2> QED BY <1>0, <2>1, <2>3, <2>5 DEF LivePartsAreOwn, OwnParts
<1>8. ASSUME NEW r \in Requests, Abandon(r) PROVE LivePartsAreOwn'
  <2>1. UNCHANGED <<retained, day>>
    BY <1>8 DEF Abandon, End
  <2>2. \A q \in Requests : seen'[q] = seen[q] \/ seen'[q] = NotSeen
    BY <1>0, <1>8 DEF Abandon, End, RequestTypes
  <2>3. \A q \in Requests : seen'[q].since <= day
                            /\ seen'[q].pool \in {Missing} \cup seen'[q].since .. day
    BY <1>0, <1>a, <1>b, <2>2 DEF LivePartsAreOwn
  <2>4. \A q \in Requests : snapshot'[q] = snapshot[q] \/ snapshot'[q] = NoSnapshot
    BY <1>0, <1>8 DEF Abandon, End, RequestTypes
  <2>5. \A q \in Requests : OwnParts(snapshot'[q])
                            /\ (snapshot'[q].status = "live" => snapshot'[q].generation = q)
    BY <1>0, <1>a, <2>4 DEF LivePartsAreOwn, OwnParts
  <2> QED BY <1>0, <2>1, <2>3, <2>5 DEF LivePartsAreOwn, OwnParts
<1>9. ASSUME NEW s \in Slots, NEW r \in Requests, AcquireSlot(s, r) PROVE LivePartsAreOwn'
  <2>1. UNCHANGED <<seen, snapshot, retained, day>>
    BY <1>9 DEF AcquireSlot
  <2> QED BY <1>0, <2>1 DEF LivePartsAreOwn, OwnParts
<1>10. ASSUME NEW s \in Slots, NEW r \in Requests, TakeResult(s, r) PROVE LivePartsAreOwn'
  <2>1. UNCHANGED <<seen, snapshot, retained, day>>
    BY <1>10 DEF TakeResult
  <2> QED BY <1>0, <2>1 DEF LivePartsAreOwn, OwnParts
<1>11. ASSUME NEW s \in Slots, NEW r \in Requests, TimeoutSlot(s, r) PROVE LivePartsAreOwn'
  <2>1. UNCHANGED <<seen, snapshot, retained, day>>
    BY <1>11 DEF TimeoutSlot
  <2> QED BY <1>0, <2>1 DEF LivePartsAreOwn, OwnParts
<1>12. ASSUME NEW s \in Slots, NEW r \in Requests, StartWork(s, r) PROVE LivePartsAreOwn'
  <2>1. UNCHANGED <<seen, snapshot, retained, day>>
    BY <1>12 DEF StartWork
  <2> QED BY <1>0, <2>1 DEF LivePartsAreOwn, OwnParts
<1>13. ASSUME NEW s \in Slots, NEW r \in Requests, FinishWork(s, r) PROVE LivePartsAreOwn'
  <2>1. UNCHANGED <<seen, snapshot, retained, day>>
    BY <1>13 DEF FinishWork
  <2> QED BY <1>0, <2>1 DEF LivePartsAreOwn, OwnParts
<1>14. ASSUME NEW s \in Slots, NEW r \in Requests, ReleaseSlot(s, r) PROVE LivePartsAreOwn'
  <2>1. UNCHANGED <<seen, snapshot, retained, day>>
    BY <1>14 DEF ReleaseSlot
  <2> QED BY <1>0, <2>1 DEF LivePartsAreOwn, OwnParts
<1>15. ASSUME NEW u \in Users, UserStep(u) PROVE LivePartsAreOwn'
  <2>1. UNCHANGED <<seen, snapshot, retained, day>>
    BY <1>15, UserStepMoves DEF UserMoves
  <2> QED BY <1>0, <2>1 DEF LivePartsAreOwn, OwnParts
<1>16. CASE FetchYesterday
  <2>1. UNCHANGED <<seen, snapshot, retained, day>>
    BY <1>16 DEF FetchYesterday
  <2> QED BY <1>0, <2>1 DEF LivePartsAreOwn, OwnParts
<1>17. CASE NewDay
  <2>1. UNCHANGED <<seen, snapshot, retained>> /\ day' = day + 1
    BY <1>17 DEF NewDay
  <2>2. \A q \in Requests : seen[q].since \in Nat /\ seen[q].since <= day
    BY <1>0 DEF RequestTypes, LivePartsAreOwn
  <2>3. \A q \in Requests : seen'[q].since <= day'
                            /\ seen'[q].pool \in {Missing} \cup seen'[q].since .. day'
    BY <1>0, <1>b, <2>1, <2>2 DEF LivePartsAreOwn
  <2> QED BY <1>0, <2>1, <2>3 DEF LivePartsAreOwn, OwnParts
<1>18. CASE UNCHANGED vars
  <2>1. UNCHANGED <<seen, snapshot, retained, day>>
    BY <1>18 DEF vars
  <2> QED BY <1>0, <2>1 DEF LivePartsAreOwn, OwnParts
<1> QED
  BY <1>1, <1>2, <1>3, <1>4, <1>5, <1>6, <1>7, <1>8, <1>9, <1>10, <1>11, <1>12, <1>13, <1>14, <1>15, <1>16, <1>17, <1>18 DEF Next, RequestStep, WorkerStep

-------------------------------------------------------------------------------
(* The invariant holds.                                                     *)

LEMMA InvBegins == Init => SnapshotInv
<1> SUFFICES ASSUME Init PROVE SnapshotInv
  OBVIOUS
<1>a. Missing \in Value /\ Missing \in Pool /\ Missing = 0
  BY DEF Missing, Value, Pool
<1>b. NoSnapshot \in SnapshotType /\ NoSnapshot.status = "none" /\ NotSeen.since = 0
      /\ NotSeen.pool = Missing /\ NotSeen \in [since : 0 .. MaxDay, pool : Pool]
  BY <1>a DEF NoSnapshot, SnapshotType, NotSeen
<1>c. /\ Nothing \in [Modules -> Value] /\ \A m \in Modules : Nothing[m] = Missing
      /\ NotStarted \in [Modules -> {"no", "run", "start", "wait", "back"}]
      /\ \A m \in Modules : NotStarted[m] = "no"
  BY <1>a DEF Nothing, NotStarted
<1>1. RequestTypes
  BY <1>b, <1>c DEF Init, RequestTypes
<1>2. WorkerTypes
  <2>1. slotLock \in [Slots -> BOOLEAN]
    BY DEF Init
  <2> QED BY <1>a, <2>1 DEF Init, WorkerTypes
<1>3. Entered
  BY <1>c DEF Init, Entered
<1>4. UsersServe
  BY UserIs, NoOneIsNoUser DEF Init, UsersServe
<1>w. WaitsAreServed
  BY <1>c, Constants DEF Init, WaitsAreServed, WaitIsServed, NotStarted
<1>5. NothingOld
  BY <1>c DEF Init, NothingOld
<1>6. Locked
  BY DEF Init, Locked, Active
<1>7. LivePartsAreOwn
  BY <1>a, <1>b DEF Init, LivePartsAreOwn, OwnParts
<1> QED BY <1>1, <1>2, <1>3, <1>4, <1>w, <1>5, <1>6, <1>7 DEF SnapshotInv

LEMMA InvHolds == Spec => []SnapshotInv
<1>1. SnapshotInv /\ [Next]_vars => SnapshotInv'
  BY RequestTypesStep, WorkerTypesStep, EnteredStep, WaitsAreServedStep, UsersServeStep, NothingOldStep,
     LockedStep, LivePartsStep DEF SnapshotInv
<1> QED BY InvBegins, <1>1, PTL DEF Spec

\* The state of the provider and of every request keeps its types, and a request
\* that is about to deliver has all its tasks back (realtime.py:206-249, 262-452).
THEOREM TypeCorrect == Spec => []TypeOK
<1>1. SnapshotInv => TypeOK
  BY DEF SnapshotInv, RequestTypes, WorkerTypes, Entered, UsersServe, TypeOK, SnapshotType
<1> QED BY <1>1, InvHolds, PTL

\* However the requests, their workers and the flights interleave, a request is
\* only given quotes that were stored after it began
\* (realtime.py:273, 841-853, 886-889).
THEOREM QuotesAreFresh == Spec => []FreshQuotes
<1>1. SnapshotInv => FreshQuotes
  <2> SUFFICES ASSUME SnapshotInv, NEW r \in Requests, NEW m \in Modules, got[r][m] # Missing
               PROVE  got[r][m] >= r
    BY DEF FreshQuotes
  <2>1. got[r][m] = r /\ r \in Nat
    BY Constants DEF SnapshotInv, NothingOld
  <2> QED BY <2>1
<1> QED BY <1>1, InvHolds, PTL

\* A snapshot that is delivered or retained as live holds only what its own request
\* has gathered, however many requests share the provider (realtime.py:379-452, 529-530).
THEOREM LiveSnapshotsAreOwn == Spec => []LiveIsOwn
<1>1. SnapshotInv => LiveIsOwn
  <2> SUFFICES ASSUME SnapshotInv,
                      NEW s \in {snapshot[r] : r \in Requests} \cup {retained},
                      s.status = "live"
               PROVE  /\ \A m \in Modules : s.part[m] = s.generation
                      /\ s.part["yesterday"] \in {Missing} \cup s.since .. MaxDay
    BY DEF LiveIsOwn
  <2>1. OwnParts(s)
    BY DEF SnapshotInv, LivePartsAreOwn
  <2> QED BY <2>1 DEF OwnParts
<1> QED BY <1>1, InvHolds, PTL

\* A slot is locked exactly while there is one piece of work in it, whatever
\* requests have given up on it meanwhile (realtime.py:586-740).
THEOREM SlotsHoldOne == Spec => []SlotsAreExact
<1>1. SnapshotInv => SlotsAreExact
  <2> SUFFICES ASSUME SnapshotInv, NEW s \in Slots
               PROVE  (slotLock[s] <=> Active(s) # {}) /\ Cardinality(Active(s)) <= 1
    BY DEF SlotsAreExact
  <2>1. /\ slotLock[s] <=> \E r \in Requests : r \in Active(s)
        /\ \A q, r \in Requests : q \in Active(s) /\ r \in Active(s) => q = r
        /\ Active(s) \subseteq Requests
    BY DEF SnapshotInv, Locked, Active
  <2>2. CASE Active(s) = {}
    <3>1. Cardinality(Active(s)) = 0
      BY <2>2, FS_EmptySet
    <3> QED BY <2>1, <2>2, <3>1
  <2>3. CASE Active(s) # {}
    <3>1. PICK r \in Requests : Active(s) = {r}
      BY <2>1, <2>3
    <3>2. Cardinality(Active(s)) = 1
      BY <3>1, FS_Singleton
    <3> QED BY <2>1, <2>3, <3>2
  <2> QED BY <2>2, <2>3
<1> QED BY <1>1, InvHolds, PTL

\* In whatever order requests finish, the retained snapshot is replaced only by
\* that of a later request (realtime.py:275-305).
THEOREM RetainedIsNewest == Spec => RetainedGoesForward
<1>1. SnapshotInv /\ [Next]_vars =>
        [retained' # retained => retained'.generation > retained.generation]_retained
  <2> SUFFICES ASSUME SnapshotInv, [Next]_vars, retained' # retained
               PROVE  retained'.generation > retained.generation
    OBVIOUS
  <2>1. PICK r \in Requests : Deliver(r)
    <3>1. ASSUME NEW u \in Users, UserStep(u) PROVE retained' = retained
      BY <3>1, UserStepMoves DEF UserMoves
    <3>2. ASSUME NEW r \in Requests, NEW s \in Slots,
                 AcquireSlot(s, r) \/ TakeResult(s, r) \/ TimeoutSlot(s, r) \/ WorkerStep(s, r)
          PROVE  retained' = retained
      BY <3>2 DEF AcquireSlot, TakeResult, TimeoutSlot, WorkerStep, StartWork, FinishWork,
                  ReleaseSlot
    <3>3. ASSUME NEW r \in Requests,
                 \/ Enter(r) \/ ClearCache(r) \/ ScheduleYesterday(r) \/ ReadYesterday(r)
                 \/ Compose(r) \/ Close(r) \/ Abandon(r)
          PROVE  retained' = retained
      BY <3>3 DEF Enter, ClearCache, ScheduleYesterday, ReadYesterday, Compose, Close, Abandon
    <3>4. CASE FetchYesterday \/ NewDay \/ UNCHANGED vars
      BY <3>4 DEF FetchYesterday, NewDay, vars
    <3> QED BY <3>1, <3>2, <3>3, <3>4 DEF Next, RequestStep
  <2>2. retained' = snapshot[r] /\ snapshot[r].status = "live" /\ r > retained.generation
    BY <2>1 DEF Deliver, Remembers
  <2>3. snapshot[r].generation = r
    BY <2>2 DEF SnapshotInv, LivePartsAreOwn
  <2> QED BY <2>2, <2>3
<1> QED BY <1>1, InvHolds, PTL DEF Spec, RetainedGoesForward

\* The next move is the request's own: a step of its thread whose guard holds, or one of
\* its index task, which is at one of the steps of a user of the payload.
OwnMove(r) ==
  \/ pc[r] \in {"clear", "schedule", "read", "deliver"}
  \/ pc[r] \in {"gather", "closing"} /\ \A m \in Modules : task[r][m] = "back"
  \/ \E s \in Slots :
       \/ task[r][s] = "start"
       \/ task[r][s] = "wait" /\ work[s][r] \in {"queued", "running", "ready", "ended"}
  \/ step[<<"indexes", r>>] \in {"ask", "fetch", "wait", "woken", "other"}

\* A request is never stuck behind another thread.  At whatever it waits, one of its own
\* guards holds: it can collect the result, leave the slot to a worker that is late, or
\* see its index task through (realtime.py:586-740, 841-853).  That the step behind such a
\* guard can be taken is GoesOnAlone, which only TLC can evaluate.
THEOREM NoRequestIsStuck ==
  Spec => [](\A r \in Requests : pc[r] \notin {"none", "done"} => OwnMove(r))
<1>1. SnapshotInv => \A r \in Requests : pc[r] \notin {"none", "done"} => OwnMove(r)
  <2> SUFFICES ASSUME SnapshotInv, NEW r \in Requests, pc[r] \notin {"none", "done"}
               PROVE  OwnMove(r)
    OBVIOUS
  <2>1. RequestTypes /\ WorkerTypes /\ WaitsAreServed /\ <<"indexes", r>> \in Users
    BY UserIs DEF SnapshotInv
  <2>2. CASE pc[r] \in {"clear", "schedule", "read", "deliver"}
    BY <2>2 DEF OwnMove
  <2>3. CASE pc[r] \in {"gather", "closing"}
    <3>1. CASE \A m \in Modules : task[r][m] = "back"
      BY <2>3, <3>1 DEF OwnMove
    <3>2. CASE task[r]["indexes"] # "back"
      <4>1. step[<<"indexes", r>>] # "idle"
        BY <2>1, <2>3, <3>2 DEF WaitsAreServed, WaitIsServed
      <4> QED BY <2>1, <4>1 DEF OwnMove, WorkerTypes
    <3>3. ASSUME NEW s \in Slots, task[r][s] # "back"
          PROVE  OwnMove(r)
      <4>1. task[r][s] \in {"start", "wait"} /\ (task[r][s] = "wait" => work[s][r] # "none")
        BY <2>1, <2>3, <3>3 DEF WaitsAreServed, WaitIsServed
      <4>2. work[s][r] \in {"none", "queued", "running", "ready", "ended"}
        BY <2>1 DEF WorkerTypes
      <4> QED BY <4>1, <4>2 DEF OwnMove
    <3> QED BY <3>1, <3>2, <3>3 DEF Modules, Slots
  <2> QED BY <2>1, <2>2, <2>3 DEF RequestTypes
<1> QED BY <1>1, InvHolds, PTL

===============================================================================
