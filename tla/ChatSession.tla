----------------------------- MODULE ChatSession ------------------------------
(***************************************************************************)
(* AiService.chat_stream (ai/facade.py): each request has an HTTP thread,  *)
(* which takes the lock of its session and opens the session, and a worker *)
(* thread, which runs the turn, saves the session and returns the lock,    *)
(* also when the client has gone.  Locks live in a registry of bounded     *)
(* size.  Deleting a session takes no lock.                                *)
(***************************************************************************)
EXTENDS AgentTurn

CONSTANTS
    Requests,     \* chat requests
    SessionIds,   \* ids, in the order uuid4 deals them out
    NoId,         \* a request without a session id
    MaxLocks,     \* AI_MAX_SESSION_LOCKS
    MaxSteps,     \* config.max_steps
    Absent, Torn  \* a file that is not there, and one that does not parse

\* What a session may hold.
CallId == Nat \cup (Requests \X Nat \X Nat)
Message == [role : {"user", "assistant", "tool"}, turn : Requests,
            calls : {ids \in SUBSET CallId : IsFiniteSet(ids)}]
Turns == Requests \cup {Lost}
Session == [messages : Seq(Message), archive : Seq(Turns), summary : SUBSET Turns]

ASSUME ChatSessionAssumption ==
    /\ IsFiniteSet(Requests) /\ IsFiniteSet(SessionIds)
    /\ NoId \notin Requests \cup SessionIds
    /\ {Absent, Torn} \cap Session = {}

VARIABLES
    files,     \* files[s]: <session id>.json
    tmp,       \* tmp[s]: <session id>.tmp
    used,      \* ids that were dealt out
    registry,  \* _session_locks: the lock entry of an id, or 0
    holder,    \* holder[e]: the request that holds the lock of entry e, or 0
    refs,      \* refs[e]: the references to entry e
    pc,        \* where the thread at work for each request is
    want,      \* request.session_id
    sid,       \* the session the request runs in
    entry,     \* the lock entry it refers to, or 0
    session,   \* the session in its memory
    step       \* rounds of tool calls so far

diskVars == <<files, tmp, used>>
lockVars == <<registry, holder, refs>>
vars == <<diskVars, lockVars, pc, want, sid, entry, session, step>>

\* As many as can be in the registry or referred to at once.
Entries == 1..(Cardinality(Requests) + Cardinality(SessionIds))

Labels == {"new", "acquire", "open", "lockown", "acquireown", "yielded", "begin",
           "ask", "closing", "save", "write", "replace", "release", "end"}

GoTo(r, label) == pc' = [pc EXCEPT ![r] = label]

Init ==
    /\ \E old \in SessionIds :
          /\ files = [s \in SessionIds |-> IF s = old THEN NewSession ELSE Absent]
          /\ used = {old}
    /\ tmp = [s \in SessionIds |-> Absent]
    /\ registry = [s \in SessionIds |-> 0]
    /\ holder = [e \in Entries |-> NoId]
    /\ refs = [e \in Entries |-> 0]
    /\ pc = [r \in Requests |-> "new"]
    /\ want = [r \in Requests |-> NoId]
    /\ sid = [r \in Requests |-> NoId]
    /\ entry = [r \in Requests |-> 0]
    /\ session = [r \in Requests |-> NewSession]
    /\ step = [r \in Requests |-> 0]

-------------------------------------------------------------------------------
(* The registry of locks, under its guard.                                 *)

\* Mutant of MayEvict: a lock that is not held is idle.
MayEvictUnheld(e) == holder[e] = NoId

\* An entry somebody refers to is not evicted.
MayEvict(e) == refs[e] = 0

\* Entries are evicted until there is room, those of any idle ids.
Evictions ==
    LET inUse == {s \in SessionIds : registry[s] # 0}
        idle == {s \in inUse : MayEvict(registry[s])}
        excess == Cardinality(inUse) - MaxLocks + 1
    IN  IF excess <= 0 THEN {{}}
        ELSE {E \in SUBSET idle : \/ Cardinality(E) = excess
                                  \/ E = idle /\ Cardinality(E) < excess}

FreeEntry == CHOOSE e \in Entries :
                /\ \A s \in SessionIds : registry[s] # e
                /\ \A r \in Requests : entry[r] # e

\* _session_lock: the entry of the id, made if there is none, with one reference
\* more.
TakeRef(r, s) ==
    IF registry[s] # 0
    THEN /\ entry' = [entry EXCEPT ![r] = registry[s]]
         /\ refs' = [refs EXCEPT ![registry[s]] = @ + 1]
         /\ UNCHANGED <<registry, holder>>
    ELSE \E E \in Evictions :
         /\ registry' = [x \in SessionIds |->
                IF x = s THEN FreeEntry ELSE IF x \in E THEN 0 ELSE registry[x]]
         /\ entry' = [entry EXCEPT ![r] = FreeEntry]
         /\ refs' = [refs EXCEPT ![FreeEntry] = 1]
         /\ holder' = [holder EXCEPT ![FreeEntry] = NoId]

\* drop_session_ref
DropRef(r) ==
    /\ refs' = [refs EXCEPT ![entry[r]] = @ - 1]
    /\ entry' = [entry EXCEPT ![r] = 0]

\* release_session_lock by a thread that holds the lock.
ReleaseLock(r) ==
    /\ holder' = [holder EXCEPT ![entry[r]] = NoId]
    /\ DropRef(r)
    /\ UNCHANGED registry

\* Mutant of GiveUp: the lock is released on every path.
GiveUpAndRelease(r) == ReleaseLock(r)

\* release_session_lock by a thread that does not hold it.
GiveUp(r) == DropRef(r) /\ UNCHANGED <<registry, holder>>

-------------------------------------------------------------------------------
(* The HTTP thread.                                                        *)

\* POST /ai/chat/stream, with an id the client was told of, or with none.
Submit(r) ==
    /\ pc[r] = "new"
    /\ \E s \in used \cup {NoId} :
          /\ want' = [want EXCEPT ![r] = s]
          /\ IF s = NoId
             THEN GoTo(r, "open") /\ UNCHANGED <<lockVars, entry>>
             ELSE GoTo(r, "acquire") /\ TakeRef(r, s)
    /\ UNCHANGED <<diskVars, sid, session, step>>

\* The lock is free, and taken before or after the session is opened.
Acquire(r) ==
    /\ pc[r] \in {"acquire", "acquireown"}
    /\ holder[entry[r]] = NoId
    /\ holder' = [holder EXCEPT ![entry[r]] = r]
    /\ GoTo(r, IF pc[r] = "acquire" THEN "open" ELSE "yielded")
    /\ UNCHANGED <<diskVars, registry, refs, want, sid, entry, session, step>>

\* AiSessionBusy after the timeout.
AcquireTimeout(r) ==
    /\ pc[r] = "acquire"
    /\ holder[entry[r]] # NoId
    /\ GiveUp(r)
    /\ GoTo(r, "end")
    /\ UNCHANGED <<diskVars, want, sid, session, step>>

\* The session is read, if it is there and can be parsed.
OpenSession(r) ==
    /\ pc[r] = "open"
    /\ want[r] # NoId /\ files[want[r]] \notin {Absent, Torn}
    /\ session' = [session EXCEPT ![r] = files[want[r]]]
    /\ sid' = [sid EXCEPT ![r] = want[r]]
    /\ GoTo(r, "yielded")
    /\ UNCHANGED <<diskVars, lockVars, want, entry, step>>

\* Otherwise a new one is made and saved, under an id of its own.
CreateSession(r) ==
    /\ pc[r] = "open"
    /\ want[r] # NoId => files[want[r]] \in {Absent, Torn}
    /\ \E s \in SessionIds \ used :
          /\ sid' = [sid EXCEPT ![r] = s]
          /\ files' = [files EXCEPT ![s] = NewSession]
          /\ used' = used \cup {s}
    /\ session' = [session EXCEPT ![r] = NewSession]
    /\ GoTo(r, IF want[r] = NoId THEN "lockown" ELSE "yielded")
    /\ UNCHANGED <<tmp, lockVars, want, entry, step>>

\* Only a request without an id locks the new session.
LockOwn(r) ==
    /\ pc[r] = "lockown"
    /\ TakeRef(r, sid[r])
    /\ GoTo(r, "acquireown")
    /\ UNCHANGED <<diskVars, want, sid, session, step>>

\* The client is gone before the worker starts, or the thread cannot be started:
\* the generator returns the lock.
CloseEarly(r) ==
    /\ pc[r] = "yielded"
    /\ ReleaseLock(r)
    /\ GoTo(r, "end")
    /\ session' = [session EXCEPT ![r] = NewSession]
    /\ UNCHANGED <<diskVars, want, sid, step>>

StartWorker(r) ==
    /\ pc[r] = "yielded"
    /\ GoTo(r, "begin")
    /\ UNCHANGED <<diskVars, lockVars, want, sid, entry, session, step>>

-------------------------------------------------------------------------------
(* The worker thread.                                                      *)

BeginTurn(r) ==
    /\ pc[r] = "begin"
    /\ \E s \in Begin(session[r], r) : session' = [session EXCEPT ![r] = s]
    /\ GoTo(r, "ask")
    /\ UNCHANGED <<diskVars, lockVars, want, sid, entry, step>>

\* The model answers.
Answer(r) ==
    /\ pc[r] = "ask"
    /\ session' = [session EXCEPT ![r] = Say(@, <<Assistant(r, {})>>)]
    /\ GoTo(r, "save")
    /\ UNCHANGED <<diskVars, lockVars, want, sid, entry, step>>

\* The model calls tools, which are run one after the other; one that breaks the
\* registry ends the turn with calls unanswered.
CallTools(r) ==
    /\ pc[r] = "ask"
    /\ \E n \in 1..2 :
       LET calls == CallIds(r, step[r], n)
       IN  \E answered \in AnsweredCalls(r, step[r], n) :
           /\ session' = [session EXCEPT ![r] =
                 Say(@, <<Assistant(r, calls)>> \o Results(r, answered))]
           /\ GoTo(r, IF answered # calls THEN "save"
                      ELSE IF step[r] + 1 < MaxSteps THEN "ask" ELSE "closing")
    /\ step' = [step EXCEPT ![r] = @ + 1]
    /\ UNCHANGED <<diskVars, lockVars, want, sid, entry>>

\* The model service fails: the worker reports the error and saves what it has.
AskFails(r) ==
    /\ pc[r] = "ask"
    /\ GoTo(r, "save")
    /\ UNCHANGED <<diskVars, lockVars, want, sid, entry, session, step>>

\* _forced_final_answer, or the note that there is none.
CloseTurn(r) ==
    /\ pc[r] = "closing"
    /\ session' = [session EXCEPT ![r] = Say(@, <<Assistant(r, {})>>)]
    /\ GoTo(r, "save")
    /\ UNCHANGED <<diskVars, lockVars, want, sid, entry, step>>

\* SessionStore.save opens the temporary file of the session ...
SaveBegin(r) ==
    /\ pc[r] = "save"
    /\ session' = [session EXCEPT ![r] = Persisted(@)]
    /\ tmp' = [tmp EXCEPT ![sid[r]] = Torn]
    /\ GoTo(r, "write")
    /\ UNCHANGED <<files, used, lockVars, want, sid, entry, step>>

\* ... writes it ...
SaveWrite(r) ==
    /\ pc[r] = "write"
    /\ tmp' = [tmp EXCEPT ![sid[r]] = session[r]]
    /\ GoTo(r, "replace")
    /\ UNCHANGED <<files, used, lockVars, want, sid, entry, session, step>>

\* ... and puts it in the place of the session file.
SaveReplace(r) ==
    /\ pc[r] = "replace"
    /\ tmp[sid[r]] # Absent
    /\ files' = [files EXCEPT ![sid[r]] = tmp[sid[r]]]
    /\ tmp' = [tmp EXCEPT ![sid[r]] = Absent]
    /\ GoTo(r, "release")
    /\ UNCHANGED <<used, lockVars, want, sid, entry, session, step>>

\* A step of the save raises; the client still gets its sentinel.
SaveFails(r) ==
    /\ pc[r] \in {"save", "write", "replace"}
    /\ GoTo(r, "release")
    /\ UNCHANGED <<diskVars, lockVars, want, sid, entry, session, step>>

\* After the sentinel the worker returns the lock.
Release(r) ==
    /\ pc[r] = "release"
    /\ ReleaseLock(r)
    /\ GoTo(r, "end")
    /\ session' = [session EXCEPT ![r] = NewSession]
    /\ step' = [step EXCEPT ![r] = 0]
    /\ UNCHANGED <<diskVars, want, sid>>

\* DELETE of a session: the file goes, whoever is at work on it.
DeleteSession(s) ==
    /\ files[s] # Absent
    /\ files' = [files EXCEPT ![s] = Absent]
    /\ UNCHANGED <<tmp, used, lockVars, pc, want, sid, entry, session, step>>

\* The service restarts: threads and locks are gone, files stay.
Restart ==
    /\ \E r \in Requests : pc[r] \notin {"new", "end"}
    /\ pc' = [r \in Requests |-> IF pc[r] = "new" THEN "new" ELSE "end"]
    /\ registry' = [s \in SessionIds |-> 0]
    /\ holder' = [e \in Entries |-> NoId]
    /\ refs' = [e \in Entries |-> 0]
    /\ entry' = [r \in Requests |-> 0]
    /\ session' = [r \in Requests |-> NewSession]
    /\ step' = [r \in Requests |-> 0]
    /\ UNCHANGED <<diskVars, want, sid>>

Next ==
    \/ \E r \in Requests :
          \/ Submit(r) \/ Acquire(r) \/ AcquireTimeout(r) \/ OpenSession(r)
          \/ CreateSession(r) \/ LockOwn(r) \/ CloseEarly(r) \/ StartWorker(r)
          \/ BeginTurn(r) \/ Answer(r) \/ CallTools(r) \/ AskFails(r)
          \/ CloseTurn(r) \/ SaveBegin(r) \/ SaveWrite(r) \/ SaveReplace(r)
          \/ SaveFails(r) \/ Release(r)
    \/ \E s \in SessionIds : DeleteSession(s)
    \/ Restart

Spec == Init /\ [][Next]_vars

-------------------------------------------------------------------------------

\* The labels between the acquisition of the lock and its return.
Inside == {"open", "yielded", "begin", "ask", "closing", "save", "write",
           "replace", "release"}

\* A session that a request has made is not locked while it is read: a request
\* without an id locks it next, and one that asked for a session that was not
\* there never does (facade.py:287-297).
Made(s) ==
    \E r \in Requests :
        sid[r] = s /\ s # want[r] /\ (want[r] = NoId => pc[r] # "end")

\* The session a request is at work on, when it has locked it.
SessionOf(r) == IF want[r] # NoId THEN want[r] ELSE sid[r]

\* Two requests are never at work on one session, although the registry evicts
\* locks and waiting requests give up (facade.py:44-58, 222-250, 285-325).
TurnsAreSerialised ==
    \A r, q \in Requests :
        r # q /\ {pc[r], pc[q]} \subseteq Inside /\ SessionOf(r) = SessionOf(q) =>
            SessionOf(r) = NoId

\* Every lock is held by the request that will return it, and every reference is
\* that of a request on its way: none is left behind by a timeout, an early
\* close, a failed save or a worker that outlives its client
\* (facade.py:266-283, 334-371).
LocksAreReturned ==
    \A e \in Entries :
        /\ refs[e] = Cardinality({r \in Requests : entry[r] = e})
        /\ holder[e] # NoId => entry[holder[e]] = e /\ pc[holder[e]] \in Inside
        /\ refs[e] > 0 => \E s \in SessionIds : registry[s] = e
        /\ \A r \in Requests :
              entry[r] = e /\ pc[r] \in Inside => holder[e] = r

\* The history a worker sends to the model is one the service accepts, although
\* turns break off in the middle of their tool calls, the window moves and the
\* file keeps only the latest messages (agent.py:209-247, 272-316).
RequestIsValid ==
    \A r \in Requests :
        pc[r] \in {"ask", "closing"} => IsValid(session[r].messages)

\* No save takes a turn out of the memory of a session: it stays among the
\* messages, in the archive or in the summary, until the archive says that older
\* entries were dropped or the file is full.  Excepted are the sessions a request
\* has made itself, which nothing guards (agent.py:272-345, sessions.py:63-84, facade.py:287-297).
TurnsAreKeptStep ==
    \A s \in SessionIds :
        ~Made(s) /\ files[s] \notin {Absent, Torn} /\ files'[s] # Absent =>
            /\ files'[s] # Torn
            /\ \/ Known(files[s]) \subseteq Known(files'[s])
               \/ Lost \in Known(files'[s])
               \/ Len(files'[s].messages) = MaxPersisted

TurnsAreKept == [][TurnsAreKeptStep]_vars
===============================================================================
