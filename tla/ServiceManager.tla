---------------------------- MODULE ServiceManager ----------------------------
(***************************************************************************)
(* How the desktop applications share one data service per cache directory *)
(* (src-tauri/src/service_manager.rs).  An application that needs the      *)
(* service calls ensure_running, one call at a time because the manager is *)
(* behind a Mutex; all applications use one cache directory, with one lock *)
(* file, and are of the same build.                                        *)
(* Time is abstract: a wait ends when its condition holds, or times out    *)
(* when it does not; a service that is too slow for a probe is counted.    *)
(***************************************************************************)
EXTENDS Naturals, FiniteSets

CONSTANTS
    Apps,       \* running copies of the application
    Procs,      \* process ids of data services
    Ports,      \* ports of the local host
    None,       \* no process, no port, no lock file
    MaxCalls,   \* bound on the calls of an application
    MaxFaults   \* bound on the faults: an application closed or killed, a service
                \* that dies by itself, a probe a living service does not answer
                \* in time, a lock file that cannot be written

\* The text of a lock file, and the file.
Payload == [port : Ports, pid : Procs \cup {None}]
LockFile == [by : Apps \cup {None}, text : Payload \cup {None}]

ASSUME ServiceManagerAssumption ==
    /\ None \notin Apps \cup Procs \cup Ports
    /\ None \notin Payload \cup LockFile \cup {"retry", "failed"}
    /\ {MaxCalls, MaxFaults} \subseteq Nat

VARIABLES
    packaged,   \* release build: the executable is checked instead of the pid
    lock,       \* the lock file: who opened it, whether it has its text, and which
    proc,       \* per process id: its state and its port
    app,        \* per application: where its call is, and what it holds there
    service,    \* per application: the child it manages
    reply,      \* per application: how its last call ended
    faults,     \* how many faults there were
    disturbed,  \* applications whose call was not alone, or met a dead or slow service
    rushed,     \* a call was made during another one or while a service was starting,
                \* was killed before its end, or met a service too slow to answer
    unlisted    \* services whose lock file could not be written

history == <<faults, disturbed, rushed, unlisted>>
vars == <<packaged, lock, proc, app, service, reply, history>>

\* An application outside of ensure_running, after a number of calls.
Resting(n) == [pc |-> "idle", port |-> None, child |-> None, seen |-> None, calls |-> n]

\* Where a call of ensure_running is: before a service is known to be needed,
\* on the way to a lock file of its own, and with a child.
Probing == {"cached", "port", "read", "probe"}
Locking == {"remove", "create", "fill", "wait", "retake", "recreate", "spawn"}
Starting == {"await", "inspect", "write", "text", "stop"}

CallState == [pc : {"idle"} \cup Probing \cup Locking \cup Starting, calls : Nat,
              port : Ports \cup {None}, child : Procs \cup {None}, seen : Payload \cup {None}]
ProcState == [state : {"unused", "starting", "serving", "dead"},
              port : Ports \cup {None}, parent : Apps \cup {None}]

TypeOK ==
    /\ packaged \in BOOLEAN
    /\ lock \in LockFile \cup {None}
    /\ proc \in [Procs -> ProcState]
    /\ app \in [Apps -> CallState]
    /\ service \in [Apps -> Procs \cup {None}]
    /\ reply \in [Apps -> {None, "running", "retry", "failed"}]
    /\ faults \in Nat /\ rushed \in BOOLEAN
    /\ disturbed \subseteq Apps /\ unlisted \subseteq Procs \cup {None}

Alive == {p \in Procs : proc[p].state \in {"starting", "serving"}}
Bound == {proc[p].port : p \in {q \in Procs : proc[q].state = "serving"}}
InCall == {a \in Apps : app[a].pc # "idle"}

\* A computer with any lock file on it: none, one that never got its text, or
\* one of a service that is gone.
Init ==
    /\ packaged \in BOOLEAN
    /\ lock \in {None} \cup [by : {None}, text : Payload \cup {None}]
    /\ proc = [p \in Procs |-> [state |-> "unused", port |-> None, parent |-> None]]
    /\ app = [a \in Apps |-> Resting(0)]
    /\ service = [a \in Apps |-> None]
    /\ reply = [a \in Apps |-> None]
    /\ faults = 0 /\ disturbed = {} /\ rushed = FALSE /\ unlisted = {}

-------------------------------------------------------------------------------
(* The health check.                                                        *)

\* validate_service_health: the process that answers on the port is the
\* expected one.  A release build compares the executable, and then not the pid.
Answers(port, pid) ==
    \E p \in Procs :
        /\ proc[p].state = "serving" /\ proc[p].port = port
        /\ packaged \/ pid \in {None, p}

Fault ==
    /\ faults < MaxFaults /\ faults' = faults + 1
    /\ disturbed' = disturbed \cup InCall

TooSlow == Fault /\ rushed' = TRUE

\* wait_for_verified_health_with_timeout gives up: nobody answers, or not in time.
TimesOut(port, pid) ==
    IF Answers(port, pid) THEN TooSlow ELSE UNCHANGED <<faults, disturbed, rushed>>

Goto(a, pc) == app' = [app EXCEPT ![a].pc = pc]

\* The call ends; the Mutex of the manager is free again.
Return(a, result) ==
    /\ app' = [app EXCEPT ![a] = Resting(app[a].calls)]
    /\ reply' = [reply EXCEPT ![a] = result]

\* The process is gone; who started it stays known.
Remaining(p) == [proc EXCEPT ![p] = [state |-> "dead", port |-> None, parent |-> proc[p].parent]]

-------------------------------------------------------------------------------
(* ensure_running.                                                          *)

Call(a) ==
    /\ app[a].pc = "idle" /\ app[a].calls < MaxCalls
    /\ app' = [app EXCEPT ![a] = [Resting(app[a].calls + 1) EXCEPT !.pc = "cached"]]
    /\ disturbed' = (disturbed \ {a}) \cup (IF InCall = {} THEN {} ELSE InCall \cup {a})
    /\ rushed' = (rushed \/ InCall # {} \/ \E p \in Procs : proc[p].state = "starting")
    /\ reply' = [reply EXCEPT ![a] = None]
    /\ UNCHANGED <<packaged, lock, proc, service, faults, unlisted>>

\* The child of an earlier call still answers.
KeepChild(a) ==
    LET p == service[a] IN
    /\ app[a].pc = "cached" /\ p # None
    /\ p \in Alive /\ Answers(proc[p].port, p)
    /\ Return(a, "running")
    /\ UNCHANGED <<packaged, lock, proc, service, history>>

\* It does not: it is killed and forgotten.
DropChild(a) ==
    LET p == service[a] IN
    /\ app[a].pc = "cached" /\ p # None
    /\ IF p \in Alive THEN TimesOut(proc[p].port, p) ELSE UNCHANGED <<faults, disturbed, rushed>>
    /\ proc' = Remaining(p)
    /\ service' = [service EXCEPT ![a] = None]
    /\ Goto(a, "port")
    /\ UNCHANGED <<packaged, lock, reply, unlisted>>

\* choose_port: a port that is free now; nothing reserves it.
ChoosePort(a) ==
    /\ \/ app[a].pc = "port"
       \/ app[a].pc = "cached" /\ service[a] = None
    /\ \E port \in Ports \ Bound :
           app' = [app EXCEPT ![a].pc = "read", ![a].port = port]
    /\ UNCHANGED <<packaged, lock, proc, service, reply, history>>

\* read_service_lock; a file without its text is an error like a missing one.
ReadLock(a) ==
    /\ app[a].pc = "read"
    /\ IF lock = None \/ lock.text = None
       THEN Goto(a, "create")
       ELSE app' = [app EXCEPT ![a].pc = "probe", ![a].seen = lock.text]
    /\ UNCHANGED <<packaged, lock, proc, service, reply, history>>

UseLocked(a) ==
    /\ app[a].pc = "probe"
    /\ Answers(app[a].seen.port, app[a].seen.pid)
    /\ Return(a, "running")
    /\ UNCHANGED <<packaged, lock, proc, service, history>>

\* A mutant: the lock read is taken for that of a dead service.
RemoveUnprobed(a) ==
    /\ app[a].pc = "probe"
    /\ Goto(a, "remove")
    /\ UNCHANGED <<packaged, lock, proc, service, reply, history>>

ProbeFails(a) ==
    /\ app[a].pc = "probe"
    /\ TimesOut(app[a].seen.port, app[a].seen.pid)
    /\ Goto(a, "remove")
    /\ UNCHANGED <<packaged, lock, proc, service, reply, unlisted>>

\* remove_service_lock: whatever file is there by now.
RemoveLock(a) ==
    /\ app[a].pc = "remove"
    /\ lock' = None
    /\ Goto(a, "create")
    /\ UNCHANGED <<packaged, proc, service, reply, history>>

\* try_create_service_lock: the file is there before its text is.
CreateLock(a) ==
    /\ app[a].pc = "create"
    /\ IF lock = None
       THEN lock' = [by |-> a, text |-> None] /\ Goto(a, "fill")
       ELSE UNCHANGED lock /\ Goto(a, "wait")
    /\ UNCHANGED <<packaged, proc, service, reply, history>>

\* The text reaches the file that was opened, which may have been removed.
Filled(a, pid) ==
    IF lock # None /\ lock.by = a
    THEN [lock EXCEPT !.text = [port |-> app[a].port, pid |-> pid]]
    ELSE lock

FillLock(a) ==
    /\ app[a].pc = "fill"
    /\ lock' = Filled(a, None)
    /\ Goto(a, "spawn")
    /\ UNCHANGED <<packaged, proc, service, reply, history>>

\* wait_for_locked_service
FindLocked(a) ==
    /\ app[a].pc = "wait"
    /\ lock # None /\ lock.text # None
    /\ Answers(lock.text.port, lock.text.pid)
    /\ Return(a, "running")
    /\ UNCHANGED <<packaged, lock, proc, service, history>>

StopWaiting(a) ==
    /\ app[a].pc = "wait"
    /\ IF lock # None /\ lock.text # None
       THEN TimesOut(lock.text.port, lock.text.pid)
       ELSE UNCHANGED <<faults, disturbed, rushed>>
    /\ Goto(a, "retake")
    /\ UNCHANGED <<packaged, lock, proc, service, reply, unlisted>>

\* A mutant: after the wait the lock is not removed before it is created.
RetakeNothing(a) ==
    /\ app[a].pc = "retake"
    /\ Goto(a, "recreate")
    /\ UNCHANGED <<packaged, lock, proc, service, reply, history>>

\* recreate_service_lock_after_timeout: the lock is removed ...
RetakeLock(a) ==
    /\ app[a].pc = "retake"
    /\ lock' = None
    /\ Goto(a, "recreate")
    /\ UNCHANGED <<packaged, proc, service, reply, history>>

\* ... and must be created by this call: require_recreated_service_lock.
RecreateLock(a) ==
    /\ app[a].pc = "recreate"
    /\ IF lock = None
       THEN lock' = [by |-> a, text |-> None] /\ Goto(a, "fill") /\ UNCHANGED reply
       ELSE UNCHANGED lock /\ Return(a, "retry")
    /\ UNCHANGED <<packaged, proc, service, history>>

Spawn(a) ==
    /\ app[a].pc = "spawn"
    /\ \E p \in Procs :
           /\ proc[p].state = "unused"
           /\ proc' = [proc EXCEPT ![p] = [state |-> "starting", port |-> app[a].port, parent |-> a]]
           /\ app' = [app EXCEPT ![a].pc = "await", ![a].child = p]
    /\ UNCHANGED <<packaged, lock, service, reply, history>>

\* wait_for_verified_health: the port answers as the child should ...
ChildAnswers(a) ==
    /\ app[a].pc = "await"
    /\ Answers(app[a].port, app[a].child)
    /\ Goto(a, "inspect")
    /\ UNCHANGED <<packaged, lock, proc, service, reply, history>>

\* ... or not in time, a child that is merely slow to start included: the lock
\* goes, whoever holds it.
ChildIsLate(a) ==
    /\ app[a].pc = "await"
    /\ IF proc[app[a].child].state = "starting"
       THEN TooSlow
       ELSE TimesOut(app[a].port, app[a].child)
    /\ lock' = None
    /\ Goto(a, "stop")
    /\ UNCHANGED <<packaged, proc, service, reply, unlisted>>

\* A mutant: the start fails without stopping the child.
ReturnWithoutStop(a) ==
    /\ app[a].pc = "stop"
    /\ Return(a, "failed")
    /\ UNCHANGED <<packaged, lock, proc, service, history>>

\* stop_child_after_start_failure
StopChild(a) ==
    /\ app[a].pc = "stop"
    /\ proc' = Remaining(app[a].child)
    /\ Return(a, "failed")
    /\ UNCHANGED <<packaged, lock, service, history>>

\* try_wait after the health check: the child may have exited, and another
\* process may have answered in its place.
InspectChild(a) ==
    /\ app[a].pc = "inspect"
    /\ IF app[a].child \in Alive
       THEN Goto(a, "write") /\ UNCHANGED <<lock, reply>>
       ELSE Return(a, "failed") /\ lock' = None
    /\ UNCHANGED <<packaged, proc, service, history>>

\* write_service_lock truncates the file that is there, or makes one ...
OpenLock(a) ==
    /\ app[a].pc = "write"
    /\ lock' = [by |-> a, text |-> None]
    /\ Goto(a, "text")
    /\ UNCHANGED <<packaged, proc, service, reply, history>>

\* ... and writes the text; the child becomes the service of this manager.
Started(a) ==
    /\ app[a].pc = "text"
    /\ lock' = Filled(a, app[a].child)
    /\ service' = [service EXCEPT ![a] = app[a].child]
    /\ Return(a, "running")
    /\ UNCHANGED <<packaged, proc, history>>

\* The lock file cannot be written: the call fails, its child runs on.
WriteFails(a) ==
    /\ app[a].pc \in {"write", "text"}
    /\ Fault
    /\ unlisted' = unlisted \cup {app[a].child}
    /\ Return(a, "failed")
    /\ UNCHANGED <<packaged, lock, proc, service, rushed>>

-------------------------------------------------------------------------------
(* The processes around the calls.                                          *)

\* The service binds its port, or exits because somebody else has it.
Serve(p) ==
    /\ proc[p].state = "starting"
    /\ IF proc[p].port \in Bound
       THEN proc' = Remaining(p) /\ disturbed' = disturbed \cup InCall
       ELSE proc' = [proc EXCEPT ![p].state = "serving"] /\ UNCHANGED disturbed
    /\ UNCHANGED <<packaged, lock, app, service, reply, faults, rushed, unlisted>>

Die(p) ==
    /\ p \in Alive /\ Fault
    /\ proc' = Remaining(p)
    /\ UNCHANGED <<packaged, lock, app, service, reply, rushed, unlisted>>

\* The application is closed or killed: its child and its lock file stay.
Quit(a) ==
    /\ faults < MaxFaults /\ faults' = faults + 1
    /\ app' = [app EXCEPT ![a] = Resting(app[a].calls)]
    /\ service' = [service EXCEPT ![a] = None]
    /\ reply' = [reply EXCEPT ![a] = None]
    /\ lock' = IF lock # None /\ lock.by = a THEN [lock EXCEPT !.by = None] ELSE lock
    /\ proc' = [p \in Procs |-> IF proc[p].parent = a THEN [proc[p] EXCEPT !.parent = None]
                                                      ELSE proc[p]]
    /\ rushed' = (rushed \/ app[a].pc # "idle")
    /\ UNCHANGED <<packaged, disturbed, unlisted>>

Next ==
    \/ \E a \in Apps :
          \/ Call(a) \/ KeepChild(a) \/ DropChild(a) \/ ChoosePort(a)
          \/ ReadLock(a) \/ UseLocked(a) \/ ProbeFails(a) \/ RemoveLock(a)
          \/ CreateLock(a) \/ FillLock(a) \/ FindLocked(a) \/ StopWaiting(a)
          \/ RetakeLock(a) \/ RecreateLock(a) \/ Spawn(a) \/ ChildAnswers(a)
          \/ ChildIsLate(a) \/ StopChild(a) \/ InspectChild(a) \/ OpenLock(a)
          \/ Started(a) \/ WriteFails(a) \/ Quit(a)
    \/ \E p \in Procs : Serve(p) \/ Die(p)

Spec == Init /\ [][Next]_vars

-------------------------------------------------------------------------------
(* Properties.                                                              *)

\* Two services write one warehouse only if two starts overlapped, a start was
\* killed halfway, a probe met a service too slow to answer it, or a lock file
\* could not be written: applications that start one after the other share one,
\* whatever lock file they find, whichever of them is closed, and whichever
\* service died (ensure_running).
CalmStartsShare == ~rushed /\ unlisted = {} => Cardinality(Alive) <= 1

\* A call that is alone, and meets no dead or slow service, ends with a running
\* service: neither a stale lock, nor one without text, nor one removed during
\* the call makes it fail or asks the user to retry (ensure_running).
AloneIsServed ==
    \A a \in Apps : reply[a] \in {"retry", "failed"} => a \in disturbed

\* Between its calls an application has no child alive but the one it manages,
\* save one whose lock file could not be written: a start that fails at any
\* step, and a child replaced, leave nobody behind (ensure_running).
NoChildIsLeft ==
    \A p \in Alive \ unlisted :
        LET a == proc[p].parent IN a # None /\ app[a].pc = "idle" => service[a] = p

=============================================================================
