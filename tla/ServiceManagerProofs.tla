------------------------- MODULE ServiceManagerProofs -------------------------
(***************************************************************************)
(* Proofs about ensure_running for any number of applications, services,   *)
(* ports, calls and faults.                                                *)
(***************************************************************************)
EXTENDS ServiceManager, FiniteSetTheorems, TLAPS

\* What a call has in its hands: a port once it chose one, what it read, its child.
CallsHold ==
    \A a \in Apps :
        /\ app[a].pc \in {"read", "probe"} \cup Locking \cup Starting => app[a].port \in Ports
        /\ app[a].pc = "probe" => app[a].seen \in Payload
        /\ app[a].pc \in Starting => app[a].child \in Procs

TypeInv == TypeOK /\ CallsHold

\* A living service belongs to the call that started it or, between its calls,
\* to the manager of its application; a call past its cached child manages none.
ChildrenAreKnown ==
    /\ \A p \in Alive \ unlisted :
          LET a == proc[p].parent IN
          a # None => \/ app[a].pc \in Starting /\ app[a].child = p
                      \/ app[a].pc \in {"idle", "cached"} /\ service[a] = p
    /\ \A a \in Apps : app[a].pc \notin {"idle", "cached"} => service[a] = None

\* A call that was never disturbed is the only one, and finds what it left: no
\* lock file once it removed it, its child alive once it answered.
CallersAreAlone ==
    \A a \in Apps :
        app[a].pc # "idle" /\ a \notin disturbed =>
            /\ InCall = {a}
            /\ app[a].pc = "recreate" => lock = None
            /\ app[a].pc \in Starting =>
                  /\ app[a].pc # "stop"
                  /\ app[a].child \in Alive
                  /\ proc[app[a].child].port = app[a].port

\* The lock file names the living service p, which answers for it.
Listed(p) ==
    /\ proc[p].state = "serving"
    /\ lock # None /\ lock.text # None /\ lock.text.port = proc[p].port
    /\ packaged \/ lock.text.pid \in {None, p}

\* What is known while every start was calm.  There is one call at a time ...
Calm == ~rushed /\ unlisted = {}
OneCaller == \A a, b \in InCall : a = b

\* ... past the probe no service lives but the one it starts ...
CallerKnows(a) ==
    /\ app[a].pc \in Locking \cup {"stop"} => Alive = {}
    /\ app[a].pc \in Starting => \A p \in Alive : p = app[a].child /\ proc[p].port = app[a].port
    /\ app[a].pc \in {"inspect", "write", "text"} => \A p \in Alive : proc[p].state = "serving"
    /\ app[a].pc = "probe" => lock # None /\ app[a].seen = lock.text
    /\ app[a].pc = "text" => lock # None /\ lock.by = a

\* ... and outside of that part the one that lives is in the lock file.
ServiceListed ==
    (\A a \in Apps : app[a].pc \in {"idle"} \cup Probing) =>
        \A p \in Alive : Listed(p) /\ Alive = {p}

CalmCallers == Calm => OneCaller /\ (\A a \in InCall : CallerKnows(a)) /\ ServiceListed

NoChildInv == TypeInv /\ ChildrenAreKnown
CalmInv == TypeInv /\ CalmCallers
AloneInv == NoChildInv /\ CallersAreAlone /\ AloneIsServed

USE ServiceManagerAssumption

-------------------------------------------------------------------------------
(* Types.                                                                   *)

Labels == {"idle"} \cup Probing \cup Locking \cup Starting

LEMMA GotoType ==
    ASSUME TypeOK, NEW a \in Apps, NEW pc \in Labels, Goto(a, pc)
    PROVE  /\ app' \in [Apps -> CallState]
           /\ app'[a] = [app[a] EXCEPT !.pc = pc] /\ app'[a].pc = pc
           /\ app'[a].port = app[a].port /\ app'[a].child = app[a].child
           /\ app'[a].seen = app[a].seen
           /\ \A b \in Apps : b # a => app'[b] = app[b]
  BY DEF TypeOK, Goto, CallState, Labels

LEMMA RestingType == ASSUME NEW n \in Nat PROVE Resting(n) \in CallState /\ Resting(n).pc = "idle"
  BY DEF Resting, CallState

LEMMA ReturnType ==
    ASSUME TypeOK, NEW a \in Apps, NEW r \in {"running", "retry", "failed"}, Return(a, r)
    PROVE  /\ app' \in [Apps -> CallState] /\ app'[a].pc = "idle"
           /\ reply' \in [Apps -> {None, "running", "retry", "failed"}] /\ reply'[a] = r
           /\ \A b \in Apps : b # a => app'[b] = app[b] /\ reply'[b] = reply[b]
<1>1. app[a].calls \in Nat
  BY DEF TypeOK, CallState
<1>2. Resting(app[a].calls) \in CallState /\ Resting(app[a].calls).pc = "idle"
  BY <1>1, RestingType
<1> QED BY <1>2 DEF TypeOK, Return

LEMMA FaultType ==
    ASSUME TypeOK, Fault
    PROVE  faults' \in Nat /\ disturbed' \subseteq Apps /\ disturbed' = disturbed \cup InCall
  BY DEF TypeOK, Fault, InCall

\* A wait that is not answered in time is a fault if somebody would have answered.
LEMMA TimesOutType ==
    ASSUME TypeOK, NEW port, NEW pid, TimesOut(port, pid)
    PROVE  /\ faults' \in Nat /\ disturbed' \subseteq Apps /\ rushed' \in BOOLEAN
           /\ \/ ~Answers(port, pid) /\ disturbed' = disturbed /\ rushed' = rushed
              \/ disturbed' = disturbed \cup InCall /\ rushed' = TRUE
  BY FaultType DEF TimesOut, TooSlow, TypeOK

LEMMA RemainingType ==
    ASSUME TypeOK, NEW p \in Procs
    PROVE  /\ Remaining(p) \in [Procs -> ProcState]
           /\ Remaining(p)[p].state = "dead"
           /\ \A q \in Procs : q # p => Remaining(p)[q] = proc[q]
  BY DEF TypeOK, Remaining, ProcState

LEMMA FilledType ==
    ASSUME TypeOK, NEW a \in Apps, NEW pid \in Procs \cup {None}, app[a].port \in Ports
    PROVE  /\ Filled(a, pid) \in LockFile \cup {None}
           /\ lock = None <=> Filled(a, pid) = None
  BY DEF TypeOK, Filled, LockFile, Payload

LEMMA InitType == Init => TypeInv
<1> SUFFICES ASSUME Init PROVE TypeOK /\ CallsHold
  BY DEF TypeInv
<1>1. app \in [Apps -> CallState] /\ \A a \in Apps : app[a].pc = "idle"
  BY RestingType DEF Init
<1>2. lock \in LockFile \cup {None}
  BY DEF Init, LockFile
<1>3. proc \in [Procs -> ProcState]
  BY DEF Init, ProcState
<1>4. CallsHold
  BY <1>1 DEF CallsHold, Probing, Locking, Starting
<1> QED BY <1>1, <1>2, <1>3, <1>4 DEF Init, TypeOK

LEMMA StepType == TypeInv /\ [Next]_vars => TypeOK'
<1> SUFFICES ASSUME TypeOK, CallsHold, [Next]_vars PROVE TypeOK'
  BY DEF TypeInv
<1> USE DEF Labels, Probing, Locking, Starting, history
<1>1. ASSUME NEW a \in Apps, Call(a) PROVE TypeOK'
  <2>1. app[a].calls + 1 \in Nat
    BY DEF TypeOK, CallState
  <2>2. Resting(app[a].calls + 1) \in CallState
    BY <2>1, RestingType
  <2>3. app' \in [Apps -> CallState]
    BY <1>1, <2>2 DEF TypeOK, CallState, Call
  <2>4. disturbed' \subseteq Apps
    BY <1>1 DEF TypeOK, InCall, Call
  <2>5. reply' \in [Apps -> {None, "running", "retry", "failed"}]
    BY <1>1 DEF TypeOK, Call
  <2>6. rushed' \in BOOLEAN
    BY <1>1 DEF TypeOK, Call
  <2> QED BY <1>1, <2>3, <2>4, <2>5, <2>6 DEF TypeOK, Call
<1>2. ASSUME NEW a \in Apps, KeepChild(a) PROVE TypeOK'
  BY <1>2, GotoType, ReturnType DEF TypeOK, KeepChild
<1>3. ASSUME NEW a \in Apps, DropChild(a) PROVE TypeOK'
  <2>1. service[a] \in Procs
    BY <1>3 DEF TypeOK, DropChild
  <2>2. proc' \in [Procs -> ProcState]
    BY <1>3, <2>1, RemainingType DEF DropChild
  <2>3. app' \in [Apps -> CallState] /\ service' \in [Apps -> Procs \cup {None}]
    BY <1>3, GotoType DEF DropChild, TypeOK
  <2>4. faults' \in Nat /\ disturbed' \subseteq Apps /\ rushed' \in BOOLEAN
    BY <1>3, TimesOutType DEF DropChild, TypeOK
  <2> QED BY <1>3, <2>2, <2>3, <2>4 DEF TypeOK, DropChild
<1>4. ASSUME NEW a \in Apps, ChoosePort(a) PROVE TypeOK'
  <2>1. app' \in [Apps -> CallState]
      <3>1. PICK port \in Ports : app' = [app EXCEPT ![a].pc = "read", ![a].port = port]
      BY <1>4 DEF ChoosePort
    <3>2. app[a] \in CallState
      BY DEF TypeOK
    <3>3. [app[a] EXCEPT !.pc = "read", !.port = port] \in CallState
      BY <3>2 DEF CallState
    <3>4. app' = [app EXCEPT ![a] = [app[a] EXCEPT !.pc = "read", !.port = port]]
      BY <3>1 DEF TypeOK
    <3> QED BY <3>3, <3>4 DEF TypeOK
  <2> QED BY <1>4, <2>1 DEF TypeOK, ChoosePort
<1>5. ASSUME NEW a \in Apps, ReadLock(a) PROVE TypeOK'
  <2>1. CASE lock = None \/ lock.text = None
    BY <1>5, <2>1, GotoType DEF TypeOK, ReadLock
  <2>2. CASE lock # None /\ lock.text # None
    <3>1. lock.text \in Payload
      BY <2>2 DEF TypeOK, LockFile
    <3>2. app' \in [Apps -> CallState]
      BY <1>5, <2>2, <3>1 DEF TypeOK, CallState, ReadLock
    <3> QED BY <1>5, <3>2 DEF TypeOK, ReadLock
  <2> QED BY <2>1, <2>2
<1>6. ASSUME NEW a \in Apps, UseLocked(a) PROVE TypeOK'
  BY <1>6, GotoType, ReturnType DEF TypeOK, UseLocked
<1>7. ASSUME NEW a \in Apps, ProbeFails(a) PROVE TypeOK'
  BY <1>7, GotoType, TimesOutType DEF TypeOK, ProbeFails
<1>8. ASSUME NEW a \in Apps, RemoveLock(a) PROVE TypeOK'
  BY <1>8, GotoType, ReturnType DEF TypeOK, RemoveLock
<1>9. ASSUME NEW a \in Apps, CreateLock(a) PROVE TypeOK'
  <2>1. app' \in [Apps -> CallState]
    BY <1>9, GotoType DEF CreateLock
  <2>2. lock' \in LockFile \cup {None}
    BY <1>9 DEF TypeOK, LockFile, CreateLock
  <2> QED BY <1>9, <2>1, <2>2 DEF TypeOK, CreateLock
<1>10. ASSUME NEW a \in Apps, FillLock(a) PROVE TypeOK'
  BY <1>10, GotoType, FilledType DEF TypeOK, CallsHold, FillLock
<1>11. ASSUME NEW a \in Apps, FindLocked(a) PROVE TypeOK'
  BY <1>11, GotoType, ReturnType DEF TypeOK, FindLocked
<1>12. ASSUME NEW a \in Apps, StopWaiting(a) PROVE TypeOK'
  BY <1>12, GotoType, TimesOutType DEF TypeOK, StopWaiting
<1>13. ASSUME NEW a \in Apps, RetakeLock(a) PROVE TypeOK'
  BY <1>13, GotoType, ReturnType DEF TypeOK, RetakeLock
<1>14. ASSUME NEW a \in Apps, RecreateLock(a) PROVE TypeOK'
  <2>1. app' \in [Apps -> CallState] /\ reply' \in [Apps -> {None, "running", "retry", "failed"}]
    BY <1>14, GotoType, ReturnType DEF TypeOK, RecreateLock
  <2>2. lock' \in LockFile \cup {None}
    BY <1>14 DEF TypeOK, LockFile, RecreateLock
  <2> QED BY <1>14, <2>1, <2>2 DEF TypeOK, RecreateLock
<1>15. ASSUME NEW a \in Apps, Spawn(a) PROVE TypeOK'
  <2>1. PICK p \in Procs :
          /\ proc' = [proc EXCEPT ![p] = [state |-> "starting", port |-> app[a].port, parent |-> a]]
          /\ app' = [app EXCEPT ![a].pc = "await", ![a].child = p]
    BY <1>15 DEF Spawn
  <2>2. app' \in [Apps -> CallState]
      <3>1. app[a] \in CallState
      BY DEF TypeOK
    <3>2. [app[a] EXCEPT !.pc = "await", !.child = p] \in CallState
      BY <3>1 DEF CallState
    <3>3. app' = [app EXCEPT ![a] = [app[a] EXCEPT !.pc = "await", !.child = p]]
      BY <2>1 DEF TypeOK
    <3> QED BY <3>2, <3>3 DEF TypeOK
  <2>3. app[a].port \in Ports \cup {None}
    BY DEF TypeOK, CallState
  <2>4. proc' \in [Procs -> ProcState]
    BY <2>1, <2>3 DEF TypeOK, ProcState
  <2> QED BY <1>15, <2>2, <2>4 DEF TypeOK, Spawn
<1>16. ASSUME NEW a \in Apps, ChildAnswers(a) PROVE TypeOK'
  BY <1>16, GotoType, ReturnType DEF TypeOK, ChildAnswers
<1>17. ASSUME NEW a \in Apps, ChildIsLate(a) PROVE TypeOK'
  BY <1>17, GotoType, TimesOutType, FaultType DEF TypeOK, TooSlow, ChildIsLate
<1>18. ASSUME NEW a \in Apps, StopChild(a) PROVE TypeOK'
  BY <1>18, ReturnType, RemainingType DEF TypeOK, CallsHold, StopChild
<1>19. ASSUME NEW a \in Apps, InspectChild(a) PROVE TypeOK'
  BY <1>19, GotoType, ReturnType DEF TypeOK, InspectChild
<1>20. ASSUME NEW a \in Apps, OpenLock(a) PROVE TypeOK'
  BY <1>20, GotoType, ReturnType DEF TypeOK, LockFile, OpenLock
<1>21. ASSUME NEW a \in Apps, Started(a) PROVE TypeOK'
  BY <1>21, ReturnType, FilledType DEF TypeOK, CallsHold, Started
<1>22. ASSUME NEW a \in Apps, WriteFails(a) PROVE TypeOK'
  BY <1>22, ReturnType, FaultType DEF TypeOK, CallsHold, WriteFails
<1>23. ASSUME NEW a \in Apps, Quit(a) PROVE TypeOK'
  <2>1. Resting(app[a].calls) \in CallState
    BY RestingType DEF TypeOK, CallState
  <2>2. app' \in [Apps -> CallState]
    BY <1>23, <2>1 DEF TypeOK, Quit
  <2>3. lock' \in LockFile \cup {None}
    BY <1>23 DEF TypeOK, LockFile, Quit
  <2>4. proc' \in [Procs -> ProcState]
    BY <1>23 DEF TypeOK, ProcState, Quit
  <2> QED BY <1>23, <2>2, <2>3, <2>4 DEF TypeOK, Quit
<1>24. ASSUME NEW p \in Procs, Serve(p) PROVE TypeOK'
  <2>1. proc' \in [Procs -> ProcState]
      <3>1. proc[p] \in ProcState
      BY DEF TypeOK
    <3>2. [proc[p] EXCEPT !.state = "serving"] \in ProcState
      BY <3>1 DEF ProcState
    <3>3. proc' = Remaining(p) \/ proc' = [proc EXCEPT ![p] = [proc[p] EXCEPT !.state = "serving"]]
      BY <1>24 DEF TypeOK, Serve
    <3> QED BY <3>2, <3>3, RemainingType DEF TypeOK
  <2>2. disturbed' \subseteq Apps
    BY <1>24 DEF TypeOK, InCall, Serve
  <2> QED BY <1>24, <2>1, <2>2 DEF TypeOK, Serve
<1>25. ASSUME NEW p \in Procs, Die(p) PROVE TypeOK'
  BY <1>25, RemainingType, FaultType DEF TypeOK, Alive, Die
<1>26. ASSUME UNCHANGED vars PROVE TypeOK'
  BY <1>26 DEF TypeOK, vars, history
<1> QED BY <1>1, <1>2, <1>3, <1>4, <1>5, <1>6, <1>7, <1>8, <1>9, <1>10, <1>11, <1>12, <1>13, <1>14, <1>15, <1>16, <1>17, <1>18, <1>19, <1>20, <1>21, <1>22, <1>23, <1>24, <1>25, <1>26 DEF Next

-------------------------------------------------------------------------------
(* What the steps that fill in more than the place of a call do to it.      *)

LEMMA CallMoves ==
    ASSUME TypeOK, NEW a \in Apps, Call(a)
    PROVE  /\ app'[a].pc = "cached"
           /\ \A b \in Apps : b # a => app'[b] = app[b]
<1>1. Resting(app[a].calls + 1) = [pc |-> "idle", port |-> None, child |-> None, seen |-> None,
                                   calls |-> app[a].calls + 1]
  BY DEF Resting
<1>2. app' = [app EXCEPT ![a] = [Resting(app[a].calls + 1) EXCEPT !.pc = "cached"]]
  BY DEF Call
<1>3. app'[a] = [Resting(app[a].calls + 1) EXCEPT !.pc = "cached"]
  BY <1>2 DEF TypeOK
<1> QED BY <1>1, <1>2, <1>3 DEF TypeOK

LEMMA ChoosePortMoves ==
    ASSUME TypeOK, NEW a \in Apps, ChoosePort(a)
    PROVE  /\ app'[a].pc = "read" /\ app'[a].port \in Ports
           /\ \A b \in Apps : b # a => app'[b] = app[b]
<1>1. PICK port \in Ports : app' = [app EXCEPT ![a].pc = "read", ![a].port = port]
  BY DEF ChoosePort
<1>2. app[a] \in CallState
  BY DEF TypeOK
<1>3. app' = [app EXCEPT ![a] = [app[a] EXCEPT !.pc = "read", !.port = port]]
  BY <1>1 DEF TypeOK
<1> QED BY <1>2, <1>3 DEF TypeOK, CallState

LEMMA ReadLockMoves ==
    ASSUME TypeOK, NEW a \in Apps, ReadLock(a)
    PROVE  /\ app[a].pc = "read" /\ app'[a].port = app[a].port
           /\ \/ (lock = None \/ lock.text = None) /\ app'[a].pc = "create"
              \/ /\ lock # None /\ lock.text # None /\ lock.text \in Payload
                 /\ app'[a].pc = "probe" /\ app'[a].seen = lock.text
           /\ \A b \in Apps : b # a => app'[b] = app[b]
<1>1. app[a] \in CallState
  BY DEF TypeOK
<1>2. CASE lock = None \/ lock.text = None
  BY <1>2, GotoType DEF ReadLock, Labels, Locking
<1>3. CASE lock # None /\ lock.text # None
  <2>1. lock.text \in Payload
    BY <1>3 DEF TypeOK, LockFile
  <2>2. app' = [app EXCEPT ![a].pc = "probe", ![a].seen = lock.text]
    BY <1>3 DEF ReadLock
  <2>3. app' = [app EXCEPT ![a] = [app[a] EXCEPT !.pc = "probe", !.seen = lock.text]]
    BY <2>2 DEF TypeOK
  <2> QED BY <1>1, <1>3, <2>1, <2>3 DEF TypeOK, CallState, ReadLock
<1> QED BY <1>2, <1>3

LEMMA SpawnMoves ==
    ASSUME TypeOK, NEW a \in Apps, Spawn(a)
    PROVE  \E p \in Procs :
              /\ proc[p].state = "unused"
              /\ proc'[p] = [state |-> "starting", port |-> app[a].port, parent |-> a]
              /\ \A q \in Procs : q # p => proc'[q] = proc[q]
              /\ app[a].pc = "spawn"
              /\ app'[a].pc = "await" /\ app'[a].child = p /\ app'[a].port = app[a].port
              /\ \A b \in Apps : b # a => app'[b] = app[b]
<1>1. PICK p \in Procs :
          /\ proc[p].state = "unused"
          /\ proc' = [proc EXCEPT ![p] = [state |-> "starting", port |-> app[a].port, parent |-> a]]
          /\ app' = [app EXCEPT ![a].pc = "await", ![a].child = p]
  BY DEF Spawn
<1>2. app[a] \in CallState
  BY DEF TypeOK
<1>3. app' = [app EXCEPT ![a] = [app[a] EXCEPT !.pc = "await", !.child = p]]
  BY <1>1 DEF TypeOK
<1>4. app[a].pc = "spawn"
  BY DEF Spawn
<1> WITNESS p \in Procs
<1> QED BY <1>1, <1>2, <1>3, <1>4 DEF TypeOK, CallState

LEMMA QuitMoves ==
    ASSUME TypeOK, NEW a \in Apps, Quit(a)
    PROVE  /\ app'[a].pc = "idle" /\ service'[a] = None /\ reply'[a] = None
           /\ \A b \in Apps : b # a => app'[b] = app[b] /\ service'[b] = service[b] /\ reply'[b] = reply[b]
           /\ \A p \in Procs : /\ proc'[p].state = proc[p].state /\ proc'[p].port = proc[p].port
                               /\ proc'[p].parent = IF proc[p].parent = a THEN None ELSE proc[p].parent
<1>1. Resting(app[a].calls).pc = "idle"
  BY DEF Resting
<1>2. app' = [app EXCEPT ![a] = Resting(app[a].calls)]
  BY DEF Quit
<1>3. app'[a].pc = "idle" /\ \A b \in Apps : b # a => app'[b] = app[b]
  BY <1>1, <1>2 DEF TypeOK
<1>4. \A p \in Procs : proc'[p] = IF proc[p].parent = a THEN [proc[p] EXCEPT !.parent = None] ELSE proc[p]
  BY DEF Quit
<1>5. \A p \in Procs : proc[p] \in ProcState
  BY DEF TypeOK
<1>6. \A p \in Procs : /\ proc'[p].state = proc[p].state /\ proc'[p].port = proc[p].port
                       /\ proc'[p].parent = IF proc[p].parent = a THEN None ELSE proc[p].parent
  BY <1>4, <1>5 DEF ProcState
<1> QED BY <1>3, <1>6 DEF TypeOK, Quit

\* The service that binds its port keeps it; the one that finds it taken is gone.
LEMMA ServeMoves ==
    ASSUME TypeOK, NEW p \in Procs, Serve(p)
    PROVE  /\ proc[p].state = "starting"
           /\ \/ proc'[p].state = "dead" /\ disturbed' = disturbed \cup InCall
              \/ /\ proc'[p].state = "serving" /\ proc'[p].port = proc[p].port
                 /\ proc'[p].parent = proc[p].parent /\ disturbed' = disturbed
           /\ \A q \in Procs : q # p => proc'[q] = proc[q]
<1>1. CASE proc[p].port \in Bound
  BY <1>1, RemainingType DEF Serve
<1>2. CASE proc[p].port \notin Bound
  <2>1. proc' = [proc EXCEPT ![p].state = "serving"] /\ disturbed' = disturbed /\ proc[p].state = "starting"
    BY <1>2 DEF Serve
  <2> QED BY <2>1 DEF TypeOK, ProcState
<1> QED BY <1>1, <1>2

-------------------------------------------------------------------------------
(* What a call has in its hands.                                            *)

LEMMA GotoHold ==
    ASSUME TypeOK, CallsHold, NEW a \in Apps, NEW pc \in Labels \ {"probe"}, Goto(a, pc),
           pc \in Locking \cup Starting \cup {"read"} => app[a].port \in Ports,
           pc \in Starting => app[a].child \in Procs
    PROVE  CallsHold'
<1>1. app'[a].pc = pc /\ app'[a].port = app[a].port /\ app'[a].child = app[a].child
  BY GotoType
<1>2. \A b \in Apps : b # a => app'[b] = app[b]
  BY GotoType
<1> QED BY <1>1, <1>2 DEF CallsHold

\* The end of a call, one call or another.
LEMMA ReturnHold ==
    ASSUME TypeOK, CallsHold, NEW a \in Apps, NEW r \in {"running", "retry", "failed"}, Return(a, r)
    PROVE  CallsHold'
<1>1. app'[a].pc = "idle" /\ \A b \in Apps : b # a => app'[b] = app[b]
  BY ReturnType
<1> QED BY <1>1 DEF CallsHold, Probing, Locking, Starting

LEMMA StepHold == TypeInv /\ [Next]_vars => CallsHold'
<1> SUFFICES ASSUME TypeOK, CallsHold, [Next]_vars PROVE CallsHold'
  BY DEF TypeInv
<1> USE DEF CallsHold, Labels, Probing, Locking, Starting
<1>1. ASSUME NEW a \in Apps, Call(a) PROVE CallsHold'
  BY <1>1, CallMoves
<1>2. ASSUME NEW a \in Apps, KeepChild(a) PROVE CallsHold'
  BY <1>2, ReturnHold DEF KeepChild
<1>3. ASSUME NEW a \in Apps, DropChild(a) PROVE CallsHold'
  BY <1>3, GotoHold DEF DropChild
<1>4. ASSUME NEW a \in Apps, ChoosePort(a) PROVE CallsHold'
  BY <1>4, ChoosePortMoves
<1>5. ASSUME NEW a \in Apps, ReadLock(a) PROVE CallsHold'
  BY <1>5, ReadLockMoves
<1>6. ASSUME NEW a \in Apps, UseLocked(a) PROVE CallsHold'
  BY <1>6, ReturnHold DEF UseLocked
<1>7. ASSUME NEW a \in Apps, ProbeFails(a) PROVE CallsHold'
  BY <1>7, GotoHold DEF ProbeFails
<1>8. ASSUME NEW a \in Apps, RemoveLock(a) PROVE CallsHold'
  BY <1>8, GotoHold DEF RemoveLock
<1>9. ASSUME NEW a \in Apps, CreateLock(a) PROVE CallsHold'
  BY <1>9, GotoHold, ReturnHold DEF CreateLock
<1>10. ASSUME NEW a \in Apps, FillLock(a) PROVE CallsHold'
  BY <1>10, GotoHold DEF FillLock
<1>11. ASSUME NEW a \in Apps, FindLocked(a) PROVE CallsHold'
  BY <1>11, ReturnHold DEF FindLocked
<1>12. ASSUME NEW a \in Apps, StopWaiting(a) PROVE CallsHold'
  BY <1>12, GotoHold DEF StopWaiting
<1>13. ASSUME NEW a \in Apps, RetakeLock(a) PROVE CallsHold'
  BY <1>13, GotoHold DEF RetakeLock
<1>14. ASSUME NEW a \in Apps, RecreateLock(a) PROVE CallsHold'
  BY <1>14, GotoHold, ReturnHold DEF RecreateLock
<1>15. ASSUME NEW a \in Apps, Spawn(a) PROVE CallsHold'
  <2>1. PICK p \in Procs :
          /\ app'[a].child = p /\ app'[a].pc = "await" /\ app'[a].port = app[a].port
          /\ app[a].pc = "spawn" /\ \A b \in Apps : b # a => app'[b] = app[b]
    BY <1>15, SpawnMoves
  <2> QED BY <2>1
<1>16. ASSUME NEW a \in Apps, ChildAnswers(a) PROVE CallsHold'
  BY <1>16, GotoHold DEF ChildAnswers
<1>17. ASSUME NEW a \in Apps, ChildIsLate(a) PROVE CallsHold'
  BY <1>17, GotoHold DEF ChildIsLate
<1>18. ASSUME NEW a \in Apps, StopChild(a) PROVE CallsHold'
  BY <1>18, ReturnHold DEF StopChild
<1>19. ASSUME NEW a \in Apps, InspectChild(a) PROVE CallsHold'
  BY <1>19, GotoHold, ReturnHold DEF InspectChild
<1>20. ASSUME NEW a \in Apps, OpenLock(a) PROVE CallsHold'
  BY <1>20, GotoHold DEF OpenLock
<1>21. ASSUME NEW a \in Apps, Started(a) PROVE CallsHold'
  BY <1>21, ReturnHold DEF Started
<1>22. ASSUME NEW a \in Apps, WriteFails(a) PROVE CallsHold'
  BY <1>22, ReturnHold DEF WriteFails
<1>23. ASSUME NEW a \in Apps, Quit(a) PROVE CallsHold'
  BY <1>23, QuitMoves
<1>24. ASSUME NEW p \in Procs, Serve(p) PROVE CallsHold'
  BY <1>24 DEF Serve
<1>25. ASSUME NEW p \in Procs, Die(p) PROVE CallsHold'
  BY <1>25 DEF Die
<1>26. ASSUME UNCHANGED vars PROVE CallsHold'
  BY <1>26 DEF vars, history
<1> QED BY <1>1, <1>2, <1>3, <1>4, <1>5, <1>6, <1>7, <1>8, <1>9, <1>10, <1>11, <1>12, <1>13, <1>14, <1>15, <1>16, <1>17, <1>18, <1>19, <1>20, <1>21, <1>22, <1>23, <1>24, <1>25, <1>26 DEF Next

LEMMA StepTypeInv == TypeInv /\ [Next]_vars => TypeInv'
  BY StepType, StepHold DEF TypeInv

\* The lock file, the processes and every call keep their types, and a call has
\* what its place in ensure_running says (service_manager.rs:498-650).
THEOREM TypeCorrect == Spec => []TypeInv
  BY InitType, StepTypeInv, PTL DEF Spec

-------------------------------------------------------------------------------
(* No child is left.                                                        *)

LEMMA GotoMoves ==
    ASSUME TypeOK, NEW a \in Apps, NEW pc \in Labels, Goto(a, pc)
    PROVE  /\ app'[a].pc = pc /\ app'[a].port = app[a].port
           /\ app'[a].child = app[a].child /\ app'[a].seen = app[a].seen
           /\ \A b \in Apps : b # a => app'[b] = app[b]
  BY GotoType

LEMMA ReturnMoves ==
    ASSUME TypeOK, NEW a \in Apps, NEW r \in {"running", "retry", "failed"}, Return(a, r)
    PROVE  /\ app'[a].pc = "idle" /\ reply'[a] = r
           /\ \A b \in Apps : b # a => app'[b] = app[b] /\ reply'[b] = reply[b]
  BY ReturnType

\* A step leaves every child to its call or to the manager of its application.
LEMMA StepChildren == NoChildInv /\ [Next]_vars => ChildrenAreKnown'
<1> SUFFICES ASSUME TypeOK, CallsHold, ChildrenAreKnown, [Next]_vars PROVE ChildrenAreKnown'
  BY DEF NoChildInv, TypeInv
<1> USE DEF Labels, Probing, Locking, Starting, history
<1>0. /\ \A p \in Procs : proc[p] \in ProcState /\ proc[p].parent \in Apps \cup {None}
      /\ \A a \in Apps : service[a] \in Procs \cup {None}
  BY DEF TypeOK, ProcState
<1>1. ASSUME NEW a \in Apps, Call(a) PROVE ChildrenAreKnown'
  BY <1>0, <1>1, CallMoves DEF ChildrenAreKnown, Alive, Call
<1>2. ASSUME NEW a \in Apps, KeepChild(a) PROVE ChildrenAreKnown'
  BY <1>0, <1>2, ReturnMoves DEF ChildrenAreKnown, Alive, KeepChild
<1>3. ASSUME NEW a \in Apps, DropChild(a) PROVE ChildrenAreKnown'
  BY <1>0, <1>3, GotoMoves, RemainingType, SMTT(30) DEF ChildrenAreKnown, Alive, TypeOK, DropChild
<1>4. ASSUME NEW a \in Apps, ChoosePort(a) PROVE ChildrenAreKnown'
  <2>1. app[a].pc = "port" \/ (app[a].pc = "cached" /\ service[a] = None)
    BY <1>4 DEF ChoosePort
  <2>2. proc' = proc /\ service' = service /\ unlisted' = unlisted
    BY <1>4 DEF ChoosePort
  <2> QED BY <1>0, <1>4, <2>1, <2>2, ChoosePortMoves DEF ChildrenAreKnown, Alive
<1>5. ASSUME NEW a \in Apps, ReadLock(a) PROVE ChildrenAreKnown'
  BY <1>0, <1>5, ReadLockMoves DEF ChildrenAreKnown, Alive, ReadLock
<1>6. ASSUME NEW a \in Apps, UseLocked(a) PROVE ChildrenAreKnown'
  BY <1>0, <1>6, ReturnMoves DEF ChildrenAreKnown, Alive, UseLocked
<1>7. ASSUME NEW a \in Apps, ProbeFails(a) PROVE ChildrenAreKnown'
  BY <1>0, <1>7, GotoMoves DEF ChildrenAreKnown, Alive, ProbeFails
<1>8. ASSUME NEW a \in Apps, RemoveLock(a) PROVE ChildrenAreKnown'
  BY <1>0, <1>8, GotoMoves DEF ChildrenAreKnown, Alive, RemoveLock
<1>9. ASSUME NEW a \in Apps, CreateLock(a) PROVE ChildrenAreKnown'
  BY <1>0, <1>9, GotoMoves, ReturnMoves DEF ChildrenAreKnown, Alive, CreateLock
<1>10. ASSUME NEW a \in Apps, FillLock(a) PROVE ChildrenAreKnown'
  BY <1>0, <1>10, GotoMoves DEF ChildrenAreKnown, Alive, FillLock
<1>11. ASSUME NEW a \in Apps, FindLocked(a) PROVE ChildrenAreKnown'
  BY <1>0, <1>11, ReturnMoves DEF ChildrenAreKnown, Alive, FindLocked
<1>12. ASSUME NEW a \in Apps, StopWaiting(a) PROVE ChildrenAreKnown'
  BY <1>0, <1>12, GotoMoves DEF ChildrenAreKnown, Alive, StopWaiting
<1>13. ASSUME NEW a \in Apps, RetakeLock(a) PROVE ChildrenAreKnown'
  BY <1>0, <1>13, GotoMoves DEF ChildrenAreKnown, Alive, RetakeLock
<1>14. ASSUME NEW a \in Apps, RecreateLock(a) PROVE ChildrenAreKnown'
  BY <1>0, <1>14, GotoMoves, ReturnMoves DEF ChildrenAreKnown, Alive, RecreateLock
<1>15. ASSUME NEW a \in Apps, Spawn(a) PROVE ChildrenAreKnown'
  <2>1. PICK p \in Procs :
          /\ proc[p].state = "unused"
          /\ proc'[p] = [state |-> "starting", port |-> app[a].port, parent |-> a]
          /\ \A q \in Procs : q # p => proc'[q] = proc[q]
          /\ app[a].pc = "spawn" /\ app'[a].pc = "await" /\ app'[a].child = p
          /\ \A b \in Apps : b # a => app'[b] = app[b]
    BY <1>15, SpawnMoves
  <2>2. service' = service /\ unlisted' = unlisted
    BY <1>15 DEF Spawn
  <2> QED BY <1>0, <2>1, <2>2 DEF ChildrenAreKnown, Alive
<1>16. ASSUME NEW a \in Apps, ChildAnswers(a) PROVE ChildrenAreKnown'
  BY <1>0, <1>16, GotoMoves DEF ChildrenAreKnown, Alive, ChildAnswers
<1>17. ASSUME NEW a \in Apps, ChildIsLate(a) PROVE ChildrenAreKnown'
  BY <1>0, <1>17, GotoMoves DEF ChildrenAreKnown, Alive, ChildIsLate
<1>18. ASSUME NEW a \in Apps, StopChild(a) PROVE ChildrenAreKnown'
  <2>1. app[a].pc = "stop" /\ app[a].child \in Procs
    BY <1>18 DEF StopChild, CallsHold
  <2>2. /\ proc'[app[a].child].state = "dead"
        /\ \A q \in Procs : q # app[a].child => proc'[q] = proc[q]
    BY <1>18, <2>1, RemainingType DEF StopChild
  <2>3. service' = service /\ unlisted' = unlisted
    BY <1>18 DEF StopChild
  <2>4. app'[a].pc = "idle" /\ \A b \in Apps : b # a => app'[b] = app[b]
    BY <1>18, ReturnMoves DEF StopChild
  <2> QED BY <1>0, <2>1, <2>2, <2>3, <2>4 DEF ChildrenAreKnown, Alive
<1>19. ASSUME NEW a \in Apps, InspectChild(a) PROVE ChildrenAreKnown'
  BY <1>0, <1>19, GotoMoves, ReturnMoves DEF ChildrenAreKnown, Alive, InspectChild
<1>20. ASSUME NEW a \in Apps, OpenLock(a) PROVE ChildrenAreKnown'
  BY <1>0, <1>20, GotoMoves DEF ChildrenAreKnown, Alive, OpenLock
<1>21. ASSUME NEW a \in Apps, Started(a) PROVE ChildrenAreKnown'
  <2>1. app[a].pc = "text" /\ proc' = proc /\ unlisted' = unlisted
    BY <1>21 DEF Started
  <2>2. service'[a] = app[a].child /\ \A b \in Apps : b # a => service'[b] = service[b]
    BY <1>21 DEF Started, TypeOK
  <2>3. app'[a].pc = "idle" /\ \A b \in Apps : b # a => app'[b] = app[b]
    BY <1>21, ReturnMoves DEF Started
  <2> QED BY <1>0, <2>1, <2>2, <2>3 DEF ChildrenAreKnown, Alive
<1>22. ASSUME NEW a \in Apps, WriteFails(a) PROVE ChildrenAreKnown'
  BY <1>0, <1>22, ReturnMoves DEF ChildrenAreKnown, Alive, WriteFails
<1>23. ASSUME NEW a \in Apps, Quit(a) PROVE ChildrenAreKnown'
  <2>1. unlisted' = unlisted
    BY <1>23 DEF Quit
  <2> QED BY <1>0, <1>23, <2>1, QuitMoves DEF ChildrenAreKnown, Alive
<1>24. ASSUME NEW p \in Procs, Serve(p) PROVE ChildrenAreKnown'
  BY <1>0, <1>24, ServeMoves DEF ChildrenAreKnown, Alive, Serve
<1>25. ASSUME NEW p \in Procs, Die(p) PROVE ChildrenAreKnown'
  BY <1>0, <1>25, RemainingType DEF ChildrenAreKnown, Alive, Die
<1>26. ASSUME UNCHANGED vars PROVE ChildrenAreKnown'
  BY <1>0, <1>26 DEF ChildrenAreKnown, Alive, vars, history
<1> QED BY <1>1, <1>2, <1>3, <1>4, <1>5, <1>6, <1>7, <1>8, <1>9, <1>10, <1>11, <1>12, <1>13, <1>14, <1>15, <1>16, <1>17, <1>18, <1>19, <1>20, <1>21, <1>22, <1>23, <1>24, <1>25, <1>26 DEF Next

\* Wherever a start fails, and whatever dies, between its calls an application has
\* no child alive but the one it manages (service_manager.rs:490-496, 582-648).
THEOREM ChildrenAreLookedAfter == Spec => []NoChildIsLeft
<1>1. Init => NoChildInv
  BY InitType DEF NoChildInv, ChildrenAreKnown, Init, Resting, Alive
<1>2. NoChildInv /\ [Next]_vars => NoChildInv'
  BY StepTypeInv, StepChildren DEF NoChildInv
<1>3. NoChildInv => NoChildIsLeft
  BY DEF NoChildInv, ChildrenAreKnown, NoChildIsLeft, Starting
<1> QED BY <1>1, <1>2, <1>3, PTL DEF Spec

-------------------------------------------------------------------------------
(* A call that is alone is served.                                          *)

\* A call that takes a step while another one, or it, is not disturbed is that one.
LEMMA OnlyCaller ==
    ASSUME CallersAreAlone, NEW a \in Apps, app[a].pc # "idle",
           \A c \in Apps : c # a => app'[c] = app[c],
           disturbed \subseteq disturbed',
           NEW b \in Apps, app'[b].pc # "idle", b \notin disturbed'
    PROVE  /\ b = a /\ a \notin disturbed /\ InCall = {a} /\ InCall' = {a}
           /\ app[a].pc = "recreate" => lock = None
           /\ app[a].pc \in Starting =>
                 /\ app[a].pc # "stop" /\ app[a].child \in Alive
                 /\ proc[app[a].child].port = app[a].port
<1>1. b = a
  BY DEF CallersAreAlone, InCall
<1> QED BY <1>1 DEF CallersAreAlone, InCall

LEMMA StepAlone == AloneInv /\ [Next]_vars => CallersAreAlone'
<1> SUFFICES ASSUME TypeOK, CallsHold, CallersAreAlone, [Next]_vars,
                    NEW b \in Apps, app'[b].pc # "idle", b \notin disturbed'
             PROVE  /\ InCall' = {b}
                    /\ app'[b].pc = "recreate" => lock' = None
                    /\ app'[b].pc \in Starting =>
                          /\ app'[b].pc # "stop"
                          /\ app'[b].child \in Alive'
                          /\ proc'[app'[b].child].port = app'[b].port
  BY DEF AloneInv, NoChildInv, TypeInv, CallersAreAlone
<1>0. app'[b].pc # "idle" /\ b \in Apps /\ b \notin disturbed'
  OBVIOUS
<1> DEFINE Goal == /\ InCall' = {b}
                   /\ app'[b].pc = "recreate" => lock' = None
                   /\ app'[b].pc \in Starting =>
                         /\ app'[b].pc # "stop"
                         /\ app'[b].child \in Alive'
                         /\ proc'[app'[b].child].port = app'[b].port
<1> USE DEF Labels, Probing, Locking, Starting, history
<1>1. ASSUME NEW a \in Apps, Call(a) PROVE Goal
  <2>1. app[a].pc = "idle" /\ app'[a].pc = "cached" /\ \A c \in Apps : c # a => app'[c] = app[c]
    BY <1>1, CallMoves DEF Call
  <2>2. disturbed' = (disturbed \ {a}) \cup (IF InCall = {} THEN {} ELSE InCall \cup {a})
    BY <1>1 DEF Call
  <2>3. InCall = {} /\ b = a
    BY <1>0, <2>1, <2>2 DEF InCall
  <2> QED BY <2>1, <2>3 DEF InCall
<1>2. ASSUME NEW a \in Apps, KeepChild(a) PROVE Goal
  BY <1>0, <1>2, ReturnMoves, OnlyCaller DEF KeepChild
<1>3. ASSUME NEW a \in Apps, DropChild(a) PROVE Goal
  <2>1. disturbed \subseteq disturbed'
    BY <1>3, TimesOutType DEF DropChild
  <2>2. app[a].pc = "cached" /\ app'[a].pc = "port" /\ \A c \in Apps : c # a => app'[c] = app[c]
    BY <1>3, GotoMoves DEF DropChild
  <2> QED BY <1>0, <2>1, <2>2, OnlyCaller
<1>4. ASSUME NEW a \in Apps, ChoosePort(a) PROVE Goal
  <2>1. app[a].pc # "idle" /\ disturbed' = disturbed
    BY <1>4 DEF ChoosePort
  <2> QED BY <1>0, <1>4, <2>1, ChoosePortMoves, OnlyCaller
<1>5. ASSUME NEW a \in Apps, ReadLock(a) PROVE Goal
  <2>1. app[a].pc # "idle" /\ disturbed' = disturbed
    BY <1>5 DEF ReadLock
  <2> QED BY <1>0, <1>5, <2>1, ReadLockMoves, OnlyCaller
<1>6. ASSUME NEW a \in Apps, UseLocked(a) PROVE Goal
  BY <1>0, <1>6, ReturnMoves, OnlyCaller DEF UseLocked
<1>7. ASSUME NEW a \in Apps, ProbeFails(a) PROVE Goal
  <2>1. disturbed \subseteq disturbed'
    BY <1>7, TimesOutType DEF ProbeFails
  <2>2. app[a].pc = "probe" /\ app'[a].pc = "remove" /\ \A c \in Apps : c # a => app'[c] = app[c]
    BY <1>7, GotoMoves DEF ProbeFails
  <2> QED BY <1>0, <2>1, <2>2, OnlyCaller
<1>8. ASSUME NEW a \in Apps, RemoveLock(a) PROVE Goal
  BY <1>0, <1>8, GotoMoves, OnlyCaller DEF Alive, RemoveLock
<1>9. ASSUME NEW a \in Apps, CreateLock(a) PROVE Goal
  BY <1>0, <1>9, GotoMoves, ReturnMoves, OnlyCaller DEF Alive, CreateLock
<1>10. ASSUME NEW a \in Apps, FillLock(a) PROVE Goal
  BY <1>0, <1>10, GotoMoves, OnlyCaller DEF Alive, FillLock
<1>11. ASSUME NEW a \in Apps, FindLocked(a) PROVE Goal
  BY <1>0, <1>11, ReturnMoves, OnlyCaller DEF FindLocked
<1>12. ASSUME NEW a \in Apps, StopWaiting(a) PROVE Goal
  <2>1. disturbed \subseteq disturbed'
    BY <1>12, TimesOutType DEF StopWaiting
  <2>2. app[a].pc = "wait" /\ app'[a].pc = "retake" /\ \A c \in Apps : c # a => app'[c] = app[c]
    BY <1>12, GotoMoves DEF StopWaiting
  <2> QED BY <1>0, <2>1, <2>2, OnlyCaller
<1>13. ASSUME NEW a \in Apps, RetakeLock(a) PROVE Goal
  BY <1>0, <1>13, GotoMoves, OnlyCaller DEF Alive, RetakeLock
<1>14. ASSUME NEW a \in Apps, RecreateLock(a) PROVE Goal
  BY <1>0, <1>14, GotoMoves, ReturnMoves, OnlyCaller DEF Alive, RecreateLock
<1>15. ASSUME NEW a \in Apps, Spawn(a) PROVE Goal
  <2>1. PICK p \in Procs :
          /\ proc'[p] = [state |-> "starting", port |-> app[a].port, parent |-> a]
          /\ app[a].pc = "spawn" /\ app'[a].pc = "await"
          /\ app'[a].child = p /\ app'[a].port = app[a].port
          /\ \A c \in Apps : c # a => app'[c] = app[c]
    BY <1>15, SpawnMoves
  <2>2. disturbed' = disturbed
    BY <1>15 DEF Spawn
  <2> QED BY <1>0, <2>1, <2>2, OnlyCaller DEF Alive
<1>16. ASSUME NEW a \in Apps, ChildAnswers(a) PROVE Goal
  BY <1>0, <1>16, GotoMoves, OnlyCaller DEF Alive, ChildAnswers
<1>17. ASSUME NEW a \in Apps, ChildIsLate(a) PROVE Goal
  <2>1. app[a].pc = "await" /\ app'[a].pc = "stop" /\ \A c \in Apps : c # a => app'[c] = app[c]
    BY <1>17, GotoMoves DEF ChildIsLate
  <2>2. disturbed \subseteq disturbed' /\ (disturbed' = disturbed \/ disturbed' = disturbed \cup InCall)
    BY <1>17, TimesOutType, FaultType DEF ChildIsLate, TooSlow
  <2>3. b = a /\ a \notin disturbed /\ a \in InCall
    BY <1>0, <2>1, <2>2, OnlyCaller DEF InCall
  <2>4. disturbed' = disturbed
    BY <2>2, <2>3, <1>0
  <2>5. app[a].child \in Alive /\ proc[app[a].child].port = app[a].port
    BY <2>1, <2>3 DEF CallersAreAlone
  <2>6. proc[app[a].child].state # "starting" /\ TimesOut(app[a].port, app[a].child)
    BY <1>17, <2>3, <2>4, FaultType DEF ChildIsLate, TooSlow
  <2>7. Answers(app[a].port, app[a].child)
    BY <2>5, <2>6 DEF Answers, Alive
  <2> QED BY <2>3, <2>4, <2>6, <2>7, FaultType DEF TimesOut, TooSlow
<1>18. ASSUME NEW a \in Apps, StopChild(a) PROVE Goal
  BY <1>0, <1>18, ReturnMoves, OnlyCaller DEF StopChild
<1>19. ASSUME NEW a \in Apps, InspectChild(a) PROVE Goal
  BY <1>0, <1>19, GotoMoves, ReturnMoves, OnlyCaller DEF Alive, InspectChild
<1>20. ASSUME NEW a \in Apps, OpenLock(a) PROVE Goal
  BY <1>0, <1>20, GotoMoves, OnlyCaller DEF Alive, OpenLock
<1>21. ASSUME NEW a \in Apps, Started(a) PROVE Goal
  BY <1>0, <1>21, ReturnMoves, OnlyCaller DEF Started
<1>22. ASSUME NEW a \in Apps, WriteFails(a) PROVE Goal
  BY <1>0, <1>22, ReturnMoves, FaultType, OnlyCaller DEF WriteFails
<1>23. ASSUME NEW a \in Apps, Quit(a) PROVE Goal
  <2>1. disturbed' = disturbed /\ (lock = None => lock' = None)
    BY <1>23 DEF Quit
  <2>2. b # a /\ app'[b] = app[b] /\ InCall' \subseteq InCall /\ b \in InCall'
    BY <1>0, <1>23, QuitMoves DEF InCall
  <2>3. InCall' = {b} /\ \A p \in Alive : p \in Alive' /\ proc'[p].port = proc[p].port
    BY <1>0, <1>23, <2>1, <2>2, QuitMoves DEF CallersAreAlone, Alive
  <2> QED BY <1>0, <2>1, <2>2, <2>3 DEF CallersAreAlone, CallsHold
<1>24. ASSUME NEW p \in Procs, Serve(p) PROVE Goal
  <2>1. app' = app /\ lock' = lock /\ disturbed \subseteq disturbed'
    BY <1>24, ServeMoves DEF Serve
  <2>2. b \in InCall /\ InCall' = InCall
    BY <1>0, <2>1 DEF InCall
  <2>3. proc'[p].state = "serving" /\ proc'[p].port = proc[p].port
    BY <1>0, <1>24, <2>2, ServeMoves
  <2>4. \A q \in Alive : q \in Alive' /\ proc'[q].port = proc[q].port
    BY <1>24, <2>3, ServeMoves DEF Alive
  <2> QED BY <1>0, <2>1, <2>2, <2>4 DEF CallersAreAlone, CallsHold
<1>25. ASSUME NEW p \in Procs, Die(p) PROVE Goal
  <2>1. app' = app /\ disturbed' = disturbed \cup InCall
    BY <1>25, FaultType DEF Die
  <2> QED BY <1>0, <2>1 DEF InCall
<1>26. ASSUME UNCHANGED vars PROVE Goal
  BY <1>0, <1>26 DEF CallersAreAlone, InCall, Alive, vars
<1> QED BY <1>1, <1>2, <1>3, <1>4, <1>5, <1>6, <1>7, <1>8, <1>9, <1>10, <1>11, <1>12, <1>13, <1>14, <1>15, <1>16, <1>17, <1>18, <1>19, <1>20, <1>21, <1>22, <1>23, <1>24, <1>25, <1>26 DEF Next

LEMMA StepServed == AloneInv /\ [Next]_vars => AloneIsServed'
<1> SUFFICES ASSUME TypeOK, CallersAreAlone, AloneIsServed, [Next]_vars PROVE AloneIsServed'
  BY DEF AloneInv, NoChildInv, TypeInv
<1> USE DEF AloneIsServed, Labels, Probing, Locking, Starting, history
<1>1. ASSUME NEW a \in Apps, Call(a) PROVE AloneIsServed'
  <2>1. reply'[a] = None /\ \A b \in Apps : b # a => reply'[b] = reply[b]
    BY <1>1 DEF Call, TypeOK
  <2>2. \A b \in disturbed : b # a => b \in disturbed'
    BY <1>1 DEF Call
  <2> QED BY <2>1, <2>2
<1>2. ASSUME NEW a \in Apps, KeepChild(a) PROVE AloneIsServed'
  BY <1>2, ReturnMoves DEF KeepChild
<1>3. ASSUME NEW a \in Apps, DropChild(a) PROVE AloneIsServed'
  BY <1>3, TimesOutType DEF DropChild
<1>4. ASSUME NEW a \in Apps, ChoosePort(a) PROVE AloneIsServed'
  BY <1>4 DEF ChoosePort
<1>5. ASSUME NEW a \in Apps, ReadLock(a) PROVE AloneIsServed'
  BY <1>5 DEF ReadLock
<1>6. ASSUME NEW a \in Apps, UseLocked(a) PROVE AloneIsServed'
  BY <1>6, ReturnMoves DEF UseLocked
<1>7. ASSUME NEW a \in Apps, ProbeFails(a) PROVE AloneIsServed'
  BY <1>7, TimesOutType DEF ProbeFails
<1>8. ASSUME NEW a \in Apps, RemoveLock(a) PROVE AloneIsServed'
  BY <1>8 DEF RemoveLock
<1>9. ASSUME NEW a \in Apps, CreateLock(a) PROVE AloneIsServed'
  BY <1>9 DEF CreateLock
<1>10. ASSUME NEW a \in Apps, FillLock(a) PROVE AloneIsServed'
  BY <1>10 DEF FillLock
<1>11. ASSUME NEW a \in Apps, FindLocked(a) PROVE AloneIsServed'
  BY <1>11, ReturnMoves DEF FindLocked
<1>12. ASSUME NEW a \in Apps, StopWaiting(a) PROVE AloneIsServed'
  BY <1>12, TimesOutType DEF StopWaiting
<1>13. ASSUME NEW a \in Apps, RetakeLock(a) PROVE AloneIsServed'
  BY <1>13 DEF RetakeLock
<1>14. ASSUME NEW a \in Apps, RecreateLock(a) PROVE AloneIsServed'
  <2>1. CASE lock = None
    BY <1>14, <2>1 DEF RecreateLock
  <2>2. CASE lock # None
    <3>1. app[a].pc = "recreate" /\ disturbed' = disturbed
      BY <1>14 DEF RecreateLock
    <3>2. a \in disturbed
      BY <2>2, <3>1 DEF CallersAreAlone
    <3> QED BY <1>14, <2>2, <3>1, <3>2, ReturnMoves DEF RecreateLock
  <2> QED BY <2>1, <2>2
<1>15. ASSUME NEW a \in Apps, Spawn(a) PROVE AloneIsServed'
  BY <1>15 DEF Spawn
<1>16. ASSUME NEW a \in Apps, ChildAnswers(a) PROVE AloneIsServed'
  BY <1>16 DEF ChildAnswers
<1>17. ASSUME NEW a \in Apps, ChildIsLate(a) PROVE AloneIsServed'
  BY <1>17, TimesOutType, FaultType DEF ChildIsLate, TooSlow
<1>18. ASSUME NEW a \in Apps, StopChild(a) PROVE AloneIsServed'
  <2>1. app[a].pc = "stop" /\ disturbed' = disturbed
    BY <1>18 DEF StopChild
  <2>2. a \in disturbed
    BY <2>1 DEF CallersAreAlone
  <2> QED BY <1>18, <2>1, <2>2, ReturnMoves DEF StopChild
<1>19. ASSUME NEW a \in Apps, InspectChild(a) PROVE AloneIsServed'
  <2>1. app[a].pc = "inspect" /\ disturbed' = disturbed
    BY <1>19 DEF InspectChild
  <2>2. CASE app[a].child \in Alive
    BY <1>19, <2>1, <2>2 DEF InspectChild
  <2>3. CASE app[a].child \notin Alive
    <3>1. a \in disturbed
      BY <2>1, <2>3 DEF CallersAreAlone
    <3> QED BY <1>19, <2>1, <2>3, <3>1, ReturnMoves DEF InspectChild
  <2> QED BY <2>2, <2>3
<1>20. ASSUME NEW a \in Apps, OpenLock(a) PROVE AloneIsServed'
  BY <1>20 DEF OpenLock
<1>21. ASSUME NEW a \in Apps, Started(a) PROVE AloneIsServed'
  BY <1>21, ReturnMoves DEF Started
<1>22. ASSUME NEW a \in Apps, WriteFails(a) PROVE AloneIsServed'
  <2>1. a \in disturbed' /\ disturbed \subseteq disturbed'
    BY <1>22, FaultType DEF WriteFails, InCall
  <2> QED BY <1>22, <2>1, ReturnMoves DEF WriteFails
<1>23. ASSUME NEW a \in Apps, Quit(a) PROVE AloneIsServed'
  <2>1. disturbed' = disturbed
    BY <1>23 DEF Quit
  <2> QED BY <1>23, <2>1, QuitMoves
<1>24. ASSUME NEW p \in Procs, Serve(p) PROVE AloneIsServed'
  BY <1>24 DEF Serve
<1>25. ASSUME NEW p \in Procs, Die(p) PROVE AloneIsServed'
  BY <1>25, FaultType DEF Die
<1>26. ASSUME UNCHANGED vars PROVE AloneIsServed'
  BY <1>26 DEF vars, history
<1> QED BY <1>1, <1>2, <1>3, <1>4, <1>5, <1>6, <1>7, <1>8, <1>9, <1>10, <1>11, <1>12, <1>13, <1>14, <1>15, <1>16, <1>17, <1>18, <1>19, <1>20, <1>21, <1>22, <1>23, <1>24, <1>25, <1>26 DEF Next

\* A call that is alone, and meets no dead or slow service, is served, whatever lock
\* it finds (service_manager.rs:526-579).
THEOREM AloneCallsAreServed == Spec => []AloneIsServed
<1>1. Init => AloneInv
  BY InitType DEF AloneInv, NoChildInv, ChildrenAreKnown, CallersAreAlone, AloneIsServed,
                  Init, Resting, Alive
<1>2. AloneInv /\ [Next]_vars => AloneInv'
  BY StepTypeInv, StepChildren, StepAlone, StepServed DEF AloneInv, NoChildInv
<1>3. AloneInv => AloneIsServed
  BY DEF AloneInv
<1> QED BY <1>1, <1>2, <1>3, PTL DEF Spec

-------------------------------------------------------------------------------
(* Calm starts share one service.                                           *)

\* A history that is calm after a step was calm before it.
LEMMA StepCalm == TypeOK /\ [Next]_vars /\ Calm' => Calm
<1> SUFFICES ASSUME TypeOK, [Next]_vars, Calm' PROVE Calm
  OBVIOUS
<1> USE DEF Calm, history
<1>1. ASSUME NEW a \in Apps, Call(a) PROVE Calm
  BY <1>1 DEF Call
<1>2. ASSUME NEW a \in Apps, KeepChild(a) PROVE Calm
  BY <1>2 DEF KeepChild
<1>3. ASSUME NEW a \in Apps, DropChild(a) PROVE Calm
  BY <1>3, TimesOutType DEF DropChild
<1>4. ASSUME NEW a \in Apps, ChoosePort(a) PROVE Calm
  BY <1>4 DEF ChoosePort
<1>5. ASSUME NEW a \in Apps, ReadLock(a) PROVE Calm
  BY <1>5 DEF ReadLock
<1>6. ASSUME NEW a \in Apps, UseLocked(a) PROVE Calm
  BY <1>6 DEF UseLocked
<1>7. ASSUME NEW a \in Apps, ProbeFails(a) PROVE Calm
  BY <1>7, TimesOutType DEF ProbeFails
<1>8. ASSUME NEW a \in Apps, RemoveLock(a) PROVE Calm
  BY <1>8 DEF RemoveLock
<1>9. ASSUME NEW a \in Apps, CreateLock(a) PROVE Calm
  BY <1>9 DEF CreateLock
<1>10. ASSUME NEW a \in Apps, FillLock(a) PROVE Calm
  BY <1>10 DEF FillLock
<1>11. ASSUME NEW a \in Apps, FindLocked(a) PROVE Calm
  BY <1>11 DEF FindLocked
<1>12. ASSUME NEW a \in Apps, StopWaiting(a) PROVE Calm
  BY <1>12, TimesOutType DEF StopWaiting
<1>13. ASSUME NEW a \in Apps, RetakeLock(a) PROVE Calm
  BY <1>13 DEF RetakeLock
<1>14. ASSUME NEW a \in Apps, RecreateLock(a) PROVE Calm
  BY <1>14 DEF RecreateLock
<1>15. ASSUME NEW a \in Apps, Spawn(a) PROVE Calm
  BY <1>15 DEF Spawn
<1>16. ASSUME NEW a \in Apps, ChildAnswers(a) PROVE Calm
  BY <1>16 DEF ChildAnswers
<1>17. ASSUME NEW a \in Apps, ChildIsLate(a) PROVE Calm
  BY <1>17, TimesOutType DEF ChildIsLate, TooSlow
<1>18. ASSUME NEW a \in Apps, StopChild(a) PROVE Calm
  BY <1>18 DEF StopChild
<1>19. ASSUME NEW a \in Apps, InspectChild(a) PROVE Calm
  BY <1>19 DEF InspectChild
<1>20. ASSUME NEW a \in Apps, OpenLock(a) PROVE Calm
  BY <1>20 DEF OpenLock
<1>21. ASSUME NEW a \in Apps, Started(a) PROVE Calm
  BY <1>21 DEF Started
<1>22. ASSUME NEW a \in Apps, WriteFails(a) PROVE Calm
  BY <1>22 DEF WriteFails
<1>23. ASSUME NEW a \in Apps, Quit(a) PROVE Calm
  BY <1>23 DEF Quit
<1>24. ASSUME NEW p \in Procs, Serve(p) PROVE Calm
  BY <1>24 DEF Serve
<1>25. ASSUME NEW p \in Procs, Die(p) PROVE Calm
  BY <1>25 DEF Die
<1>26. ASSUME UNCHANGED vars PROVE Calm
  BY <1>26 DEF vars
<1> QED BY <1>1, <1>2, <1>3, <1>4, <1>5, <1>6, <1>7, <1>8, <1>9, <1>10, <1>11, <1>12, <1>13, <1>14, <1>15, <1>16, <1>17, <1>18, <1>19, <1>20, <1>21, <1>22, <1>23, <1>24, <1>25, <1>26 DEF Next

\* The one call there is takes a step: it is still the only one.
LEMMA CallerMoves ==
    ASSUME OneCaller, NEW a \in Apps, app[a].pc # "idle",
           \A c \in Apps : c # a => app'[c] = app[c]
    PROVE  InCall = {a} /\ InCall' \subseteq {a} /\ OneCaller'
  BY DEF OneCaller, InCall

\* A step of a call that leaves the services and the lock file as they are.
LEMMA SameServices ==
    ASSUME NEW a \in Apps, InCall \subseteq {a}, ServiceListed, app[a].pc \in {"idle"} \cup Probing,
           app'[a].pc \in {"idle"} \cup (Probing \ {"probe"})
               \/ (app'[a].pc = "probe" /\ lock # None /\ app'[a].seen = lock.text),
           \A c \in Apps : c # a => app'[c] = app[c],
           lock' = lock, proc' = proc, packaged' = packaged
    PROVE  CallerKnows(a)' /\ ServiceListed'
<1>1. \A c \in Apps : app[c].pc \in {"idle"} \cup Probing
  BY DEF InCall
<1>2. Alive' = Alive /\ \A p \in Alive : Listed(p) /\ Alive = {p}
  BY <1>1 DEF ServiceListed, Alive
<1>3. \A p \in Alive' : Listed(p)' /\ Alive' = {p}
  BY <1>2 DEF Listed
<1> QED BY <1>3 DEF CallerKnows, ServiceListed, Probing, Locking, Starting

\* A step of a call, past the probe and before its child, while no service lives.
LEMMA NobodyLives ==
    ASSUME NEW a \in Apps, OneCaller, \A c \in InCall : CallerKnows(c), app[a].pc # "idle",
           app[a].pc \in Locking \/ Alive = {},
           app'[a].pc \in {"idle"} \cup Locking, proc' = proc
    PROVE  CallerKnows(a)' /\ ServiceListed'
<1>1. Alive = {} /\ Alive' = {}
  BY DEF CallerKnows, InCall, Alive
<1> QED BY <1>1 DEF CallerKnows, ServiceListed, Probing, Locking, Starting

LEMMA StepCalmCallers == CalmInv /\ [Next]_vars => CalmCallers'
<1> SUFFICES ASSUME TypeOK, CallsHold, CalmCallers, [Next]_vars, Calm'
             PROVE  OneCaller' /\ (\A c \in InCall' : CallerKnows(c)') /\ ServiceListed'
  BY DEF CalmInv, TypeInv, CalmCallers
<1>0. Calm' /\ OneCaller /\ (\A c \in InCall : CallerKnows(c)) /\ ServiceListed
  BY StepCalm DEF CalmCallers
<1> DEFINE Goal == OneCaller' /\ (\A c \in InCall' : CallerKnows(c)') /\ ServiceListed'
<1> USE DEF Labels, Probing, Locking, Starting, history
<1>1. ASSUME NEW a \in Apps, Call(a) PROVE Goal
  <2>1. app[a].pc = "idle" /\ app'[a].pc = "cached" /\ \A c \in Apps : c # a => app'[c] = app[c]
    BY <1>1, CallMoves DEF Call
  <2>2. lock' = lock /\ proc' = proc /\ packaged' = packaged /\ InCall = {}
    BY <1>0, <1>1 DEF Call, Calm
  <2> QED BY <1>0, <2>1, <2>2, SameServices DEF InCall, OneCaller, CallerKnows
<1>2. ASSUME NEW a \in Apps, KeepChild(a) PROVE Goal
  <2>1. app[a].pc = "cached" /\ app'[a].pc = "idle" /\ \A c \in Apps : c # a => app'[c] = app[c]
    BY <1>2, ReturnMoves DEF KeepChild
  <2>2. lock' = lock /\ proc' = proc /\ packaged' = packaged
    BY <1>2 DEF KeepChild
  <2> QED BY <1>0, <2>1, <2>2, CallerMoves, SameServices
<1>3. ASSUME NEW a \in Apps, DropChild(a) PROVE Goal
  <2>1. app[a].pc = "cached" /\ app'[a].pc = "port" /\ \A c \in Apps : c # a => app'[c] = app[c]
    BY <1>3, GotoMoves DEF DropChild
  <2>2. service[a] \in Procs /\ lock' = lock /\ packaged' = packaged /\ proc' = Remaining(service[a])
    BY <1>3 DEF DropChild, TypeOK
  <2>3. service[a] \in Alive => ~Answers(proc[service[a]].port, service[a])
    BY <1>0, <1>3, TimesOutType DEF DropChild, Calm
  <2>4. \A p \in Alive : Listed(p) /\ Alive = {p}
    BY <1>0, <2>1 DEF InCall, OneCaller, ServiceListed
  <2>5. service[a] \notin Alive
    BY <2>3, <2>4 DEF Listed, Answers, Alive
  <2>6. Alive' = Alive /\ \A p \in Alive : proc'[p] = proc[p]
    BY <2>2, <2>5, RemainingType DEF Alive
  <2>7. \A p \in Alive' : Listed(p)' /\ Alive' = {p}
    BY <2>2, <2>4, <2>6 DEF Listed
  <2> QED BY <1>0, <2>1, <2>7, CallerMoves DEF InCall, OneCaller, CallerKnows, ServiceListed
<1>4. ASSUME NEW a \in Apps, ChoosePort(a) PROVE Goal
  <2>1. app[a].pc \in {"cached", "port"} /\ lock' = lock /\ proc' = proc /\ packaged' = packaged
    BY <1>4 DEF ChoosePort
  <2>2. app'[a].pc = "read" /\ \A c \in Apps : c # a => app'[c] = app[c]
    BY <1>4, ChoosePortMoves
  <2> QED BY <1>0, <2>1, <2>2, CallerMoves, SameServices
<1>5. ASSUME NEW a \in Apps, ReadLock(a) PROVE Goal
  <2>1. lock' = lock /\ proc' = proc /\ packaged' = packaged
    BY <1>5 DEF ReadLock
  <2>2. app[a].pc = "read" /\ \A c \in Apps : c # a => app'[c] = app[c]
    BY <1>5, ReadLockMoves
  <2>3. CASE (lock = None \/ lock.text = None) /\ app'[a].pc = "create"
    <3>1. Alive = {}
      BY <1>0, <2>2, <2>3 DEF InCall, OneCaller, ServiceListed, Listed
    <3> QED BY <1>0, <2>1, <2>2, <2>3, <3>1, CallerMoves, NobodyLives
  <2>4. CASE /\ lock # None /\ lock.text # None
             /\ app'[a].pc = "probe" /\ app'[a].seen = lock.text
    BY <1>0, <2>1, <2>2, <2>4, CallerMoves, SameServices DEF CallerKnows
  <2> QED BY <1>5, <2>3, <2>4, ReadLockMoves
<1>6. ASSUME NEW a \in Apps, UseLocked(a) PROVE Goal
  <2>1. app[a].pc = "probe" /\ app'[a].pc = "idle" /\ \A c \in Apps : c # a => app'[c] = app[c]
    BY <1>6, ReturnMoves DEF UseLocked
  <2>2. lock' = lock /\ proc' = proc /\ packaged' = packaged
    BY <1>6 DEF UseLocked
  <2> QED BY <1>0, <2>1, <2>2, CallerMoves, SameServices
<1>7. ASSUME NEW a \in Apps, ProbeFails(a) PROVE Goal
  <2>1. app[a].pc = "probe" /\ app'[a].pc = "remove" /\ \A c \in Apps : c # a => app'[c] = app[c]
    BY <1>7, GotoMoves DEF ProbeFails
  <2>2. proc' = proc /\ packaged' = packaged
    BY <1>7 DEF ProbeFails
  <2>3. app[a].seen = lock.text /\ \A p \in Alive : Listed(p)
    BY <1>0, <2>1 DEF InCall, OneCaller, ServiceListed, CallerKnows
  <2>4. ~Answers(app[a].seen.port, app[a].seen.pid)
    BY <1>0, <1>7, TimesOutType DEF ProbeFails, Calm
  <2>5. Alive = {}
    BY <2>3, <2>4 DEF Listed, Answers, Alive
  <2> QED BY <1>0, <2>1, <2>2, <2>5, CallerMoves, NobodyLives
<1>8. ASSUME NEW a \in Apps, RemoveLock(a) PROVE Goal
  <2>1. app[a].pc = "remove" /\ app'[a].pc = "create" /\ \A c \in Apps : c # a => app'[c] = app[c]
    BY <1>8, GotoMoves DEF RemoveLock
  <2>2. proc' = proc /\ packaged' = packaged
    BY <1>8 DEF RemoveLock
  <2> QED BY <1>0, <2>1, <2>2, CallerMoves, NobodyLives
<1>9. ASSUME NEW a \in Apps, CreateLock(a) PROVE Goal
  <2>1. app[a].pc = "create" /\ app'[a].pc \in {"fill", "wait"} /\ \A c \in Apps : c # a => app'[c] = app[c]
    BY <1>9, GotoMoves DEF CreateLock
  <2>2. proc' = proc /\ packaged' = packaged
    BY <1>9 DEF CreateLock
  <2> QED BY <1>0, <2>1, <2>2, CallerMoves, NobodyLives
<1>10. ASSUME NEW a \in Apps, FillLock(a) PROVE Goal
  <2>1. app[a].pc = "fill" /\ app'[a].pc = "spawn" /\ \A c \in Apps : c # a => app'[c] = app[c]
    BY <1>10, GotoMoves DEF FillLock
  <2>2. proc' = proc /\ packaged' = packaged
    BY <1>10 DEF FillLock
  <2> QED BY <1>0, <2>1, <2>2, CallerMoves, NobodyLives
<1>11. ASSUME NEW a \in Apps, FindLocked(a) PROVE Goal
  <2>1. app[a].pc = "wait" /\ app'[a].pc = "idle" /\ \A c \in Apps : c # a => app'[c] = app[c]
    BY <1>11, ReturnMoves DEF FindLocked
  <2>2. proc' = proc /\ packaged' = packaged
    BY <1>11 DEF FindLocked
  <2> QED BY <1>0, <2>1, <2>2, CallerMoves, NobodyLives
<1>12. ASSUME NEW a \in Apps, StopWaiting(a) PROVE Goal
  <2>1. app[a].pc = "wait" /\ app'[a].pc = "retake" /\ \A c \in Apps : c # a => app'[c] = app[c]
    BY <1>12, GotoMoves DEF StopWaiting
  <2>2. proc' = proc /\ packaged' = packaged
    BY <1>12 DEF StopWaiting
  <2> QED BY <1>0, <2>1, <2>2, CallerMoves, NobodyLives
<1>13. ASSUME NEW a \in Apps, RetakeLock(a) PROVE Goal
  <2>1. app[a].pc = "retake" /\ app'[a].pc = "recreate" /\ \A c \in Apps : c # a => app'[c] = app[c]
    BY <1>13, GotoMoves DEF RetakeLock
  <2>2. proc' = proc /\ packaged' = packaged
    BY <1>13 DEF RetakeLock
  <2> QED BY <1>0, <2>1, <2>2, CallerMoves, NobodyLives
<1>14. ASSUME NEW a \in Apps, RecreateLock(a) PROVE Goal
  <2>1. app[a].pc = "recreate" /\ app'[a].pc \in {"fill", "idle"} /\ \A c \in Apps : c # a => app'[c] = app[c]
    BY <1>14, GotoMoves, ReturnMoves DEF RecreateLock
  <2>2. proc' = proc /\ packaged' = packaged
    BY <1>14 DEF RecreateLock
  <2> QED BY <1>0, <2>1, <2>2, CallerMoves, NobodyLives
<1>15. ASSUME NEW a \in Apps, Spawn(a) PROVE Goal
  <2>1. PICK p \in Procs :
          /\ proc'[p] = [state |-> "starting", port |-> app[a].port, parent |-> a]
          /\ \A q \in Procs : q # p => proc'[q] = proc[q]
          /\ app[a].pc = "spawn" /\ app'[a].pc = "await"
          /\ app'[a].child = p /\ app'[a].port = app[a].port
          /\ \A c \in Apps : c # a => app'[c] = app[c]
    BY <1>15, SpawnMoves
  <2>2. Alive = {}
    BY <1>0, <2>1 DEF InCall, CallerKnows
  <2>3. Alive' = {p}
    BY <2>1, <2>2 DEF Alive
  <2>4. CallerKnows(a)'
    BY <2>1, <2>3 DEF CallerKnows
  <2> QED BY <1>0, <2>1, <2>4, CallerMoves DEF ServiceListed
<1>16. ASSUME NEW a \in Apps, ChildAnswers(a) PROVE Goal
  <2>1. /\ app[a].pc = "await" /\ app'[a].pc = "inspect" /\ app'[a].child = app[a].child
        /\ app'[a].port = app[a].port /\ \A c \in Apps : c # a => app'[c] = app[c]
    BY <1>16, GotoMoves DEF ChildAnswers
  <2>2. proc' = proc /\ Answers(app[a].port, app[a].child)
    BY <1>16 DEF ChildAnswers
  <2>3. \A p \in Alive : p = app[a].child /\ proc[p].port = app[a].port
    BY <1>0, <2>1 DEF InCall, CallerKnows
  <2>4. \A p \in Alive : proc[p].state = "serving"
    BY <2>2, <2>3 DEF Answers, Alive
  <2>5. CallerKnows(a)'
    BY <2>1, <2>2, <2>3, <2>4 DEF CallerKnows, Alive
  <2> QED BY <1>0, <2>1, <2>5, CallerMoves DEF ServiceListed
<1>17. ASSUME NEW a \in Apps, ChildIsLate(a) PROVE Goal
  <2>1. app[a].pc = "await" /\ app'[a].pc = "stop" /\ \A c \in Apps : c # a => app'[c] = app[c]
    BY <1>17, GotoMoves DEF ChildIsLate
  <2>2. proc' = proc
    BY <1>17 DEF ChildIsLate
  <2>3. proc[app[a].child].state # "starting" /\ ~Answers(app[a].port, app[a].child)
    BY <1>0, <1>17, TimesOutType DEF ChildIsLate, TooSlow, Calm
  <2>4. Alive = {}
    BY <1>0, <2>1, <2>3 DEF InCall, CallerKnows, Answers, Alive
  <2>5. CallerKnows(a)'
    BY <2>1, <2>2, <2>4 DEF CallerKnows, Alive
  <2> QED BY <1>0, <2>1, <2>5, CallerMoves DEF ServiceListed
<1>18. ASSUME NEW a \in Apps, StopChild(a) PROVE Goal
  <2>1. app[a].pc = "stop" /\ app'[a].pc = "idle" /\ \A c \in Apps : c # a => app'[c] = app[c]
    BY <1>18, ReturnMoves DEF StopChild
  <2>2. Alive = {} /\ app[a].child \in Procs /\ proc' = Remaining(app[a].child)
    BY <1>0, <1>18, <2>1 DEF StopChild, InCall, CallerKnows, CallsHold
  <2>3. Alive' = {}
    BY <2>2, RemainingType DEF Alive
  <2> QED BY <1>0, <2>1, <2>3, CallerMoves DEF ServiceListed, InCall
<1>19. ASSUME NEW a \in Apps, InspectChild(a) PROVE Goal
  <2>1. /\ app[a].pc = "inspect" /\ proc' = proc
        /\ app[a].child \notin Alive => app'[a].pc = "idle"
        /\ app[a].child \in Alive => /\ app'[a].pc = "write" /\ app'[a].port = app[a].port
                                     /\ app'[a].child = app[a].child
        /\ \A c \in Apps : c # a => app'[c] = app[c]
    BY <1>19, GotoMoves, ReturnMoves DEF InspectChild
  <2>2. \A p \in Alive : p = app[a].child /\ proc[p].port = app[a].port /\ proc[p].state = "serving"
    BY <1>0, <2>1 DEF InCall, CallerKnows
  <2>3. CASE app[a].child \in Alive
    <3>1. CallerKnows(a)'
      BY <2>1, <2>2, <2>3 DEF CallerKnows, Alive
    <3> QED BY <1>0, <2>1, <2>3, <3>1, CallerMoves DEF ServiceListed
  <2>4. CASE app[a].child \notin Alive
    <3>1. Alive' = {}
      BY <2>1, <2>2, <2>4 DEF Alive
    <3> QED BY <1>0, <2>1, <2>4, <3>1, CallerMoves DEF ServiceListed, InCall
  <2> QED BY <2>3, <2>4
<1>20. ASSUME NEW a \in Apps, OpenLock(a) PROVE Goal
  <2>1. /\ app[a].pc = "write" /\ app'[a].pc = "text" /\ app'[a].port = app[a].port
        /\ app'[a].child = app[a].child /\ \A c \in Apps : c # a => app'[c] = app[c]
    BY <1>20, GotoMoves DEF OpenLock
  <2>2. proc' = proc /\ lock' = [by |-> a, text |-> None]
    BY <1>20 DEF OpenLock
  <2>3. lock' \in LockFile
    BY <2>2 DEF LockFile
  <2>4. \A p \in Alive : p = app[a].child /\ proc[p].port = app[a].port /\ proc[p].state = "serving"
    BY <1>0, <2>1 DEF InCall, CallerKnows
  <2>5. CallerKnows(a)'
    BY <2>1, <2>2, <2>3, <2>4 DEF CallerKnows, Alive
  <2> QED BY <1>0, <2>1, <2>5, CallerMoves DEF ServiceListed
<1>21. ASSUME NEW a \in Apps, Started(a) PROVE Goal
  <2>1. app[a].pc = "text" /\ app'[a].pc = "idle" /\ \A c \in Apps : c # a => app'[c] = app[c]
    BY <1>21, ReturnMoves DEF Started
  <2>2. lock # None /\ lock.by = a
    BY <1>0, <2>1 DEF InCall, CallerKnows
  <2>3. \A p \in Alive : p = app[a].child /\ proc[p].port = app[a].port /\ proc[p].state = "serving"
    BY <1>0, <2>1 DEF InCall, CallerKnows
  <2> DEFINE text == [port |-> app[a].port, pid |-> app[a].child]
  <2>4. text \in Payload
    BY <2>1 DEF CallsHold, Payload
  <2>5. proc' = proc /\ lock' = [lock EXCEPT !.text = text] /\ lock \in LockFile
    BY <1>21, <2>2 DEF Started, Filled, TypeOK
  <2>6. lock' \in LockFile /\ lock'.text = text
    BY <2>4, <2>5 DEF LockFile
  <2>7. \A p \in Alive' : Listed(p)' /\ Alive' = {p}
    BY <2>3, <2>4, <2>5, <2>6 DEF Listed, Alive
  <2> QED BY <1>0, <2>1, <2>7, CallerMoves DEF ServiceListed, InCall
<1>22. ASSUME NEW a \in Apps, WriteFails(a) PROVE Goal
  <2>1. unlisted' # {}
    BY <1>22 DEF WriteFails
  <2> QED BY <1>0, <2>1 DEF Calm
<1>23. ASSUME NEW a \in Apps, Quit(a) PROVE Goal
  <2>1. app[a].pc = "idle" /\ packaged' = packaged
    BY <1>0, <1>23 DEF Quit, Calm
  <2>2. /\ app'[a].pc = "idle" /\ \A c \in Apps : c # a => app'[c] = app[c]
        /\ \A p \in Procs : proc'[p].state = proc[p].state /\ proc'[p].port = proc[p].port
    BY <1>23, QuitMoves
  <2>3. Alive' = Alive /\ InCall' = InCall
    BY <2>1, <2>2 DEF Alive, InCall
  <2>4. lock' = lock \/ (lock # None /\ lock.by = a /\ lock' = [lock EXCEPT !.by = None])
    BY <1>23 DEF Quit
  <2>5. (lock # None => lock' # None /\ lock'.text = lock.text)
        /\ \A c \in Apps : c # a /\ lock # None /\ lock.by = c => lock'.by = c
    <3>1. lock # None => lock \in LockFile /\ [lock EXCEPT !.by = None] \in LockFile
      BY DEF TypeOK, LockFile
    <3> QED BY <2>4, <3>1 DEF LockFile
  <2>6. \A c \in InCall' : CallerKnows(c)'
    BY <1>0, <2>1, <2>2, <2>3, <2>5 DEF CallerKnows, InCall, Alive
  <2>7. ServiceListed'
    BY <1>0, <2>1, <2>2, <2>3, <2>5 DEF ServiceListed, Listed, Alive
  <2> QED BY <1>0, <2>3, <2>6, <2>7 DEF OneCaller
<1>24. ASSUME NEW p \in Procs, Serve(p) PROVE Goal
  <2>1. proc[p].state = "starting" /\ app' = app /\ lock' = lock
    BY <1>24 DEF Serve
  <2>2. PICK a \in InCall : app[a].pc \in Starting
      <3>1. p \in Alive
      BY <2>1 DEF Alive
    <3>2. \E a \in Apps : app[a].pc \notin {"idle"} \cup Probing
      BY <1>0, <2>1, <3>1 DEF ServiceListed, Listed
    <3>3. \A a \in Apps : app[a].pc \in {"idle"} \cup Probing \cup Locking \cup Starting
      BY DEF TypeOK, CallState
    <3> QED BY <1>0, <3>1, <3>2, <3>3 DEF CallerKnows, InCall
  <2>3. InCall = {a} /\ InCall' = {a} /\ CallerKnows(a)
    BY <1>0, <2>1, <2>2 DEF OneCaller, InCall
  <2>4. app[a].pc = "await"
    BY <2>1, <2>2, <2>3 DEF CallerKnows, Alive
  <2>5. Alive' \subseteq Alive /\ \A q \in Alive' : proc'[q].port = proc[q].port
    BY <1>24, ServeMoves DEF Alive
  <2> QED BY <2>1, <2>2, <2>3, <2>4, <2>5 DEF OneCaller, CallerKnows, ServiceListed, InCall
<1>25. ASSUME NEW p \in Procs, Die(p) PROVE Goal
  <2>1. app' = app /\ lock' = lock /\ packaged' = packaged
    BY <1>25 DEF Die
  <2>2. Alive' = Alive \ {p} /\ \A q \in Alive' : proc'[q] = proc[q]
    BY <1>25, RemainingType DEF Die, Alive
  <2>3. InCall' = InCall /\ \A a \in InCall : CallerKnows(a)'
    BY <1>0, <2>1, <2>2 DEF CallerKnows, InCall
  <2>4. ServiceListed'
    BY <1>0, <2>1, <2>2 DEF ServiceListed, Listed
  <2> QED BY <1>0, <2>3, <2>4 DEF OneCaller
<1>26. ASSUME UNCHANGED vars PROVE Goal
  BY <1>0, <1>26 DEF OneCaller, CallerKnows, ServiceListed, Listed, InCall, Alive, vars
<1> QED BY <1>1, <1>2, <1>3, <1>4, <1>5, <1>6, <1>7, <1>8, <1>9, <1>10, <1>11, <1>12, <1>13, <1>14, <1>15, <1>16, <1>17, <1>18, <1>19, <1>20, <1>21, <1>22, <1>23, <1>24, <1>25, <1>26 DEF Next

\* Applications whose starts do not overlap share one service, for any number of
\* them and of calls (service_manager.rs:225-268, 526-648).
THEOREM CalmAppsShare == Spec => []CalmStartsShare
<1>1. Init => CalmInv
  <2> SUFFICES ASSUME Init PROVE CalmCallers
    BY InitType DEF CalmInv
  <2>1. Alive = {} /\ InCall = {}
    BY DEF Init, Resting, Alive, InCall
  <2> QED BY <2>1 DEF CalmCallers, OneCaller, ServiceListed
<1>2. CalmInv /\ [Next]_vars => CalmInv'
  BY StepTypeInv, StepCalmCallers DEF CalmInv
<1>3. CalmInv => CalmStartsShare
  <2> SUFFICES ASSUME CalmInv, CalmCallers, Calm PROVE Cardinality(Alive) <= 1
    BY DEF CalmInv, CalmStartsShare, Calm
  <2>1. \A p \in Alive : Alive = {p}
    <3>1. CASE \A a \in Apps : app[a].pc \in {"idle"} \cup Probing
      BY <3>1 DEF CalmCallers, ServiceListed
    <3>2. CASE \E a \in Apps : app[a].pc \notin {"idle"} \cup Probing
      <4>1. PICK a \in InCall : app[a].pc \notin {"idle"} \cup Probing
        BY <3>2 DEF InCall
      <4>2. app[a].pc \in Locking \cup Starting
              BY <4>1 DEF CalmInv, TypeInv, TypeOK, CallState, InCall
      <4> QED BY <4>1, <4>2 DEF CalmCallers, CallerKnows
    <3> QED BY <3>1, <3>2
  <2>2. Alive = {} \/ \E p \in Alive : Alive = {p}
    BY <2>1
  <2>3. Cardinality(Alive) \in {0, 1}
    BY <2>2, FS_EmptySet, FS_Singleton
  <2> QED BY <2>3
<1> QED BY <1>1, <1>2, <1>3, PTL DEF Spec

=============================================================================
