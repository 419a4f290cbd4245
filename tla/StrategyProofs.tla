---------------------------- MODULE StrategyProofs -----------------------------
(***************************************************************************)
(* Proofs about strategies: how they are kept, for any number of windows,  *)
(* presets, loads and mutations in flight (part 1), and what they find,    *)
(* for any market, any days and any strategy (part 2).                     *)
(***************************************************************************)
EXTENDS SavedStrategies, Signals, FiniteSetTheorems, SequenceTheorems, TLAPS

-------------------------------------------------------------------------------
(* Part 1: the saved strategies.                                           *)

InFlight == {"waiting", "sent", "running"}

\* A mutation that is under way has an operation, an id, and a load while it
\* waits; the shell works for it while it is running.
MutationsHold ==
    \A p \in Apps :
        /\ mutation[p].pc # "idle" =>
              mutation[p].op \in {"upsert", "delete"} /\ mutation[p].id \in Ids
        /\ mutation[p].pc = "waiting" => mutation[p].awaits \in Loads
        /\ mutation[p].pc = "answered" => mutation[p].reply \in Contents \cup {Failed}
        /\ (shell[p].pc # "idle") <=> (mutation[p].pc = "running")

TypeInv == TypeOK /\ MutationsHold

\* The load that mutations will wait for is in flight.
InitialIsInFlight ==
    \A p \in Apps :
        store[p].initial \in Loads => load[p][store[p].initial].pc # "none"

WaitInv == TypeInv /\ InitialIsInFlight /\ NobodyWaitsForNothing

\* A shell writes what is on disk, changed by its command.
WritesHold ==
    \A p \in Apps : shell[p].pc = "write" => disk # Broken /\ shell[p].data = disk

\* The mutation of a page that its shell has not answered, and those behind it.
Queued(p, n, op, i) ==
    /\ n \in 1..Len(store[p].queue)
    /\ store[p].queue[n].op = op /\ store[p].queue[n].id = i
Upserting(p, i) ==
    mutation[p].pc \in InFlight /\ mutation[p].op = "upsert" /\ mutation[p].id = i
Pending(p, i) == Upserting(p, i) \/ \E n \in Nat : Queued(p, n, "upsert", i)

\* The presets somebody could know: from the file, a page, or an answer on its way.
KnownTo(p, i) ==
    \/ i \in store[p].strategies
    \/ \E k \in Loads : load[p][k].pc = "read" /\ load[p][k].data # Failed /\ i \in load[p][k].data
    \/ mutation[p].pc = "answered" /\ mutation[p].reply # Failed /\ i \in mutation[p].reply
Known(i) ==
    \/ i \in dropped
    \/ disk # Broken /\ i \in disk
    \/ \E p \in Apps : KnownTo(p, i)

\* A save that is not on disk yet is of a preset that nobody else can know.
PendingIsUnknown ==
    \A i \in Ids :
        /\ Known(i) => i \in created
        /\ \A p \in Apps : Pending(p, i) => i \in created /\ ~Known(i)

\* A preset is saved once.
SavedOnce ==
    \A i \in Ids :
        /\ \A p, q \in Apps : Pending(p, i) /\ Pending(q, i) => p = q
        /\ \A p \in Apps, n \in Nat :
              Queued(p, n, "upsert", i) =>
                  /\ ~Upserting(p, i)
                  /\ \A m \in Nat : Queued(p, m, "upsert", i) => m = n

\* What is deleted was asked to be removed.
DeletesAreAsked ==
    \A p \in Apps :
        /\ \A n \in Nat, i \in Ids : Queued(p, n, "delete", i) => i \in dropped
        /\ mutation[p].pc # "idle" /\ mutation[p].op = "delete" => mutation[p].id \in dropped
        /\ removed[p] \subseteq dropped

\* The contents c agree with everything p was told, given its answered mutation.
Agrees(p, c) == saved[p] \ dropped \subseteq c /\ removed[p] \cap c = {}
Reflects(p, c) ==
    IF mutation[p].op = "upsert" THEN mutation[p].id \in c \cup dropped ELSE mutation[p].id \notin c

\* An answer on its way, from a mutation or from a load that counts, agrees too.
AnswersAgreeFor(p) ==
    /\ mutation[p].pc = "answered" /\ mutation[p].reply # Failed =>
          /\ Agrees(p, mutation[p].reply) /\ Reflects(p, mutation[p].reply)
          /\ disk # Broken => Reflects(p, disk)
    /\ \A k \in Loads :
          store[p].current = k /\ load[p][k].pc = "read" /\ load[p][k].data # Failed =>
              Agrees(p, load[p][k].data)
AnswersAgree == \A p \in Apps : AnswersAgreeFor(p)

DiskInv ==
    /\ WaitInv /\ WritesHold
    /\ PendingIsUnknown /\ SavedOnce /\ DeletesAreAsked
    /\ AnswersAgree /\ AcknowledgedIsOnDisk /\ OwnChangesAreSeen

USE SavedStrategiesAssumption

-------------------------------------------------------------------------------
(* Types: what the operators of the model return.                           *)

LEMMA InitialStates ==
    /\ Idle \in ShellState /\ Fresh \in StoreState /\ NoMutation \in MutationState
    /\ \A k \in Loads : NoLoads[k] \in LoadState /\ NoLoads[k].pc = "none"
    /\ NoLoads \in [Loads -> LoadState]
  BY DEF Idle, Fresh, NoMutation, NoLoads, ShellState, StoreState, MutationState,
         LoadState, Contents, Loads

LEMMA SendType ==
    ASSUME TypeOK, NEW p \in Apps, NEW k \in Loads, Send(p, k)
    PROVE  /\ load' \in [Apps -> [Loads -> LoadState]]
           /\ load[p][k].pc = "none" /\ load'[p][k].pc = "sent"
           /\ \A l \in Loads : l # k => load'[p][l] = load[p][l]
           /\ \A q \in Apps : q # p => load'[q] = load[q]
<1>1. load[p] \in [Loads -> LoadState] /\ load[p][k] \in LoadState
  BY DEF TypeOK
<1>2. load' = [load EXCEPT ![p] = [load[p] EXCEPT ![k] = [load[p][k] EXCEPT !.pc = "sent"]]]
  BY <1>1 DEF TypeOK, Send
<1>3. [load[p][k] EXCEPT !.pc = "sent"] \in LoadState
      /\ [load[p][k] EXCEPT !.pc = "sent"].pc = "sent"
  BY <1>1 DEF LoadState
<1> DEFINE sent == [load[p][k] EXCEPT !.pc = "sent"]
<1> HIDE DEF sent
<1>4. [load[p] EXCEPT ![k] = sent] \in [Loads -> LoadState]
  BY <1>1, <1>3 DEF sent
<1> QED BY <1>1, <1>2, <1>3, <1>4 DEF TypeOK, Send, sent

LEMMA IssuedType ==
    ASSUME NEW s \in StoreState, NEW k \in Loads, NEW blocking \in BOOLEAN
    PROVE  LET i == Issued(s, k, blocking) IN
           /\ i \in StoreState /\ i.current = k /\ i.initial \in {k, s.initial}
           /\ i.strategies = s.strategies /\ i.queue = s.queue /\ i.reloads = s.reloads
           /\ blocking => i.initial = k
  BY DEF Issued, StoreState

LEMMA ProceedType ==
    ASSUME NEW m \in MutationState, NEW status
    PROVE  /\ Proceed(m, status) \in MutationState
           /\ \/ Proceed(m, status) = NoMutation
              \/ /\ Proceed(m, status).pc = "sent"
                 /\ Proceed(m, status).op = m.op /\ Proceed(m, status).id = m.id
                 /\ Proceed(m, status).reply = m.reply
<1>1. CASE status = "ready"
  BY <1>1 DEF Proceed, MutationState
<1>2. CASE status # "ready"
  BY <1>2, InitialStates DEF Proceed
<1> QED BY <1>1, <1>2

\* A user's step: the queue grows by one request, or a load is issued.
LEMMA EnqueueType ==
    ASSUME TypeOK, NEW p \in Apps, NEW op \in {"upsert", "delete"}, NEW id \in Ids,
           Enqueue(p, op, id)
    PROVE  /\ store' \in [Apps -> StoreState]
           /\ store'[p].queue = Append(store[p].queue, [op |-> op, id |-> id])
           /\ store'[p].initial = store[p].initial /\ store'[p].current = store[p].current
           /\ store'[p].strategies = store[p].strategies
           /\ \A q \in Apps : q # p => store'[q] = store[q]
<1>1. store[p] \in StoreState /\ [op |-> op, id |-> id] \in Request
  BY DEF TypeOK, Request
<1>2. Append(store[p].queue, [op |-> op, id |-> id]) \in Seq(Request)
  BY <1>1 DEF StoreState
<1> QED BY <1>1, <1>2 DEF TypeOK, Enqueue, StoreState

\* The head of the queue leaves it.
LEMMA DequeueType ==
    ASSUME TypeOK, NEW p \in Apps, store[p].queue # <<>>
    PROVE  LET rest == [store[p] EXCEPT !.queue = Tail(@)] IN
           /\ rest \in StoreState /\ rest.queue = Tail(store[p].queue)
           /\ rest.initial = store[p].initial /\ rest.current = store[p].current
           /\ rest.strategies = store[p].strategies
           /\ rest.status = store[p].status
           /\ Head(store[p].queue) \in Request
<1>1. store[p] \in StoreState
  BY DEF TypeOK
<1>2. Tail(store[p].queue) \in Seq(Request) /\ Head(store[p].queue) \in Request
  BY <1>1 DEF StoreState
<1> QED BY <1>1, <1>2 DEF StoreState

LEMMA AnswerType ==
    ASSUME TypeOK, NEW p \in Apps, NEW reply \in Contents \cup {Failed}, Answer(p, reply)
    PROVE  /\ lock' = None /\ shell' \in [Apps -> ShellState] /\ shell'[p].pc = "idle"
           /\ mutation' \in [Apps -> MutationState]
           /\ mutation'[p].pc = "answered" /\ mutation'[p].reply = reply
           /\ mutation'[p].op = mutation[p].op /\ mutation'[p].id = mutation[p].id
           /\ \A q \in Apps : q # p => shell'[q] = shell[q] /\ mutation'[q] = mutation[q]
<1>1. Idle \in ShellState /\ Idle.pc = "idle"
  BY InitialStates DEF Idle
<1>2. mutation' = [mutation EXCEPT ![p] = [mutation[p] EXCEPT !.pc = "answered", !.reply = reply]]
  BY DEF Answer, TypeOK
<1>3. mutation[p] \in MutationState
  BY DEF TypeOK
<1>4. [mutation[p] EXCEPT !.pc = "answered", !.reply = reply] \in MutationState
  BY <1>3 DEF MutationState
<1> QED BY <1>1, <1>2, <1>3, <1>4 DEF Answer, TypeOK, MutationState

LEMMA ChangedType ==
    ASSUME TypeInv, NEW p \in Apps, mutation[p].pc # "idle"
    PROVE  Changed(p) \in Contents
  BY DEF TypeInv, TypeOK, MutationsHold, Request, Changed, Contents, ShellState

LEMMA AcknowledgeType ==
    ASSUME TypeInv, NEW p \in Apps, mutation[p].pc = "answered", Acknowledge(p)
    PROVE  /\ saved' \in [Apps -> Contents] /\ removed' \in [Apps -> Contents]
           /\ created' = created /\ dropped' = dropped
           /\ \A q \in Apps : q # p => saved'[q] = saved[q] /\ removed'[q] = removed[q]
           /\ saved'[p] \subseteq saved[p] \cup {mutation[p].id}
           /\ removed'[p] \subseteq removed[p] \cup {mutation[p].id}
           /\ mutation[p].op = "upsert" => removed'[p] = removed[p]
           /\ mutation[p].op = "delete" => saved'[p] = saved[p]
<1>1. mutation[p].id \in Ids /\ mutation[p].op \in {"upsert", "delete"}
  BY DEF TypeInv, TypeOK, MutationsHold, Request
<1>2. /\ saved \in [Apps -> Contents] /\ removed \in [Apps -> Contents]
      /\ saved[p] \cup {mutation[p].id} \in Contents
      /\ removed[p] \cup {mutation[p].id} \in Contents
  BY <1>1 DEF TypeInv, TypeOK, Contents
<1>3. CASE mutation[p].op = "upsert"
  BY <1>2, <1>3 DEF Acknowledge
<1>4. CASE mutation[p].op = "delete"
  BY <1>2, <1>4 DEF Acknowledge
<1> QED BY <1>1, <1>3, <1>4

LEMMA InitType == Init => TypeInv
<1> SUFFICES ASSUME Init PROVE TypeOK /\ MutationsHold
  BY DEF TypeInv
<1>1. Idle.pc = "idle" /\ NoMutation.pc = "idle"
  BY DEF Idle, NoMutation
<1>2. TypeOK
  BY InitialStates DEF Init, TypeOK, Contents
<1>3. MutationsHold
  BY <1>1 DEF Init, MutationsHold
<1> QED BY <1>2, <1>3

-------------------------------------------------------------------------------
(* What each action of a page and its shell does to them.  No action but    *)
(* EditByHand touches more than one application, besides the file.          *)

Others(p) ==
    \A q \in Apps : q # p =>
        /\ shell'[q] = shell[q] /\ store'[q] = store[q] /\ load'[q] = load[q]
        /\ mutation'[q] = mutation[q] /\ saved'[q] = saved[q] /\ removed'[q] = removed[q]

\* A load of p that is new and counts, and that mutations may have to await.
Issues(p, k) ==
    /\ load[p][k].pc = "none" /\ load'[p][k].pc = "sent"
    /\ \A l \in Loads : l # k => load'[p][l] = load[p][l]
    /\ store'[p].current = k /\ store'[p].initial \in {k, store[p].initial}

SamePage(p) == store'[p].queue = store[p].queue /\ store'[p].strategies = store[p].strategies

LEMMA StartMoves ==
    ASSUME TypeInv, NEW p \in Apps, Start(p) \/ Reload(p)
    PROVE  /\ store' \in [Apps -> StoreState] /\ load' \in [Apps -> [Loads -> LoadState]]
           /\ Others(p) /\ SamePage(p)
           /\ \E k \in Loads : Issues(p, k)
           /\ UNCHANGED <<diskVars, shell, mutation, history>>
<1> USE DEF history
<1>1. TypeOK /\ store[p] \in StoreState
  BY DEF TypeInv, TypeOK
<1>2. UNCHANGED <<diskVars, shell, mutation, history>>
  BY DEF Start, Reload
<1>3. CASE Start(p)
  <2>1. PICK k \in Loads : Send(p, k) /\ store' = [store EXCEPT ![p] = Issued(@, k, TRUE)]
    BY <1>3 DEF Start
  <2> DEFINE i == Issued(store[p], k, TRUE)
  <2>2. /\ i \in StoreState /\ i.current = k /\ i.initial \in {k, store[p].initial}
        /\ i.strategies = store[p].strategies /\ i.queue = store[p].queue
    BY <1>1, IssuedType
  <2> HIDE DEF i
  <2>3. store' \in [Apps -> StoreState] /\ store'[p] = i
        /\ \A q \in Apps : q # p => store'[q] = store[q]
    BY <1>1, <2>1, <2>2 DEF TypeOK, i
  <2>. Send(p, k)
    BY <2>1
  <2>4. Issues(p, k)
    BY <1>1, <2>2, <2>3, SendType DEF Issues
  <2>5. Others(p) /\ load' \in [Apps -> [Loads -> LoadState]]
    BY <1>1, <1>2, <2>1, <2>3, SendType DEF Others
  <2> QED BY <1>2, <2>2, <2>3, <2>4, <2>5 DEF SamePage
<1>4. CASE Reload(p)
  <2>1. PICK k \in Loads, b \in BOOLEAN :
            /\ Send(p, k)
            /\ LET counted == [store[p] EXCEPT !.reloads = @ + 1] IN
               store' = [store EXCEPT ![p] = Issued(counted, k, b)]
    BY <1>4 DEF Reload
  <2> DEFINE s == [store[p] EXCEPT !.reloads = @ + 1]
             i == Issued(s, k, b)
  <2>2. /\ s \in StoreState /\ s.initial = store[p].initial
        /\ s.strategies = store[p].strategies /\ s.queue = store[p].queue
    BY <1>1, <1>4 DEF StoreState, Reload
  <2>3. store' = [store EXCEPT ![p] = i]
    BY <1>1, <2>1 DEF TypeOK
  <2> HIDE DEF s
  <2>4. /\ i \in StoreState /\ i.current = k /\ i.initial \in {k, store[p].initial}
        /\ i.strategies = store[p].strategies /\ i.queue = store[p].queue
    BY <2>2, IssuedType
  <2> HIDE DEF i
  <2>5. store' \in [Apps -> StoreState] /\ store'[p] = i
        /\ \A q \in Apps : q # p => store'[q] = store[q]
    BY <1>1, <2>3, <2>4 DEF TypeOK
  <2>6. Issues(p, k)
    BY <1>1, <2>1, <2>4, <2>5, SendType DEF Issues
  <2>7. Others(p) /\ load' \in [Apps -> [Loads -> LoadState]]
    BY <1>1, <1>2, <2>1, <2>5, SendType DEF Others
  <2> QED BY <1>2, <2>4, <2>5, <2>6, <2>7 DEF SamePage
<1> QED BY <1>2, <1>3, <1>4

LEMMA SaveMoves ==
    ASSUME TypeInv, NEW p \in Apps, Save(p)
    PROVE  /\ store' \in [Apps -> StoreState] /\ Others(p)
           /\ \E i \in Ids \ created :
                 /\ created' = created \cup {i}
                 /\ store'[p].queue = Append(store[p].queue, [op |-> "upsert", id |-> i])
           /\ store'[p].initial = store[p].initial /\ store'[p].current = store[p].current
           /\ store'[p].strategies = store[p].strategies
           /\ UNCHANGED <<diskVars, shell, load, mutation, dropped, saved, removed>>
  BY EnqueueType DEF Save, TypeInv, Others

LEMMA RemoveMoves ==
    ASSUME TypeInv, NEW p \in Apps, Remove(p)
    PROVE  /\ store' \in [Apps -> StoreState] /\ Others(p)
           /\ \E i \in store[p].strategies :
                 /\ i \in Ids /\ dropped' = dropped \cup {i}
                 /\ store'[p].queue = Append(store[p].queue, [op |-> "delete", id |-> i])
           /\ store'[p].initial = store[p].initial /\ store'[p].current = store[p].current
           /\ store'[p].strategies = store[p].strategies
           /\ UNCHANGED <<diskVars, shell, load, mutation, created, saved, removed>>
<1>1. store[p].strategies \subseteq Ids
  BY DEF TypeInv, TypeOK, StoreState, Contents
<1> QED BY <1>1, EnqueueType DEF Remove, TypeInv, Others

LEMMA AnsweredLoadMoves ==
    ASSUME TypeInv, NEW p \in Apps, NEW k \in Loads, LoadAnswered(p, k)
    PROVE  /\ store' \in [Apps -> StoreState] /\ load' \in [Apps -> [Loads -> LoadState]]
           /\ mutation' \in [Apps -> MutationState] /\ Others(p)
           /\ load[p][k].pc = "read" /\ load'[p][k].pc = "none"
           /\ \A l \in Loads : l # k => load'[p][l] = load[p][l]
           /\ store'[p].queue = store[p].queue
           /\ \/ store'[p].strategies = store[p].strategies
              \/ /\ store[p].current = k /\ load[p][k].data # Failed
                 /\ store'[p].strategies = load[p][k].data
           /\ store'[p].current = (IF store[p].current = k THEN None ELSE store[p].current)
           /\ store'[p].initial = (IF store[p].initial = k THEN Done ELSE store[p].initial)
           /\ \/ mutation'[p] = mutation[p]
                 /\ (mutation[p].pc = "waiting" => mutation[p].awaits # k)
              \/ /\ mutation[p].pc = "waiting"
                 /\ \/ mutation'[p].pc = "idle"
                    \/ /\ mutation'[p].pc = "sent" /\ mutation'[p].op = mutation[p].op
                       /\ mutation'[p].id = mutation[p].id
           /\ UNCHANGED <<diskVars, shell, history>>
<1> USE DEF history
<1>1. TypeOK /\ store[p] \in StoreState /\ mutation[p] \in MutationState
      /\ load[p] \in [Loads -> LoadState] /\ load[p][k] \in LoadState
  BY DEF TypeInv, TypeOK
<1>2. /\ load' = [load EXCEPT ![p] = [load[p] EXCEPT ![k] = NoLoads[k]]]
      /\ [load[p] EXCEPT ![k] = NoLoads[k]] \in [Loads -> LoadState]
  BY <1>1, InitialStates DEF LoadAnswered, TypeOK
<1>3. load' \in [Apps -> [Loads -> LoadState]] /\ load[p][k].pc = "read" /\ load'[p][k].pc = "none"
      /\ (\A l \in Loads : l # k => load'[p][l] = load[p][l])
      /\ \A q \in Apps : q # p => load'[q] = load[q]
  BY <1>1, <1>2, InitialStates DEF LoadAnswered, TypeOK
<1> DEFINE answer == load[p][k].data
           counts == store[p].current = k
           s == [store[p] EXCEPT
                   !.strategies = IF counts /\ answer # Failed THEN answer ELSE @,
                   !.status = IF ~counts THEN @
                              ELSE IF answer = Failed THEN "failed" ELSE "ready",
                   !.current = IF counts THEN None ELSE @,
                   !.initial = IF @ = k THEN Done ELSE @]
<1>4. store' = [store EXCEPT ![p] = s]
  BY <1>1 DEF LoadAnswered, TypeOK
<1>5. s \in StoreState
  BY <1>1 DEF StoreState, LoadState
<1>6. /\ s.queue = store[p].queue
      /\ \/ s.strategies = store[p].strategies
         \/ /\ store[p].current = k /\ load[p][k].data # Failed /\ s.strategies = load[p][k].data
      /\ s.current = (IF store[p].current = k THEN None ELSE store[p].current)
      /\ s.initial = (IF store[p].initial = k THEN Done ELSE store[p].initial)
  BY <1>1 DEF StoreState
<1> HIDE DEF s
<1>7. store' \in [Apps -> StoreState] /\ store'[p] = s
      /\ \A q \in Apps : q # p => store'[q] = store[q]
  BY <1>1, <1>4, <1>5 DEF TypeOK
<1>8. /\ mutation' \in [Apps -> MutationState]
      /\ \A q \in Apps : q # p => mutation'[q] = mutation[q]
      /\ \/ mutation'[p] = mutation[p]
            /\ (mutation[p].pc = "waiting" => mutation[p].awaits # k)
         \/ mutation[p].pc = "waiting" /\ mutation'[p] = Proceed(mutation[p], store'[p].status)
  BY <1>1, ProceedType DEF LoadAnswered, TypeOK
<1>9. \/ mutation'[p] = mutation[p]
         /\ (mutation[p].pc = "waiting" => mutation[p].awaits # k)
      \/ /\ mutation[p].pc = "waiting"
         /\ \/ mutation'[p].pc = "idle"
            \/ /\ mutation'[p].pc = "sent" /\ mutation'[p].op = mutation[p].op
               /\ mutation'[p].id = mutation[p].id
  BY <1>1, <1>8, ProceedType DEF NoMutation
<1> QED BY <1>3, <1>6, <1>7, <1>8, <1>9 DEF LoadAnswered, Others

LEMMA BeginMoves ==
    ASSUME TypeInv, NEW p \in Apps, BeginMutation(p)
    PROVE  /\ store' \in [Apps -> StoreState] /\ load' \in [Apps -> [Loads -> LoadState]]
           /\ mutation' \in [Apps -> MutationState] /\ Others(p)
           /\ mutation[p].pc = "idle" /\ store[p].queue # <<>>
           /\ store'[p].queue = Tail(store[p].queue)
           /\ store'[p].strategies = store[p].strategies
           /\ \/ mutation'[p].pc = "idle"
              \/ /\ mutation'[p].pc \in {"waiting", "sent"}
                 /\ mutation'[p].op = Head(store[p].queue).op
                 /\ mutation'[p].id = Head(store[p].queue).id
           /\ mutation'[p].pc = "waiting" =>
                 mutation'[p].awaits \in Loads /\ mutation'[p].awaits = store'[p].initial
           /\ \/ \E k \in Loads : Issues(p, k)
              \/ /\ load' = load
                 /\ store'[p].current = store[p].current /\ store'[p].initial = store[p].initial
           /\ UNCHANGED <<diskVars, shell, history>>
<1> USE DEF history
<1> DEFINE next == Head(store[p].queue)
           rest == [store[p] EXCEPT !.queue = Tail(@)]
           begun == [NoMutation EXCEPT !.op = next.op, !.id = next.id]
<1>1. TypeOK /\ store[p] \in StoreState /\ mutation[p] \in MutationState
      /\ NoMutation \in MutationState /\ NoMutation.pc = "idle"
  BY InitialStates DEF TypeInv, TypeOK, NoMutation
<1>2. mutation[p].pc = "idle" /\ store[p].queue # <<>>
      /\ UNCHANGED <<diskVars, shell, history>>
  BY DEF BeginMutation
<1>3. /\ rest \in StoreState /\ rest.queue = Tail(store[p].queue)
      /\ rest.initial = store[p].initial /\ rest.current = store[p].current
      /\ rest.strategies = store[p].strategies /\ next \in Request
  BY <1>1, <1>2, DequeueType
<1>4. begun \in MutationState /\ begun.op = next.op /\ begun.id = next.id
  BY <1>1, <1>3 DEF MutationState, Request
<1>5. \A k \in Loads :
          LET m == [begun EXCEPT !.pc = "waiting", !.awaits = k] IN
          /\ m \in MutationState /\ m.pc = "waiting" /\ m.awaits = k
          /\ m.op = next.op /\ m.id = next.id
  BY <1>4 DEF MutationState
<1>6. \A q \in Apps : q # p => store'[q] = store[q] /\ mutation'[q] = mutation[q]
  BY <1>1 DEF BeginMutation, TypeOK
<1>7. \/ /\ store[p].initial = None
         /\ \E k \in Loads :
               /\ Send(p, k)
               /\ store' = [store EXCEPT ![p] = Issued(rest, k, TRUE)]
               /\ mutation' = [mutation EXCEPT ![p] = [begun EXCEPT !.pc = "waiting", !.awaits = k]]
      \/ /\ store[p].initial \in Loads
         /\ store' = [store EXCEPT ![p] = rest]
         /\ mutation' = [mutation EXCEPT ![p] =
               [begun EXCEPT !.pc = "waiting", !.awaits = store[p].initial]]
         /\ UNCHANGED load
      \/ /\ store[p].initial = Done
         /\ store' = [store EXCEPT ![p] = rest]
         /\ mutation' = [mutation EXCEPT ![p] = Proceed(begun, rest.status)]
         /\ UNCHANGED load
  BY DEF BeginMutation
<1> HIDE DEF next, rest, begun
<1>8. ASSUME NEW k \in Loads, Send(p, k),
             store' = [store EXCEPT ![p] = Issued(rest, k, TRUE)],
             mutation' = [mutation EXCEPT ![p] = [begun EXCEPT !.pc = "waiting", !.awaits = k]]
      PROVE  /\ store' \in [Apps -> StoreState] /\ load' \in [Apps -> [Loads -> LoadState]]
             /\ mutation' \in [Apps -> MutationState] /\ Others(p) /\ Issues(p, k)
             /\ store'[p].queue = rest.queue /\ store'[p].strategies = rest.strategies
             /\ mutation'[p].pc = "waiting" /\ mutation'[p].op = next.op /\ mutation'[p].id = next.id
             /\ mutation'[p].awaits = k /\ store'[p].initial = k
  <2>1. /\ Issued(rest, k, TRUE) \in StoreState /\ Issued(rest, k, TRUE).current = k
        /\ Issued(rest, k, TRUE).initial = k
        /\ Issued(rest, k, TRUE).queue = rest.queue
        /\ Issued(rest, k, TRUE).strategies = rest.strategies
    BY <1>3, IssuedType, ZenonT(40)
  <2>2. /\ store' \in [Apps -> StoreState] /\ store'[p] = Issued(rest, k, TRUE)
        /\ mutation' \in [Apps -> MutationState]
        /\ mutation'[p] = [begun EXCEPT !.pc = "waiting", !.awaits = k]
    BY <1>1, <1>5, <1>8, <2>1 DEF TypeOK
  <2>. Send(p, k)
    BY <1>8
  <2>. DEFINE i == Issued(rest, k, TRUE)
  <2>. HIDE DEF i
  <2>3. Issues(p, k)
    <3>1. i.current = k /\ i.initial = k /\ store'[p] = i
      BY <2>1, <2>2 DEF i
    <3> QED BY <1>1, <3>1, SendType DEF Issues
  <2>4. Others(p) /\ load' \in [Apps -> [Loads -> LoadState]]
    BY <1>1, <1>2, <1>6, <1>8, SendType DEF Others
  <2> QED BY <1>5, <2>1, <2>2, <2>3, <2>4
<1>9. ASSUME store[p].initial \in Loads, store' = [store EXCEPT ![p] = rest], load' = load,
             mutation' = [mutation EXCEPT ![p] =
                 [begun EXCEPT !.pc = "waiting", !.awaits = store[p].initial]]
      PROVE  /\ store' \in [Apps -> StoreState] /\ store'[p] = rest
             /\ mutation' \in [Apps -> MutationState] /\ Others(p)
             /\ mutation'[p].pc = "waiting" /\ mutation'[p].op = next.op /\ mutation'[p].id = next.id
             /\ mutation'[p].awaits = store[p].initial
  BY <1>1, <1>2, <1>3, <1>5, <1>6, <1>9 DEF TypeOK, Others
<1>10. ASSUME store' = [store EXCEPT ![p] = rest], load' = load,
              mutation' = [mutation EXCEPT ![p] = Proceed(begun, rest.status)]
       PROVE  /\ store' \in [Apps -> StoreState] /\ store'[p] = rest
              /\ mutation' \in [Apps -> MutationState] /\ Others(p)
              /\ \/ mutation'[p].pc = "idle"
                 \/ /\ mutation'[p].pc = "sent" /\ mutation'[p].op = next.op
                    /\ mutation'[p].id = next.id
  <2>1. /\ Proceed(begun, rest.status) \in MutationState
        /\ \/ Proceed(begun, rest.status).pc = "idle"
           \/ /\ Proceed(begun, rest.status).pc = "sent"
              /\ Proceed(begun, rest.status).op = next.op
              /\ Proceed(begun, rest.status).id = next.id
    BY <1>1, <1>4, ProceedType
  <2> QED BY <1>1, <1>2, <1>3, <1>6, <1>10, <2>1 DEF TypeOK, Others
<1>11. CASE \E k \in Loads :
               /\ Send(p, k)
               /\ store' = [store EXCEPT ![p] = Issued(rest, k, TRUE)]
               /\ mutation' = [mutation EXCEPT ![p] = [begun EXCEPT !.pc = "waiting", !.awaits = k]]
  BY <1>2, <1>3, <1>8, <1>11 DEF next
<1>12. CASE /\ store[p].initial \in Loads /\ store' = [store EXCEPT ![p] = rest] /\ load' = load
            /\ mutation' = [mutation EXCEPT ![p] =
                  [begun EXCEPT !.pc = "waiting", !.awaits = store[p].initial]]
  BY <1>1, <1>2, <1>3, <1>9, <1>12 DEF next, TypeOK
<1>13. CASE /\ store' = [store EXCEPT ![p] = rest] /\ load' = load
            /\ mutation' = [mutation EXCEPT ![p] = Proceed(begun, rest.status)]
  BY <1>1, <1>2, <1>3, <1>10, <1>13 DEF next, TypeOK
<1> QED BY <1>7, <1>11, <1>12, <1>13

LEMMA MutationAnsweredMoves ==
    ASSUME TypeInv, NEW p \in Apps, MutationAnswered(p)
    PROVE  /\ store' \in [Apps -> StoreState] /\ mutation' \in [Apps -> MutationState]
           /\ saved' \in [Apps -> Contents] /\ removed' \in [Apps -> Contents]
           /\ Others(p)
           /\ mutation[p].pc = "answered" /\ mutation'[p].pc = "idle"
           /\ store'[p].queue = store[p].queue /\ store'[p].initial = store[p].initial
           /\ \/ /\ mutation[p].reply = Failed /\ UNCHANGED <<store, history>>
              \/ /\ mutation[p].reply # Failed
                 /\ store'[p].strategies = mutation[p].reply /\ store'[p].current = None
                 /\ Acknowledge(p)
           /\ UNCHANGED <<diskVars, shell, load, created, dropped>>
<1> USE DEF history
<1>1. /\ TypeOK /\ store[p] \in StoreState /\ mutation[p].pc = "answered"
      /\ mutation[p].reply \in Contents \cup {Failed}
  BY DEF TypeInv, TypeOK, MutationsHold, MutationAnswered
<1>2. /\ mutation' \in [Apps -> MutationState] /\ mutation'[p].pc = "idle"
      /\ \A q \in Apps : q # p => mutation'[q] = mutation[q]
  BY <1>1, InitialStates DEF MutationAnswered, TypeOK, NoMutation
<1>3. UNCHANGED <<diskVars, shell, load>>
  BY DEF MutationAnswered
<1>4. CASE mutation[p].reply = Failed
  BY <1>1, <1>2, <1>3, <1>4 DEF MutationAnswered, TypeOK, Others
<1>5. CASE mutation[p].reply # Failed
  <2> DEFINE s == [store[p] EXCEPT !.strategies = mutation[p].reply,
                                   !.current = None, !.status = "ready"]
  <2>1. store' = [store EXCEPT ![p] = s] /\ Acknowledge(p)
    BY <1>1, <1>5 DEF MutationAnswered, TypeOK
  <2>2. /\ s \in StoreState /\ s.queue = store[p].queue /\ s.initial = store[p].initial
        /\ s.strategies = mutation[p].reply /\ s.current = None
    BY <1>1, <1>5 DEF StoreState
  <2> HIDE DEF s
  <2>3. store' \in [Apps -> StoreState] /\ store'[p] = s
        /\ \A q \in Apps : q # p => store'[q] = store[q]
    BY <1>1, <2>1, <2>2 DEF TypeOK
  <2>4. /\ saved' \in [Apps -> Contents] /\ removed' \in [Apps -> Contents]
        /\ created' = created /\ dropped' = dropped
        /\ \A q \in Apps : q # p => saved'[q] = saved[q] /\ removed'[q] = removed[q]
    BY <1>1, <2>1, AcknowledgeType
  <2> QED BY <1>1, <1>2, <1>3, <1>5, <2>1, <2>2, <2>3, <2>4 DEF Others
<1> QED BY <1>4, <1>5

LEMMA ServeMoves ==
    ASSUME TypeInv, NEW p \in Apps, NEW k \in Loads, ServeLoad(p, k)
    PROVE  /\ load' \in [Apps -> [Loads -> LoadState]] /\ Others(p)
           /\ shell[p].pc = "idle" /\ load[p][k].pc = "sent" /\ load'[p][k].pc = "read"
           /\ \/ load'[p][k].data = Failed
              \/ disk # Broken /\ disk \in Contents /\ load'[p][k].data = disk
           /\ \A l \in Loads : l # k => load'[p][l] = load[p][l]
           /\ UNCHANGED <<diskVars, shell, store, mutation, history>>
<1> USE DEF history
<1>1. TypeOK /\ load[p] \in [Loads -> LoadState]
  BY DEF TypeInv, TypeOK
<1>2. PICK answer \in {Failed} \cup (IF disk = Broken THEN {} ELSE {disk}) :
          load' = [load EXCEPT ![p][k] = [pc |-> "read", data |-> answer]]
  BY DEF ServeLoad
<1>a. \/ answer = Failed
      \/ disk # Broken /\ disk \in Contents /\ answer = disk
  BY <1>1, <1>2 DEF TypeOK
<1>3. /\ [pc |-> "read", data |-> answer] \in LoadState
      /\ [pc |-> "read", data |-> answer].pc = "read"
      /\ [pc |-> "read", data |-> answer].data = answer
  BY <1>a DEF LoadState
<1>4. load' = [load EXCEPT ![p] = [load[p] EXCEPT ![k] = [pc |-> "read", data |-> answer]]]
  BY <1>1, <1>2 DEF TypeOK
<1>5. [load[p] EXCEPT ![k] = [pc |-> "read", data |-> answer]] \in [Loads -> LoadState]
  BY <1>1, <1>3
<1> QED BY <1>1, <1>a, <1>3, <1>4, <1>5 DEF ServeLoad, TypeOK, Others

LEMMA TakeMoves ==
    ASSUME TypeInv, NEW p \in Apps, TakeCommand(p)
    PROVE  /\ shell' \in [Apps -> ShellState] /\ mutation' \in [Apps -> MutationState]
           /\ Others(p)
           /\ shell[p].pc = "idle" /\ shell'[p].pc = "acquire"
           /\ mutation[p].pc = "sent" /\ mutation'[p].pc = "running"
           /\ mutation'[p].op = mutation[p].op /\ mutation'[p].id = mutation[p].id
           /\ UNCHANGED <<diskVars, store, load, history>>
<1> USE DEF history
<1>1. TypeOK /\ shell[p] \in ShellState /\ mutation[p] \in MutationState
  BY DEF TypeInv, TypeOK
<1>2. /\ [shell[p] EXCEPT !.pc = "acquire"] \in ShellState
      /\ [mutation[p] EXCEPT !.pc = "running"] \in MutationState
  BY <1>1 DEF ShellState, MutationState
<1> QED BY <1>1, <1>2 DEF TakeCommand, TypeOK, Others, ShellState, MutationState

LEMMA AcquireMoves ==
    ASSUME TypeInv, NEW p \in Apps, AcquireLock(p)
    PROVE  /\ shell' \in [Apps -> ShellState] /\ Others(p)
           /\ shell[p].pc = "acquire" /\ shell'[p].pc = "read"
           /\ lock = None /\ lock' = p
           /\ UNCHANGED <<disk, storeVars, history>>
<1> USE DEF history, storeVars
<1>1. TypeOK /\ shell[p] \in ShellState
  BY DEF TypeInv, TypeOK
<1>2. [shell[p] EXCEPT !.pc = "read"] \in ShellState
  BY <1>1 DEF ShellState
<1> QED BY <1>1, <1>2 DEF AcquireLock, TypeOK, Others, ShellState

LEMMA ReadMoves ==
    ASSUME TypeInv, NEW p \in Apps, ReadFile(p), mutation[p].pc = "running"
    PROVE  /\ shell' \in [Apps -> ShellState] /\ mutation' \in [Apps -> MutationState]
           /\ Others(p) /\ shell[p].pc = "read"
           /\ \/ /\ \/ mutation'[p].reply = Failed
                    \/ /\ disk # Broken /\ mutation[p].op = "delete" /\ mutation[p].id \notin disk
                       /\ mutation'[p].reply = disk
                 /\ lock' = None /\ shell'[p].pc = "idle" /\ mutation'[p].pc = "answered"
                 /\ mutation'[p].op = mutation[p].op /\ mutation'[p].id = mutation[p].id
                 /\ mutation'[p].reply \in Contents \cup {Failed}
              \/ /\ disk # Broken
                 /\ shell'[p].pc = "write" /\ shell'[p].data = disk
                 /\ UNCHANGED <<lock, mutation>>
           /\ UNCHANGED <<disk, store, load, history>>
<1> USE DEF history
<1>1. TypeOK /\ shell[p] \in ShellState
  BY DEF TypeInv, TypeOK
<1>2. shell[p].pc = "read" /\ UNCHANGED <<disk, store, load, history>>
  BY DEF ReadFile
<1>3. CASE Answer(p, Failed)
  BY <1>1, <1>2, <1>3, AnswerType DEF Others
<1>4. CASE disk # Broken /\ mutation[p].op = "delete" /\ mutation[p].id \notin disk
           /\ Answer(p, disk)
  <2>1. disk \in Contents
    BY <1>1, <1>4 DEF TypeOK
  <2> QED BY <1>1, <1>2, <1>4, <2>1, AnswerType DEF Others
<1>5. CASE /\ disk # Broken
           /\ shell' = [shell EXCEPT ![p] = [pc |-> "write", data |-> disk]]
           /\ UNCHANGED <<lock, mutation>>
  <2>1. [pc |-> "write", data |-> disk] \in ShellState
    BY <1>1, <1>5 DEF TypeOK, ShellState
  <2> QED BY <1>1, <1>2, <1>5, <2>1 DEF TypeOK, Others
<1> QED BY <1>3, <1>4, <1>5 DEF ReadFile

LEMMA WriteMoves ==
    ASSUME TypeInv, NEW p \in Apps, WriteFile(p), mutation[p].pc = "running"
    PROVE  /\ shell' \in [Apps -> ShellState] /\ mutation' \in [Apps -> MutationState]
           /\ Others(p) /\ shell[p].pc = "write"
           /\ \/ disk' = Changed(p) /\ mutation'[p].reply = Changed(p)
              \/ disk' = disk /\ mutation'[p].reply = Failed
           /\ Changed(p) \in Contents /\ mutation'[p].reply \in Contents \cup {Failed}
           /\ lock' = None /\ shell'[p].pc = "idle" /\ mutation'[p].pc = "answered"
           /\ mutation'[p].op = mutation[p].op /\ mutation'[p].id = mutation[p].id
           /\ UNCHANGED <<store, load, history>>
<1> USE DEF history
<1>1. TypeOK /\ Changed(p) \in Contents
  BY ChangedType DEF TypeInv
<1>2. shell[p].pc = "write" /\ UNCHANGED <<store, load, history>>
  BY DEF WriteFile
<1>3. CASE disk' = Changed(p) /\ Answer(p, Changed(p))
  BY <1>1, <1>2, <1>3, AnswerType DEF Others
<1>4. CASE disk' = disk /\ Answer(p, Failed)
  BY <1>1, <1>2, <1>4, AnswerType DEF Others
<1> QED BY <1>3, <1>4 DEF WriteFile

LEMMA CrashMoves ==
    ASSUME TypeInv, NEW p \in Apps, Crash(p)
    PROVE  /\ shell' \in [Apps -> ShellState] /\ mutation' \in [Apps -> MutationState]
           /\ store' \in [Apps -> StoreState] /\ load' \in [Apps -> [Loads -> LoadState]]
           /\ saved' \in [Apps -> Contents] /\ removed' \in [Apps -> Contents]
           /\ Others(p)
           /\ lock' = (IF lock = p THEN None ELSE lock)
           /\ shell'[p].pc = "idle" /\ mutation'[p].pc = "idle"
           /\ store'[p].queue = <<>> /\ store'[p].strategies = {}
           /\ store'[p].initial = None /\ store'[p].current = None
           /\ \A k \in Loads : load'[p][k].pc = "none"
           /\ saved'[p] = {} /\ removed'[p] = {}
           /\ UNCHANGED <<disk, created, dropped>>
<1>1. TypeOK /\ {} \in Contents
  BY DEF TypeInv, TypeOK, Contents
<1>2. /\ Idle.pc = "idle" /\ NoMutation.pc = "idle" /\ Fresh.queue = <<>>
      /\ Fresh.strategies = {} /\ Fresh.initial = None /\ Fresh.current = None
  BY DEF Idle, NoMutation, Fresh
<1> QED BY <1>1, <1>2, InitialStates DEF Crash, TypeOK, Others

-------------------------------------------------------------------------------
(* Type correctness.                                                        *)

LEMMA StepType == TypeInv /\ [Next]_vars => TypeOK'
<1> SUFFICES ASSUME TypeInv, [Next]_vars PROVE TypeOK'
  OBVIOUS
<1>0. TypeOK /\ \A p \in Apps : shell[p].pc # "idle" => mutation[p].pc = "running"
  BY DEF TypeInv, MutationsHold
<1> USE DEF diskVars, storeVars, history
<1>1. ASSUME NEW p \in Apps, Start(p) \/ Reload(p) PROVE TypeOK'
  BY <1>0, <1>1, StartMoves DEF TypeOK
<1>2. ASSUME NEW p \in Apps, Save(p) PROVE TypeOK'
  BY <1>0, <1>2, SaveMoves DEF TypeOK
<1>3. ASSUME NEW p \in Apps, Remove(p) PROVE TypeOK'
  BY <1>0, <1>3, RemoveMoves DEF TypeOK
<1>4. ASSUME NEW p \in Apps, NEW k \in Loads, LoadAnswered(p, k) PROVE TypeOK'
  BY <1>0, <1>4, AnsweredLoadMoves DEF TypeOK
<1>5. ASSUME NEW p \in Apps, BeginMutation(p) PROVE TypeOK'
  BY <1>0, <1>5, BeginMoves DEF TypeOK
<1>6. ASSUME NEW p \in Apps, MutationAnswered(p) PROVE TypeOK'
  BY <1>0, <1>6, MutationAnsweredMoves DEF TypeOK
<1>7. ASSUME NEW p \in Apps, NEW k \in Loads, ServeLoad(p, k) PROVE TypeOK'
  BY <1>0, <1>7, ServeMoves DEF TypeOK
<1>8. ASSUME NEW p \in Apps, TakeCommand(p) PROVE TypeOK'
  BY <1>0, <1>8, TakeMoves DEF TypeOK
<1>9. ASSUME NEW p \in Apps, ReadFile(p) PROVE TypeOK'
  BY <1>0, <1>9, ReadMoves DEF TypeOK, ReadFile
<1>10. ASSUME NEW p \in Apps, WriteFile(p) PROVE TypeOK'
  BY <1>0, <1>10, WriteMoves DEF TypeOK, WriteFile
<1>11. ASSUME NEW p \in Apps, AcquireLock(p) PROVE TypeOK'
  BY <1>0, <1>11, AcquireMoves DEF TypeOK
<1>12. ASSUME NEW p \in Apps, Crash(p) PROVE TypeOK'
  BY <1>0, <1>12, CrashMoves DEF TypeOK
<1>13. CASE EditByHand
  BY <1>0, <1>13 DEF EditByHand, TypeOK
<1>14. CASE UNCHANGED vars
  BY <1>0, <1>14 DEF vars, diskVars, storeVars, TypeOK
<1> QED BY <1>1, <1>2, <1>3, <1>4, <1>5, <1>6, <1>7, <1>8, <1>9, <1>10, <1>11, <1>12, <1>13, <1>14
    DEF Next, User, Page, Shell

LEMMA StepMutations == TypeInv /\ [Next]_vars => MutationsHold'
<1> SUFFICES ASSUME TypeInv, [Next]_vars PROVE MutationsHold'
  OBVIOUS
<1>0. TypeOK /\ MutationsHold
  BY DEF TypeInv
<1> USE DEF diskVars, storeVars, history
<1>1. ASSUME NEW p \in Apps, Start(p) \/ Reload(p) PROVE MutationsHold'
  BY <1>0, <1>1, StartMoves DEF MutationsHold, Others
<1>2. ASSUME NEW p \in Apps, Save(p) PROVE MutationsHold'
  BY <1>0, <1>2, SaveMoves DEF MutationsHold, Others
<1>3. ASSUME NEW p \in Apps, Remove(p) PROVE MutationsHold'
  BY <1>0, <1>3, RemoveMoves DEF MutationsHold, Others
<1>4. ASSUME NEW p \in Apps, NEW k \in Loads, LoadAnswered(p, k) PROVE MutationsHold'
  BY <1>0, <1>4, AnsweredLoadMoves DEF MutationsHold, Others
<1>5. ASSUME NEW p \in Apps, BeginMutation(p) PROVE MutationsHold'
  <2>1. Head(store[p].queue) \in Request
    BY <1>0, <1>5, BeginMoves, DequeueType
  <2> QED BY <1>0, <2>1, <1>5, BeginMoves DEF MutationsHold, Others, Request
<1>6. ASSUME NEW p \in Apps, MutationAnswered(p) PROVE MutationsHold'
  BY <1>0, <1>6, MutationAnsweredMoves DEF MutationsHold, Others
<1>7. ASSUME NEW p \in Apps, NEW k \in Loads, ServeLoad(p, k) PROVE MutationsHold'
  BY <1>0, <1>7, ServeMoves DEF MutationsHold, Others
<1>8. ASSUME NEW p \in Apps, TakeCommand(p) PROVE MutationsHold'
  BY <1>0, <1>8, TakeMoves DEF MutationsHold, Others
<1>9. ASSUME NEW p \in Apps, ReadFile(p) PROVE MutationsHold'
  BY <1>0, <1>9, ReadMoves DEF MutationsHold, Others, ReadFile
<1>10. ASSUME NEW p \in Apps, WriteFile(p) PROVE MutationsHold'
  BY <1>0, <1>10, WriteMoves DEF MutationsHold, Others, WriteFile
<1>11. ASSUME NEW p \in Apps, AcquireLock(p) PROVE MutationsHold'
  BY <1>0, <1>11, AcquireMoves DEF MutationsHold, Others
<1>12. ASSUME NEW p \in Apps, Crash(p) PROVE MutationsHold'
  BY <1>0, <1>12, CrashMoves DEF MutationsHold, Others
<1>13. CASE EditByHand
  BY <1>0, <1>13 DEF EditByHand, MutationsHold, Others
<1>14. CASE UNCHANGED vars
  BY <1>0, <1>14 DEF vars, diskVars, storeVars, MutationsHold, Others
<1> QED BY <1>1, <1>2, <1>3, <1>4, <1>5, <1>6, <1>7, <1>8, <1>9, <1>10, <1>11, <1>12, <1>13, <1>14
    DEF Next, User, Page, Shell

\* The store of each window, its loads and its shell, and the file keep their types
\* (savedStrategyStore.ts:42-198, commands.rs:204-244).
THEOREM TypeCorrect == Spec => []TypeInv
<1>1. TypeInv /\ [Next]_vars => TypeInv'
  BY StepType, StepMutations DEF TypeInv
<1> QED BY InitType, <1>1, PTL DEF Spec

-------------------------------------------------------------------------------
(* The lock, and the loads that mutations wait for.                         *)

LEMMA InitWait == Init => WaitInv
  BY InitType DEF Init, WaitInv, InitialIsInFlight, NobodyWaitsForNothing, Idle, Fresh, NoMutation, NoLoads

LEMMA StepInitial == WaitInv /\ [Next]_vars => InitialIsInFlight'
<1> SUFFICES ASSUME TypeInv, InitialIsInFlight, [Next]_vars PROVE InitialIsInFlight'
  BY DEF WaitInv
<1>0. /\ TypeOK /\ \A p \in Apps : shell[p].pc # "idle" => mutation[p].pc = "running"
      /\ \A p \in Apps : store[p] \in StoreState
  BY DEF TypeInv, TypeOK, MutationsHold
<1> USE DEF diskVars, storeVars, history
<1>1. ASSUME NEW p \in Apps, Start(p) \/ Reload(p) PROVE InitialIsInFlight'
  BY <1>0, <1>1, StartMoves DEF InitialIsInFlight, Others, Issues
<1>2. ASSUME NEW p \in Apps, Save(p) PROVE InitialIsInFlight'
  BY <1>0, <1>2, SaveMoves DEF InitialIsInFlight, Others
<1>3. ASSUME NEW p \in Apps, Remove(p) PROVE InitialIsInFlight'
  BY <1>0, <1>3, RemoveMoves DEF InitialIsInFlight, Others
<1>4. ASSUME NEW p \in Apps, NEW k \in Loads, LoadAnswered(p, k) PROVE InitialIsInFlight'
  BY <1>0, <1>4, AnsweredLoadMoves DEF InitialIsInFlight, Others
<1>5. ASSUME NEW p \in Apps, BeginMutation(p) PROVE InitialIsInFlight'
  BY <1>0, <1>5, BeginMoves DEF InitialIsInFlight, Others, Issues
<1>6. ASSUME NEW p \in Apps, MutationAnswered(p) PROVE InitialIsInFlight'
  BY <1>0, <1>6, MutationAnsweredMoves DEF InitialIsInFlight, Others
<1>7. ASSUME NEW p \in Apps, NEW k \in Loads, ServeLoad(p, k) PROVE InitialIsInFlight'
  BY <1>0, <1>7, ServeMoves DEF InitialIsInFlight, Others
<1>8. ASSUME NEW p \in Apps, TakeCommand(p) PROVE InitialIsInFlight'
  BY <1>0, <1>8, TakeMoves DEF InitialIsInFlight, Others
<1>9. ASSUME NEW p \in Apps, ReadFile(p) PROVE InitialIsInFlight'
  BY <1>0, <1>9, ReadMoves DEF InitialIsInFlight, Others, ReadFile
<1>10. ASSUME NEW p \in Apps, WriteFile(p) PROVE InitialIsInFlight'
  BY <1>0, <1>10, WriteMoves DEF InitialIsInFlight, Others, WriteFile
<1>11. ASSUME NEW p \in Apps, AcquireLock(p) PROVE InitialIsInFlight'
  BY <1>0, <1>11, AcquireMoves DEF InitialIsInFlight, Others
<1>12. ASSUME NEW p \in Apps, Crash(p) PROVE InitialIsInFlight'
  BY <1>0, <1>12, CrashMoves DEF InitialIsInFlight, Others
<1>13. CASE EditByHand
  BY <1>0, <1>13 DEF EditByHand, InitialIsInFlight, Others
<1>14. CASE UNCHANGED vars
  BY <1>0, <1>14 DEF vars, diskVars, storeVars, InitialIsInFlight, Others
<1> QED BY <1>1, <1>2, <1>3, <1>4, <1>5, <1>6, <1>7, <1>8, <1>9, <1>10, <1>11, <1>12, <1>13, <1>14
    DEF Next, User, Page, Shell

LEMMA StepWait == WaitInv /\ [Next]_vars => NobodyWaitsForNothing'
<1> SUFFICES ASSUME TypeInv, InitialIsInFlight, NobodyWaitsForNothing, [Next]_vars
             PROVE NobodyWaitsForNothing'
  BY DEF WaitInv
<1>a. InitialIsInFlight'
  BY StepInitial DEF WaitInv
<1>0. /\ \A p \in Apps : /\ shell[p].pc # "idle" => mutation[p].pc = "running"
                         /\ mutation[p].pc = "waiting" => mutation[p].awaits \in Loads
      /\ lock \in Apps \cup {None}
  BY DEF TypeInv, TypeOK, MutationsHold
<1> USE DEF diskVars, storeVars, history
<1>1. ASSUME NEW p \in Apps, Start(p) \/ Reload(p) PROVE NobodyWaitsForNothing'
  BY <1>0, <1>1, StartMoves DEF NobodyWaitsForNothing, Others, Issues
<1>2. ASSUME NEW p \in Apps, Save(p) PROVE NobodyWaitsForNothing'
  BY <1>0, <1>2, SaveMoves DEF NobodyWaitsForNothing, Others
<1>3. ASSUME NEW p \in Apps, Remove(p) PROVE NobodyWaitsForNothing'
  BY <1>0, <1>3, RemoveMoves DEF NobodyWaitsForNothing, Others
<1>4. ASSUME NEW p \in Apps, NEW k \in Loads, LoadAnswered(p, k) PROVE NobodyWaitsForNothing'
  BY <1>0, <1>4, AnsweredLoadMoves DEF NobodyWaitsForNothing, Others
<1>5. ASSUME NEW p \in Apps, BeginMutation(p) PROVE NobodyWaitsForNothing'
  BY <1>0, <1>a, <1>5, BeginMoves DEF NobodyWaitsForNothing, InitialIsInFlight, Others, Issues
<1>6. ASSUME NEW p \in Apps, MutationAnswered(p) PROVE NobodyWaitsForNothing'
  BY <1>0, <1>6, MutationAnsweredMoves DEF NobodyWaitsForNothing, Others
<1>7. ASSUME NEW p \in Apps, NEW k \in Loads, ServeLoad(p, k) PROVE NobodyWaitsForNothing'
  BY <1>0, <1>7, ServeMoves DEF NobodyWaitsForNothing, Others
<1>8. ASSUME NEW p \in Apps, TakeCommand(p) PROVE NobodyWaitsForNothing'
  BY <1>0, <1>8, TakeMoves DEF NobodyWaitsForNothing, Others
<1>9. ASSUME NEW p \in Apps, ReadFile(p) PROVE NobodyWaitsForNothing'
  BY <1>0, <1>9, ReadMoves DEF NobodyWaitsForNothing, Others, ReadFile
<1>10. ASSUME NEW p \in Apps, WriteFile(p) PROVE NobodyWaitsForNothing'
  BY <1>0, <1>10, WriteMoves DEF NobodyWaitsForNothing, Others, WriteFile
<1>11. ASSUME NEW p \in Apps, AcquireLock(p) PROVE NobodyWaitsForNothing'
  BY <1>0, <1>11, AcquireMoves DEF NobodyWaitsForNothing, Others
<1>12. ASSUME NEW p \in Apps, Crash(p) PROVE NobodyWaitsForNothing'
  <2>1. ASSUME NEW q \in Apps PROVE mutation'[q].pc = "waiting" => load'[q][mutation'[q].awaits].pc # "none"
    BY <1>12, CrashMoves DEF NobodyWaitsForNothing, Others
  <2>2. ASSUME NEW q \in Apps PROVE (lock' = q) <=> (shell'[q].pc \in {"read", "write"})
    BY <1>0, <1>12, CrashMoves DEF NobodyWaitsForNothing, Others
  <2> QED BY <2>1, <2>2 DEF NobodyWaitsForNothing
<1>13. CASE EditByHand
  BY <1>0, <1>13 DEF EditByHand, NobodyWaitsForNothing, Others
<1>14. CASE UNCHANGED vars
  BY <1>0, <1>14 DEF vars, diskVars, storeVars, NobodyWaitsForNothing, Others
<1> QED BY <1>1, <1>2, <1>3, <1>4, <1>5, <1>6, <1>7, <1>8, <1>9, <1>10, <1>11, <1>12, <1>13, <1>14
    DEF Next, User, Page, Shell

\* A mutation that waits for a load waits for one that will be answered, and the
\* lock is held by the shell that will drop it (savedStrategyStore.ts:165-198,
\* commands.rs:239-244).
THEOREM NobodyWaits == Spec => []NobodyWaitsForNothing
<1>1. WaitInv /\ [Next]_vars => WaitInv'
  BY StepType, StepMutations, StepInitial, StepWait DEF WaitInv, TypeInv
<1>2. WaitInv => NobodyWaitsForNothing
  BY DEF WaitInv
<1> QED BY InitWait, <1>1, <1>2, PTL DEF Spec

-------------------------------------------------------------------------------
(* What waits in the queues.                                                *)

LEMMA AppendQueue ==
    ASSUME TypeOK, NEW p \in Apps, NEW op \in {"upsert", "delete"}, NEW i \in Ids,
           store'[p].queue = Append(store[p].queue, [op |-> op, id |-> i])
    PROVE  \A n \in Nat, o \in {"upsert", "delete"}, j \in Ids :
               Queued(p, n, o, j)' <=>
                   \/ Queued(p, n, o, j)
                   \/ n = Len(store[p].queue) + 1 /\ o = op /\ j = i
<1>1. store[p].queue \in Seq(Request) /\ [op |-> op, id |-> i] \in Request
  BY DEF TypeOK, StoreState, Request
<1> QED BY <1>1 DEF Queued

LEMMA TailQueue ==
    ASSUME TypeOK, NEW p \in Apps, store[p].queue # <<>>,
           store'[p].queue = Tail(store[p].queue)
    PROVE  /\ \A n \in Nat, o \in {"upsert", "delete"}, j \in Ids :
                 Queued(p, n, o, j)' <=> n # 0 /\ Queued(p, n + 1, o, j)
           /\ Queued(p, 1, Head(store[p].queue).op, Head(store[p].queue).id)
           /\ Head(store[p].queue).op \in {"upsert", "delete"} /\ Head(store[p].queue).id \in Ids
<1>1. store[p].queue \in Seq(Request)
  BY DEF TypeOK, StoreState, Request
<1>2. Head(store[p].queue) \in Request /\ Head(store[p].queue) = store[p].queue[1]
      /\ Len(store[p].queue) \in Nat \ {0}
  BY <1>1
<1> QED BY <1>1, <1>2, SMTT(30) DEF Queued, Request

LEMMA SameQueue ==
    ASSUME NEW p, store'[p].queue = store[p].queue
    PROVE  \A n, o, j : Queued(p, n, o, j)' <=> Queued(p, n, o, j)
  BY DEF Queued

LEMMA EmptyQueue ==
    ASSUME NEW p, store'[p].queue = <<>>
    PROVE  \A n, o, j : ~Queued(p, n, o, j)'
  BY DEF Queued

\* Only a step of the lock's holder, or a hand, changes the file.
LEMMA StepWrites == WaitInv /\ WritesHold /\ [Next]_vars => WritesHold'
<1> SUFFICES ASSUME WaitInv, WritesHold, [Next]_vars PROVE WritesHold'
  OBVIOUS
<1>0. /\ TypeInv /\ TypeOK
      /\ \A p \in Apps : /\ shell[p].pc # "idle" => mutation[p].pc = "running"
                         /\ mutation[p].pc # "idle" => mutation[p].op \in {"upsert", "delete"}
                                                       /\ mutation[p].id \in Ids
      /\ \A p \in Apps : (lock = p) <=> (shell[p].pc \in {"read", "write"})
  BY DEF WaitInv, TypeInv, MutationsHold, NobodyWaitsForNothing
<1> USE DEF diskVars, storeVars, history
<1>1. ASSUME NEW p \in Apps, Start(p) \/ Reload(p) PROVE WritesHold'
  BY <1>0, <1>1, StartMoves DEF WritesHold, Others
<1>2. ASSUME NEW p \in Apps, Save(p) PROVE WritesHold'
  BY <1>0, <1>2, SaveMoves DEF WritesHold, Others
<1>3. ASSUME NEW p \in Apps, Remove(p) PROVE WritesHold'
  BY <1>0, <1>3, RemoveMoves DEF WritesHold, Others
<1>4. ASSUME NEW p \in Apps, NEW k \in Loads, LoadAnswered(p, k) PROVE WritesHold'
  BY <1>0, <1>4, AnsweredLoadMoves DEF WritesHold, Others
<1>5. ASSUME NEW p \in Apps, BeginMutation(p) PROVE WritesHold'
  BY <1>0, <1>5, BeginMoves DEF WritesHold, Others
<1>6. ASSUME NEW p \in Apps, MutationAnswered(p) PROVE WritesHold'
  BY <1>0, <1>6, MutationAnsweredMoves DEF WritesHold, Others
<1>7. ASSUME NEW p \in Apps, NEW k \in Loads, ServeLoad(p, k) PROVE WritesHold'
  BY <1>0, <1>7, ServeMoves DEF WritesHold, Others
<1>8. ASSUME NEW p \in Apps, TakeCommand(p) PROVE WritesHold'
  BY <1>0, <1>8, TakeMoves DEF WritesHold, Others
<1>9. ASSUME NEW p \in Apps, ReadFile(p) PROVE WritesHold'
  BY <1>0, <1>9, ReadMoves DEF WritesHold, Others, ReadFile
<1>10. ASSUME NEW p \in Apps, WriteFile(p) PROVE WritesHold'
  BY <1>0, <1>10, WriteMoves DEF WritesHold, Others, WriteFile
<1>11. ASSUME NEW p \in Apps, AcquireLock(p) PROVE WritesHold'
  BY <1>0, <1>11, AcquireMoves DEF WritesHold, Others
<1>12. ASSUME NEW p \in Apps, Crash(p) PROVE WritesHold'
  BY <1>0, <1>12, CrashMoves DEF WritesHold, Others
<1>13. CASE EditByHand
  BY <1>0, <1>13 DEF EditByHand, WritesHold, Others
<1>14. CASE UNCHANGED vars
  BY <1>0, <1>14 DEF vars, diskVars, storeVars, WritesHold, Others
<1> QED BY <1>1, <1>2, <1>3, <1>4, <1>5, <1>6, <1>7, <1>8, <1>9, <1>10, <1>11, <1>12, <1>13, <1>14
    DEF Next, User, Page, Shell

LEMMA StepDeletes == WaitInv /\ DeletesAreAsked /\ [Next]_vars => DeletesAreAsked'
<1> SUFFICES ASSUME WaitInv, DeletesAreAsked, [Next]_vars PROVE DeletesAreAsked'
  OBVIOUS
<1>0. /\ TypeInv /\ TypeOK
      /\ \A p \in Apps : /\ shell[p].pc # "idle" => mutation[p].pc = "running"
                         /\ mutation[p].pc # "idle" => mutation[p].op \in {"upsert", "delete"}
                                                       /\ mutation[p].id \in Ids
      /\ \A p \in Apps : (lock = p) <=> (shell[p].pc \in {"read", "write"})
  BY DEF WaitInv, TypeInv, MutationsHold, NobodyWaitsForNothing
<1> USE DEF diskVars, storeVars, history
<1>1. ASSUME NEW p \in Apps, Start(p) \/ Reload(p) PROVE DeletesAreAsked'
  BY <1>0, <1>1, StartMoves DEF DeletesAreAsked, Queued, Others, SamePage
<1>2. ASSUME NEW p \in Apps, Save(p) PROVE DeletesAreAsked'
  <2>1. PICK i \in Ids \ created :
            store'[p].queue = Append(store[p].queue, [op |-> "upsert", id |-> i])
    BY <1>2, <1>0, SaveMoves
  <2>2. \A n \in Nat, j \in Ids : Queued(p, n, "delete", j)' <=> Queued(p, n, "delete", j)
    BY <1>0, <2>1, AppendQueue
  <2>3. \A n, j : \A q \in Apps : q # p => (Queued(q, n, "delete", j)' <=> Queued(q, n, "delete", j))
    BY <1>2, <1>0, SaveMoves DEF Others, Queued
  <2> QED BY <1>2, <1>0, <2>2, <2>3, SaveMoves DEF DeletesAreAsked
<1>3. ASSUME NEW p \in Apps, Remove(p) PROVE DeletesAreAsked'
  <2>1. PICK i \in store[p].strategies :
            /\ i \in Ids /\ dropped' = dropped \cup {i}
            /\ store'[p].queue = Append(store[p].queue, [op |-> "delete", id |-> i])
    BY <1>3, <1>0, RemoveMoves
  <2>2. \A n \in Nat, j \in Ids : Queued(p, n, "delete", j)' => Queued(p, n, "delete", j) \/ j = i
    BY <1>0, <2>1, AppendQueue
  <2>3. \A n, j : \A q \in Apps : q # p => (Queued(q, n, "delete", j)' <=> Queued(q, n, "delete", j))
    BY <1>3, <1>0, RemoveMoves DEF Others, Queued
  <2> QED BY <1>3, <1>0, <2>1, <2>2, <2>3, RemoveMoves DEF DeletesAreAsked
<1>4. ASSUME NEW p \in Apps, NEW k \in Loads, LoadAnswered(p, k) PROVE DeletesAreAsked'
  <2>1. \A n, j : \A q \in Apps : Queued(q, n, "delete", j)' <=> Queued(q, n, "delete", j)
    BY <1>4, <1>0, AnsweredLoadMoves, SMTT(30) DEF Others, Queued
  <2> QED BY <1>4, <1>0, <2>1, AnsweredLoadMoves DEF DeletesAreAsked, Others
<1>5. ASSUME NEW p \in Apps, BeginMutation(p) PROVE DeletesAreAsked'
  <2>1. store[p].queue # <<>> /\ store'[p].queue = Tail(store[p].queue)
    BY <1>5, <1>0, BeginMoves
  <2> DEFINE next == Head(store[p].queue)
  <2>2. /\ \A n \in Nat, j \in Ids : Queued(p, n, "delete", j)' => Queued(p, n + 1, "delete", j)
        /\ Queued(p, 1, next.op, next.id) /\ next.id \in Ids
    BY <1>0, <2>1, TailQueue
  <2>3. \A n, j : \A q \in Apps : q # p => (Queued(q, n, "delete", j)' <=> Queued(q, n, "delete", j))
    BY <1>5, <1>0, BeginMoves DEF Others, Queued
  <2>4. next.op = "delete" => next.id \in dropped
    BY <2>2 DEF DeletesAreAsked
  <2>5. \A n \in Nat, j \in Ids : Queued(p, n, "delete", j)' => j \in dropped
    BY <2>2 DEF DeletesAreAsked
  <2> HIDE DEF next
  <2>6. \/ mutation'[p].pc = "idle"
        \/ mutation'[p].op = next.op /\ mutation'[p].id = next.id
    BY <1>5, <1>0, BeginMoves DEF next
  <2> QED BY <1>5, <1>0, <2>3, <2>4, <2>5, <2>6, BeginMoves DEF DeletesAreAsked, Others
<1>6. ASSUME NEW p \in Apps, MutationAnswered(p) PROVE DeletesAreAsked'
  <2>1. \A n, j : \A q \in Apps : Queued(q, n, "delete", j)' <=> Queued(q, n, "delete", j)
    BY <1>6, <1>0, MutationAnsweredMoves DEF Others, Queued
  <2>2. removed'[p] \subseteq dropped
    BY <1>6, <1>0, MutationAnsweredMoves, AcknowledgeType DEF DeletesAreAsked
  <2> QED BY <1>6, <1>0, <2>1, <2>2, MutationAnsweredMoves DEF DeletesAreAsked, Others
<1>7. ASSUME NEW p \in Apps, NEW k \in Loads, ServeLoad(p, k) PROVE DeletesAreAsked'
  BY <1>0, <1>7, ServeMoves, SMTT(30) DEF DeletesAreAsked, Queued, Others
<1>8. ASSUME NEW p \in Apps, TakeCommand(p) PROVE DeletesAreAsked'
  BY <1>0, <1>8, TakeMoves DEF DeletesAreAsked, Queued, Others
<1>9. ASSUME NEW p \in Apps, ReadFile(p) PROVE DeletesAreAsked'
  BY <1>0, <1>9, ReadMoves DEF DeletesAreAsked, Queued, Others, ReadFile
<1>10. ASSUME NEW p \in Apps, WriteFile(p) PROVE DeletesAreAsked'
  BY <1>0, <1>10, WriteMoves DEF DeletesAreAsked, Queued, Others, WriteFile
<1>11. ASSUME NEW p \in Apps, AcquireLock(p) PROVE DeletesAreAsked'
  BY <1>0, <1>11, AcquireMoves DEF DeletesAreAsked, Queued, Others
<1>12. ASSUME NEW p \in Apps, Crash(p) PROVE DeletesAreAsked'
  <2>1. \A n, j : \A q \in Apps : Queued(q, n, "delete", j)' => Queued(q, n, "delete", j)
    BY <1>12, <1>0, CrashMoves DEF Others, Queued
  <2> QED BY <1>12, <1>0, <2>1, CrashMoves DEF DeletesAreAsked, Others
<1>13. CASE EditByHand
  BY <1>0, <1>13 DEF EditByHand, DeletesAreAsked, Queued, Others
<1>14. CASE UNCHANGED vars
  BY <1>0, <1>14 DEF vars, diskVars, storeVars, DeletesAreAsked, Queued, Others
<1> QED BY <1>1, <1>2, <1>3, <1>4, <1>5, <1>6, <1>7, <1>8, <1>9, <1>10, <1>11, <1>12, <1>13, <1>14
    DEF Next, User, Page, Shell

-------------------------------------------------------------------------------
(* A preset is saved once, and nobody knows it before it is on disk.        *)

\* No save of q is new.
Shrinks(q) ==
    \A i \in Ids :
        /\ \A n \in Nat : Queued(q, n, "upsert", i)' => Queued(q, n, "upsert", i)
        /\ Upserting(q, i)' => Upserting(q, i)

LEMMA StepQueues ==
    ASSUME WaitInv, [Next]_vars
    PROVE  \/ \A q \in Apps : Shrinks(q)
           \/ \E p \in Apps : /\ Save(p) \/ BeginMutation(p)
                              /\ \A q \in Apps : q # p => Shrinks(q)
<1>0. /\ TypeInv /\ TypeOK
      /\ \A p \in Apps : /\ shell[p].pc # "idle" => mutation[p].pc = "running"
                         /\ mutation[p].pc # "idle" => mutation[p].op \in {"upsert", "delete"}
                                                       /\ mutation[p].id \in Ids
      /\ \A p \in Apps : (lock = p) <=> (shell[p].pc \in {"read", "write"})
  BY DEF WaitInv, TypeInv, MutationsHold, NobodyWaitsForNothing
<1> USE DEF diskVars, storeVars, history
<1>1. ASSUME NEW p \in Apps, Start(p) \/ Reload(p) PROVE \A q \in Apps : Shrinks(q)
  BY <1>0, <1>1, StartMoves DEF Shrinks, Queued, Upserting, InFlight, Others, SamePage
<1>2. ASSUME NEW p \in Apps, Save(p) PROVE \A q \in Apps : q # p => Shrinks(q)
  BY <1>2, <1>0, SaveMoves DEF Shrinks, Others, Queued, Upserting
<1>3. ASSUME NEW p \in Apps, Remove(p) PROVE \A q \in Apps : Shrinks(q)
  <2>1. PICK i \in store[p].strategies :
            i \in Ids /\ store'[p].queue = Append(store[p].queue, [op |-> "delete", id |-> i])
    BY <1>3, <1>0, RemoveMoves
  <2>2. \A n \in Nat, j \in Ids : Queued(p, n, "upsert", j)' <=> Queued(p, n, "upsert", j)
    BY <1>0, <2>1, AppendQueue
  <2> QED BY <1>3, <1>0, <2>2, RemoveMoves DEF Shrinks, Others, Queued, Upserting
<1>4. ASSUME NEW p \in Apps, NEW k \in Loads, LoadAnswered(p, k) PROVE \A q \in Apps : Shrinks(q)
  BY <1>0, <1>4, AnsweredLoadMoves DEF Shrinks, Queued, Upserting, InFlight, Others
<1>5. ASSUME NEW p \in Apps, BeginMutation(p) PROVE \A q \in Apps : q # p => Shrinks(q)
  BY <1>5, <1>0, BeginMoves DEF Shrinks, Others, Queued, Upserting
<1>6. ASSUME NEW p \in Apps, MutationAnswered(p) PROVE \A q \in Apps : Shrinks(q)
  BY <1>0, <1>6, MutationAnsweredMoves DEF Shrinks, Queued, Upserting, InFlight, Others
<1>7. ASSUME NEW p \in Apps, NEW k \in Loads, ServeLoad(p, k) PROVE \A q \in Apps : Shrinks(q)
  BY <1>0, <1>7, ServeMoves DEF Shrinks, Queued, Upserting, InFlight, Others
<1>8. ASSUME NEW p \in Apps, TakeCommand(p) PROVE \A q \in Apps : Shrinks(q)
  BY <1>0, <1>8, TakeMoves DEF Shrinks, Queued, Upserting, InFlight, Others
<1>9. ASSUME NEW p \in Apps, ReadFile(p) PROVE \A q \in Apps : Shrinks(q)
  BY <1>0, <1>9, ReadMoves DEF Shrinks, Queued, Upserting, InFlight, Others, ReadFile
<1>10. ASSUME NEW p \in Apps, WriteFile(p) PROVE \A q \in Apps : Shrinks(q)
  BY <1>0, <1>10, WriteMoves DEF Shrinks, Queued, Upserting, InFlight, Others, WriteFile
<1>11. ASSUME NEW p \in Apps, AcquireLock(p) PROVE \A q \in Apps : Shrinks(q)
  BY <1>0, <1>11, AcquireMoves DEF Shrinks, Queued, Upserting, InFlight, Others
<1>12. ASSUME NEW p \in Apps, Crash(p) PROVE \A q \in Apps : Shrinks(q)
  BY <1>0, <1>12, CrashMoves DEF Shrinks, Queued, Upserting, InFlight, Others
<1>13. CASE EditByHand
  BY <1>0, <1>13 DEF EditByHand, Shrinks, Queued, Upserting, InFlight, Others
<1>14. CASE UNCHANGED vars
  BY <1>0, <1>14 DEF vars, diskVars, storeVars, Shrinks, Queued, Upserting, InFlight, Others
<1> QED BY <1>1, <1>2, <1>3, <1>4, <1>5, <1>6, <1>7, <1>8, <1>9, <1>10, <1>11, <1>12, <1>13, <1>14
    DEF Next, User, Page, Shell

\* Somebody gets to know a preset from those who know it, or when it is written.
LEMMA StepKnown ==
    ASSUME WaitInv, WritesHold, [Next]_vars, NEW i \in Ids, Known(i)'
    PROVE  \/ Known(i)
           \/ \E p \in Apps : WriteFile(p) /\ Upserting(p, i) /\ ~Upserting(p, i)'
<1>0. /\ TypeInv /\ TypeOK
      /\ \A p \in Apps : /\ shell[p].pc # "idle" => mutation[p].pc = "running"
                         /\ mutation[p].pc # "idle" => mutation[p].op \in {"upsert", "delete"}
                                                       /\ mutation[p].id \in Ids
      /\ \A p \in Apps : (lock = p) <=> (shell[p].pc \in {"read", "write"})
  BY DEF WaitInv, TypeInv, MutationsHold, NobodyWaitsForNothing
<1> USE DEF diskVars, storeVars, history
<1>1. ASSUME NEW p \in Apps, Start(p) \/ Reload(p) PROVE Known(i)
  <2>1. \A q \in Apps : KnownTo(q, i)' => KnownTo(q, i)
    BY <1>1, <1>0, StartMoves DEF KnownTo, Others, Issues, SamePage
  <2> QED BY <1>1, <1>0, <2>1, StartMoves DEF Known
<1>2. ASSUME NEW p \in Apps, Save(p) PROVE Known(i)
  BY <1>0, <1>2, SaveMoves DEF Known, KnownTo, Others
<1>3. ASSUME NEW p \in Apps, Remove(p) PROVE Known(i)
  <2>1. \A q \in Apps : KnownTo(q, i)' => KnownTo(q, i)
    BY <1>3, <1>0, RemoveMoves DEF KnownTo, Others
  <2>2. i \in dropped' => i \in dropped \/ KnownTo(p, i)
    BY <1>3, <1>0, RemoveMoves, ZenonT(40) DEF KnownTo
  <2> QED BY <1>3, <1>0, <2>1, <2>2, RemoveMoves DEF Known
<1>4. ASSUME NEW p \in Apps, NEW k \in Loads, LoadAnswered(p, k) PROVE Known(i)
  <2>1. \A q \in Apps : KnownTo(q, i)' => KnownTo(q, i)
    BY <1>4, <1>0, AnsweredLoadMoves, SMTT(30) DEF KnownTo, Others
  <2> QED BY <1>4, <1>0, <2>1, AnsweredLoadMoves DEF Known
<1>5. ASSUME NEW p \in Apps, BeginMutation(p) PROVE Known(i)
  <2>a. \A k \in Loads : load'[p][k].pc = "read" => load'[p][k] = load[p][k]
    BY <1>5, <1>0, BeginMoves DEF Issues
  <2>b. mutation'[p].pc # "answered" /\ store'[p].strategies = store[p].strategies
    BY <1>5, <1>0, BeginMoves
  <2>c. KnownTo(p, i)' => KnownTo(p, i)
    BY <2>a, <2>b DEF KnownTo
  <2>1. \A q \in Apps : KnownTo(q, i)' => KnownTo(q, i)
    BY <1>5, <1>0, <2>c, BeginMoves DEF KnownTo, Others
  <2> QED BY <1>5, <1>0, <2>1, BeginMoves DEF Known
<1>6. ASSUME NEW p \in Apps, MutationAnswered(p) PROVE Known(i)
  <2>1. \A q \in Apps : KnownTo(q, i)' => KnownTo(q, i)
    BY <1>6, <1>0, MutationAnsweredMoves DEF KnownTo, Others
  <2> QED BY <1>6, <1>0, <2>1, MutationAnsweredMoves DEF Known
<1>7. ASSUME NEW p \in Apps, NEW k \in Loads, ServeLoad(p, k) PROVE Known(i)
  <2>1. \A q \in Apps : KnownTo(q, i)' => KnownTo(q, i) \/ (disk # Broken /\ i \in disk)
    BY <1>7, <1>0, ServeMoves DEF KnownTo, Others
  <2> QED BY <1>7, <1>0, <2>1, ServeMoves DEF Known
<1>8. ASSUME NEW p \in Apps, TakeCommand(p) PROVE Known(i)
  <2>1. \A q \in Apps : KnownTo(q, i)' => KnownTo(q, i)
    BY <1>8, <1>0, TakeMoves DEF KnownTo, Others
  <2> QED BY <1>8, <1>0, <2>1, TakeMoves DEF Known
<1>9. ASSUME NEW p \in Apps, ReadFile(p) PROVE Known(i)
  <2>1. \A q \in Apps : KnownTo(q, i)' => KnownTo(q, i) \/ (disk # Broken /\ i \in disk)
    BY <1>9, <1>0, ReadMoves DEF KnownTo, Others, ReadFile
  <2> QED BY <1>9, <1>0, <2>1, ReadMoves DEF Known, ReadFile
<1>10. ASSUME NEW p \in Apps, WriteFile(p)
       PROVE  Known(i) \/ (Upserting(p, i) /\ ~Upserting(p, i)')
  <2>1. mutation[p].pc = "running" /\ shell[p].pc = "write" /\ mutation'[p].pc = "answered"
    BY <1>10, <1>0, WriteMoves DEF WriteFile
  <2>2. disk # Broken /\ shell[p].data = disk
    BY <2>1 DEF WritesHold
  <2>3. i \in Changed(p) => i \in disk \/ Upserting(p, i)
    BY <1>0, <2>1, <2>2 DEF Changed, Upserting, InFlight
  <2>4. ~Upserting(p, i)'
    BY <2>1 DEF Upserting, InFlight
  <2>5. \A q \in Apps : KnownTo(q, i)' => KnownTo(q, i) \/ i \in disk \/ Upserting(p, i)
    BY <1>10, <1>0, <2>1, <2>3, WriteMoves DEF KnownTo, Others
  <2>6. disk' # Broken /\ i \in disk' => i \in disk \/ Upserting(p, i)
    BY <1>10, <1>0, <2>1, <2>2, <2>3, WriteMoves
  <2> QED BY <1>10, <1>0, <2>1, <2>2, <2>4, <2>5, <2>6, WriteMoves DEF Known
<1>11. ASSUME NEW p \in Apps, AcquireLock(p) PROVE Known(i)
  BY <1>0, <1>11, AcquireMoves DEF Known, KnownTo, Others
<1>12. ASSUME NEW p \in Apps, Crash(p) PROVE Known(i)
  <2>1. \A q \in Apps : KnownTo(q, i)' => KnownTo(q, i)
    BY <1>12, <1>0, CrashMoves DEF KnownTo, Others
  <2> QED BY <1>12, <1>0, <2>1, CrashMoves DEF Known
<1>13. CASE EditByHand
  BY <1>0, <1>13 DEF EditByHand, Known, KnownTo, Others
<1>14. CASE UNCHANGED vars
  BY <1>0, <1>14 DEF vars, diskVars, storeVars, Known, KnownTo, Others
<1> QED BY <1>1, <1>2, <1>3, <1>4, <1>5, <1>6, <1>7, <1>8, <1>9, <1>10, <1>11, <1>12, <1>13, <1>14
    DEF Next, User, Page, Shell

LEMMA StepCreated == WaitInv /\ [Next]_vars => created \subseteq created'
<1> SUFFICES ASSUME WaitInv, [Next]_vars PROVE created \subseteq created'
  OBVIOUS
<1>0. TypeInv /\ TypeOK
  BY DEF WaitInv, TypeInv
<1> USE DEF history, diskVars, storeVars
<1>1. ASSUME NEW p \in Apps, MutationAnswered(p) PROVE created' = created
  BY <1>0, <1>1, MutationAnsweredMoves
<1>2. ASSUME NEW p \in Apps, Crash(p) PROVE created' = created
  BY <1>2 DEF Crash
<1> QED BY <1>1, <1>2, ZenonT(40) DEF Next, User, Page, Shell, Start, Reload, Save, Remove, LoadAnswered,
              BeginMutation, ServeLoad, TakeCommand, ReadFile, WriteFile, AcquireLock,
              EditByHand, vars

LEMMA StepPending ==
    ASSUME WaitInv, [Next]_vars, NEW q \in Apps, NEW i \in Ids
    PROVE  /\ \A n \in Nat : Queued(q, n, "upsert", i)' =>
                 \/ \E m \in Nat : Queued(q, m, "upsert", i)
                 \/ i \notin created /\ i \in created'
           /\ Upserting(q, i)' => Pending(q, i)
<1>0. TypeInv /\ TypeOK
  BY DEF WaitInv, TypeInv
<1>1. created \subseteq created'
  BY StepCreated
<1>2. CASE Shrinks(q)
  BY <1>1, <1>2 DEF Shrinks, Pending
<1>3. CASE Save(q)
  <2>1. PICK j \in Ids \ created :
            /\ created' = created \cup {j}
            /\ store'[q].queue = Append(store[q].queue, [op |-> "upsert", id |-> j])
    BY <1>0, <1>3, SaveMoves
  <2>2. \A n \in Nat : Queued(q, n, "upsert", i)' => Queued(q, n, "upsert", i) \/ i = j
    BY <1>0, <2>1, AppendQueue
  <2>3. Upserting(q, i)' => Upserting(q, i)
    BY <1>0, <1>3, SaveMoves DEF Upserting
  <2> QED BY <1>1, <2>1, <2>2, <2>3 DEF Pending
<1>4. CASE BeginMutation(q)
  <2>1. /\ store[q].queue # <<>> /\ store'[q].queue = Tail(store[q].queue)
        /\ \/ mutation'[q].pc = "idle"
           \/ /\ mutation'[q].op = Head(store[q].queue).op
              /\ mutation'[q].id = Head(store[q].queue).id
    BY <1>0, <1>4, BeginMoves
  <2>2. /\ \A n \in Nat : Queued(q, n, "upsert", i)' => Queued(q, n + 1, "upsert", i)
        /\ Queued(q, 1, Head(store[q].queue).op, Head(store[q].queue).id)
    BY <1>0, <2>1, TailQueue
  <2>3. \A n \in Nat : n + 1 \in Nat
    OBVIOUS
  <2>4. Upserting(q, i)' => Queued(q, 1, "upsert", i)
    BY <2>1, <2>2 DEF Upserting, InFlight
  <2> QED BY <1>1, <2>2, <2>3, <2>4 DEF Pending
<1> QED BY <1>2, <1>3, <1>4, StepQueues

LEMMA StepUnknown ==
    WaitInv /\ WritesHold /\ PendingIsUnknown /\ SavedOnce /\ [Next]_vars => PendingIsUnknown'
<1> SUFFICES ASSUME WaitInv, WritesHold, PendingIsUnknown, SavedOnce, [Next]_vars, NEW i \in Ids
             PROVE  /\ Known(i)' => i \in created'
                    /\ \A q \in Apps : Pending(q, i)' => i \in created' /\ ~Known(i)'
  BY DEF PendingIsUnknown
<1>1. /\ Known(i) => i \in created
      /\ \A q \in Apps : Pending(q, i) => i \in created /\ ~Known(i)
  BY DEF PendingIsUnknown
<1>2. /\ created \subseteq created'
      /\ \A q \in Apps, n \in Nat : Queued(q, n, "upsert", i)' =>
            (\E m \in Nat : Queued(q, m, "upsert", i)) \/ (i \notin created /\ i \in created')
      /\ \A q \in Apps : Upserting(q, i)' => Pending(q, i)
  BY StepCreated, StepPending
<1>3. Known(i)' =>
        Known(i) \/ \E p \in Apps : WriteFile(p) /\ Upserting(p, i) /\ ~Upserting(p, i)'
  BY StepKnown
<1>4. Known(i)' => i \in created /\ i \in created'
  BY <1>1, <1>2, <1>3 DEF Pending
<1>5. ASSUME NEW q \in Apps, Pending(q, i)' PROVE i \in created' /\ ~Known(i)'
  <2>1. i \in created'
    BY <1>1, <1>2, <1>5 DEF Pending
  <2>2. ASSUME Known(i)' PROVE FALSE
    <3>1. i \in created
      BY <1>4, <2>2
    <3>2. Pending(q, i) /\ ~Known(i)
      BY <1>1, <1>2, <1>5, <3>1 DEF Pending
    <3>3. PICK p \in Apps : Upserting(p, i) /\ ~Upserting(p, i)'
      BY <1>3, <2>2, <3>2
    <3>4. p = q
      BY <3>2, <3>3 DEF SavedOnce, Pending
    <3>5. \E n \in Nat : Queued(q, n, "upsert", i)
      BY <1>2, <1>5, <3>1, <3>3, <3>4 DEF Pending
    <3> QED BY <3>3, <3>4, <3>5 DEF SavedOnce
  <2> QED BY <2>1, <2>2
<1> QED BY <1>4, <1>5

LEMMA StepOnce ==
    WaitInv /\ PendingIsUnknown /\ SavedOnce /\ [Next]_vars => SavedOnce'
<1> SUFFICES ASSUME WaitInv, PendingIsUnknown, SavedOnce, [Next]_vars, NEW i \in Ids
             PROVE  /\ \A p, q \in Apps : Pending(p, i)' /\ Pending(q, i)' => p = q
                    /\ \A q \in Apps, n \in Nat :
                          Queued(q, n, "upsert", i)' =>
                              /\ ~Upserting(q, i)'
                              /\ \A m \in Nat : Queued(q, m, "upsert", i)' => m = n
  BY DEF SavedOnce
<1>0. TypeInv /\ TypeOK
  BY DEF WaitInv, TypeInv
<1>1. \A q \in Apps : Pending(q, i)' => Pending(q, i) \/ i \notin created
  BY StepPending DEF Pending
<1>2. \A q \in Apps : Pending(q, i) => i \in created
  BY DEF PendingIsUnknown
<1>3. \A q \in Apps : Shrinks(q) /\ Pending(q, i)' => Pending(q, i)
  BY DEF Shrinks, Pending
<1>4. ASSUME NEW p \in Apps, NEW q \in Apps, Pending(p, i)', Pending(q, i)' PROVE p = q
  <2>1. CASE i \in created
    BY <1>1, <1>4, <2>1 DEF SavedOnce
  <2>2. CASE i \notin created
    BY <1>2, <1>3, <1>4, <2>2, StepQueues
  <2> QED BY <2>1, <2>2
<1>5. ASSUME NEW q \in Apps, NEW n \in Nat, Queued(q, n, "upsert", i)'
      PROVE  ~Upserting(q, i)' /\ \A m \in Nat : Queued(q, m, "upsert", i)' => m = n
  <2>1. CASE Shrinks(q)
    BY <1>5, <2>1 DEF Shrinks, SavedOnce
  <2>2. CASE Save(q)
    <3>1. PICK j \in Ids \ created :
              store'[q].queue = Append(store[q].queue, [op |-> "upsert", id |-> j])
      BY <1>0, <2>2, SaveMoves
    <3>2. \A m \in Nat : Queued(q, m, "upsert", i)' <=>
              Queued(q, m, "upsert", i) \/ (m = Len(store[q].queue) + 1 /\ i = j)
      BY <1>0, <3>1, AppendQueue
    <3>3. Upserting(q, i)' => Upserting(q, i)
      BY <1>0, <2>2, SaveMoves DEF Upserting
    <3>4. i = j => ~Pending(q, i)
      BY <1>2, <3>1
    <3> QED BY <1>5, <3>2, <3>3, <3>4 DEF SavedOnce, Pending
  <2>3. CASE BeginMutation(q)
    <3>1. /\ store[q].queue # <<>> /\ store'[q].queue = Tail(store[q].queue)
          /\ \/ mutation'[q].pc = "idle"
             \/ /\ mutation'[q].op = Head(store[q].queue).op
                /\ mutation'[q].id = Head(store[q].queue).id
      BY <1>0, <2>3, BeginMoves
    <3>2. /\ \A m \in Nat : Queued(q, m, "upsert", i)' => m # 0 /\ Queued(q, m + 1, "upsert", i)
          /\ Queued(q, 1, Head(store[q].queue).op, Head(store[q].queue).id)
      BY <1>0, <3>1, TailQueue
    <3>3. Upserting(q, i)' => Queued(q, 1, "upsert", i)
      BY <3>1, <3>2 DEF Upserting, InFlight
    <3>4. \A m \in Nat : m + 1 \in Nat /\ (m # 0 => m + 1 # 1) /\ (m + 1 = n + 1 => m = n)
      OBVIOUS
    <3>5. \A l, m \in Nat : Queued(q, l, "upsert", i) /\ Queued(q, m, "upsert", i) => l = m
      BY DEF SavedOnce
    <3>6. n # 0 /\ Queued(q, n + 1, "upsert", i)
      BY <1>5, <3>2
    <3>7. ~Queued(q, 1, "upsert", i)
      BY <3>4, <3>5, <3>6
    <3>8. ASSUME NEW m \in Nat, Queued(q, m, "upsert", i)' PROVE m = n
      <4>1. Queued(q, m + 1, "upsert", i)
        BY <3>2, <3>8
      <4> QED BY <3>4, <3>5, <3>6, <4>1
    <3> QED BY <3>3, <3>7, <3>8
  <2> QED BY <2>1, <2>2, <2>3, StepQueues
<1> QED BY <1>4, <1>5

-------------------------------------------------------------------------------
(* What was acknowledged.                                                   *)

LEMMA InitDisk == Init => DiskInv
<1> SUFFICES ASSUME Init PROVE DiskInv
  OBVIOUS
<1>1. WaitInv
  BY InitWait
<1>2. \A p \in Apps : /\ shell[p].pc = "idle" /\ mutation[p].pc = "idle"
                      /\ store[p].queue = <<>> /\ store[p].strategies = {}
                      /\ saved[p] = {} /\ removed[p] = {}
                      /\ \A k \in Loads : load[p][k].pc = "none"
  BY DEF Init, Idle, NoMutation, Fresh, NoLoads
<1>3. disk = {} /\ dropped = {}
  BY DEF Init
<1>4. \A p \in Apps, i \in Ids : ~Pending(p, i) /\ \A n, o : ~Queued(p, n, o, i)
  BY <1>2 DEF Pending, Upserting, InFlight, Queued
<1>5. \A i \in Ids : ~Known(i)
  BY <1>2, <1>3 DEF Known, KnownTo
<1>6. PendingIsUnknown /\ SavedOnce
  BY <1>4, <1>5 DEF PendingIsUnknown, SavedOnce
<1>7. WritesHold /\ DeletesAreAsked /\ AnswersAgree
  BY <1>2, <1>4 DEF WritesHold, DeletesAreAsked, AnswersAgree, AnswersAgreeFor
<1>8. AcknowledgedIsOnDisk /\ OwnChangesAreSeen
  BY <1>2 DEF AcknowledgedIsOnDisk, OwnChangesAreSeen
<1> QED BY <1>1, <1>6, <1>7, <1>8 DEF DiskInv

\* A command adds a preset that nobody asked to remove, or removes one that
\* somebody did; a broken file stays broken.
LEMMA StepDisk ==
    ASSUME DiskInv, [Next]_vars
    PROVE  /\ dropped \subseteq dropped'
           /\ disk' # Broken =>
                 /\ disk # Broken /\ disk \in Contents
                 /\ \A i : i \in disk' /\ i \notin disk => i \notin dropped /\ dropped' = dropped
                 /\ \A i : i \in disk /\ i \notin disk' => i \in dropped
<1>0. /\ TypeInv /\ TypeOK
      /\ \A p \in Apps : /\ shell[p].pc # "idle" => mutation[p].pc = "running"
                         /\ mutation[p].pc # "idle" => mutation[p].op \in {"upsert", "delete"}
                                                       /\ mutation[p].id \in Ids
      /\ \A p \in Apps : (lock = p) <=> (shell[p].pc \in {"read", "write"})
  BY DEF DiskInv, WaitInv, TypeInv, MutationsHold, NobodyWaitsForNothing
<1> DEFINE Goal ==
                  /\ dropped \subseteq dropped'
                  /\ disk' # Broken =>
                        /\ disk # Broken /\ disk \in Contents
                        /\ \A i : i \in disk' /\ i \notin disk => i \notin dropped /\ dropped' = dropped
                        /\ \A i : i \in disk /\ i \notin disk' => i \in dropped
<1>a. disk' = disk /\ dropped \subseteq dropped' => Goal
  BY <1>0 DEF TypeOK
<1> USE DEF diskVars, storeVars, history
<1>1. ASSUME NEW p \in Apps, Start(p) \/ Reload(p) PROVE Goal
  BY <1>0, <1>a, <1>1, StartMoves
<1>2. ASSUME NEW p \in Apps, Save(p) PROVE Goal
  BY <1>0, <1>a, <1>2, SaveMoves
<1>3. ASSUME NEW p \in Apps, Remove(p) PROVE Goal
  BY <1>0, <1>a, <1>3, RemoveMoves
<1>4. ASSUME NEW p \in Apps, NEW k \in Loads, LoadAnswered(p, k) PROVE Goal
  BY <1>0, <1>a, <1>4, AnsweredLoadMoves
<1>5. ASSUME NEW p \in Apps, BeginMutation(p) PROVE Goal
  BY <1>0, <1>a, <1>5, BeginMoves
<1>6. ASSUME NEW p \in Apps, MutationAnswered(p) PROVE Goal
  BY <1>0, <1>a, <1>6, MutationAnsweredMoves
<1>7. ASSUME NEW p \in Apps, NEW k \in Loads, ServeLoad(p, k) PROVE Goal
  BY <1>0, <1>a, <1>7, ServeMoves
<1>8. ASSUME NEW p \in Apps, TakeCommand(p) PROVE Goal
  BY <1>0, <1>a, <1>8, TakeMoves
<1>9. ASSUME NEW p \in Apps, ReadFile(p) PROVE Goal
  BY <1>0, <1>a, <1>9, ReadMoves DEF ReadFile
<1>10. ASSUME NEW p \in Apps, WriteFile(p) PROVE Goal
  <2>1. /\ shell[p].pc = "write" /\ mutation[p].pc = "running" /\ UNCHANGED history
        /\ disk' = Changed(p) \/ disk' = disk
    BY <1>10, <1>0, WriteMoves DEF WriteFile
  <2>2. disk # Broken /\ shell[p].data = disk
    BY <2>1 DEF DiskInv, WritesHold
  <2>3. mutation[p].op = "delete" => mutation[p].id \in dropped
    BY <2>1 DEF DiskInv, DeletesAreAsked
  <2>4. mutation[p].op = "upsert" => mutation[p].id \notin dropped
    <3>1. mutation[p].id \in Ids
      BY <1>0, <2>1
    <3>2. mutation[p].op = "upsert" => Pending(p, mutation[p].id)
      BY <2>1 DEF Pending, Upserting, InFlight
    <3> QED BY <3>1, <3>2 DEF DiskInv, PendingIsUnknown, Known
  <2>5. disk \in Contents
    BY <1>0, <2>2 DEF TypeOK
  <2> QED BY <1>0, <2>1, <2>2, <2>3, <2>4, <2>5 DEF Changed
<1>11. ASSUME NEW p \in Apps, AcquireLock(p) PROVE Goal
  BY <1>0, <1>a, <1>11, AcquireMoves
<1>12. ASSUME NEW p \in Apps, Crash(p) PROVE Goal
  BY <1>0, <1>a, <1>12, CrashMoves
<1>13. CASE EditByHand
  BY <1>13 DEF EditByHand
<1>14. CASE UNCHANGED vars
  BY <1>0, <1>a, <1>14 DEF vars
<1> QED BY <1>1, <1>2, <1>3, <1>4, <1>5, <1>6, <1>7, <1>8, <1>9, <1>10, <1>11, <1>12, <1>13, <1>14
    DEF Next, User, Page, Shell

\* Nobody is told anything but by the answer of a mutation.
LEMMA StepTold ==
    ASSUME DiskInv, [Next]_vars, NEW q \in Apps
    PROVE  \/ saved'[q] \subseteq saved[q] /\ removed'[q] \subseteq removed[q]
           \/ /\ MutationAnswered(q) /\ mutation[q].reply # Failed
              /\ disk' = disk /\ dropped' = dropped
              /\ store'[q].strategies = mutation[q].reply
              /\ mutation[q].op = "upsert" => /\ saved'[q] \subseteq saved[q] \cup {mutation[q].id}
                                              /\ removed'[q] = removed[q]
              /\ mutation[q].op = "delete" => /\ removed'[q] \subseteq removed[q] \cup {mutation[q].id}
                                              /\ saved'[q] = saved[q]
<1>0. /\ TypeInv /\ TypeOK
      /\ \A p \in Apps : /\ shell[p].pc # "idle" => mutation[p].pc = "running"
                         /\ mutation[p].pc # "idle" => mutation[p].op \in {"upsert", "delete"}
                                                       /\ mutation[p].id \in Ids
      /\ \A p \in Apps : (lock = p) <=> (shell[p].pc \in {"read", "write"})
  BY DEF DiskInv, WaitInv, TypeInv, MutationsHold, NobodyWaitsForNothing
<1> USE DEF diskVars, storeVars, history
<1> DEFINE Same == saved'[q] \subseteq saved[q] /\ removed'[q] \subseteq removed[q]
<1>1. ASSUME NEW p \in Apps, Start(p) \/ Reload(p) PROVE Same
  BY <1>0, <1>1, StartMoves DEF Others
<1>2. ASSUME NEW p \in Apps, Save(p) PROVE Same
  BY <1>0, <1>2, SaveMoves
<1>3. ASSUME NEW p \in Apps, Remove(p) PROVE Same
  BY <1>0, <1>3, RemoveMoves DEF Others
<1>4. ASSUME NEW p \in Apps, NEW k \in Loads, LoadAnswered(p, k) PROVE Same
  BY <1>0, <1>4, AnsweredLoadMoves DEF Others
<1>5. ASSUME NEW p \in Apps, BeginMutation(p) PROVE Same
  BY <1>0, <1>5, BeginMoves DEF Others
<1>6. ASSUME NEW p \in Apps, MutationAnswered(p)
      PROVE  \/ Same
             \/ /\ p = q /\ mutation[q].reply # Failed
                /\ disk' = disk /\ dropped' = dropped
                /\ store'[q].strategies = mutation[q].reply
                /\ mutation[q].op = "upsert" => /\ saved'[q] \subseteq saved[q] \cup {mutation[q].id}
                                                /\ removed'[q] = removed[q]
                /\ mutation[q].op = "delete" => /\ removed'[q] \subseteq removed[q] \cup {mutation[q].id}
                                                /\ saved'[q] = saved[q]
  <2>1. CASE p # q
    BY <1>0, <1>6, <2>1, MutationAnsweredMoves DEF Others
  <2>2. CASE p = q
    BY <1>0, <1>6, <2>2, MutationAnsweredMoves, AcknowledgeType
  <2> QED BY <2>1, <2>2
<1>7. ASSUME NEW p \in Apps, NEW k \in Loads, ServeLoad(p, k) PROVE Same
  BY <1>0, <1>7, ServeMoves DEF Others
<1>8. ASSUME NEW p \in Apps, TakeCommand(p) PROVE Same
  BY <1>0, <1>8, TakeMoves DEF Others
<1>9. ASSUME NEW p \in Apps, ReadFile(p) PROVE Same
  BY <1>0, <1>9, ReadMoves DEF ReadFile
<1>10. ASSUME NEW p \in Apps, WriteFile(p) PROVE Same
  BY <1>0, <1>10, WriteMoves DEF WriteFile
<1>11. ASSUME NEW p \in Apps, AcquireLock(p) PROVE Same
  BY <1>0, <1>11, AcquireMoves DEF Others
<1>12. ASSUME NEW p \in Apps, Crash(p) PROVE Same
  BY <1>0, <1>12, CrashMoves DEF Others
<1>13. CASE EditByHand
  BY <1>13 DEF EditByHand
<1>14. CASE UNCHANGED vars
  BY <1>0, <1>14 DEF vars
<1>15. Same \/ \E p \in Apps : MutationAnswered(p)
  BY <1>1, <1>2, <1>3, <1>4, <1>5, <1>7, <1>8, <1>9, <1>10, <1>11, <1>12, <1>13, <1>14
     DEF Next, User, Page, Shell
<1> HIDE DEF Same
<1>16. CASE Same
  BY <1>16 DEF Same
<1>17. CASE \E p \in Apps : MutationAnswered(p) /\ ~Same
  BY <1>6, <1>17
<1> QED BY <1>15, <1>16, <1>17

LEMMA StepAcknowledged == DiskInv /\ [Next]_vars => AcknowledgedIsOnDisk'
<1> SUFFICES ASSUME DiskInv, [Next]_vars, disk' # Broken, NEW q \in Apps
             PROVE  saved'[q] \ dropped' \subseteq disk' /\ removed'[q] \cap disk' = {}
  BY DEF AcknowledgedIsOnDisk
<1>1. /\ dropped \subseteq dropped' /\ disk # Broken
      /\ \A i : i \in disk' /\ i \notin disk => i \notin dropped /\ dropped' = dropped
      /\ \A i : i \in disk /\ i \notin disk' => i \in dropped
  BY StepDisk
<1>2. saved[q] \ dropped \subseteq disk /\ removed[q] \cap disk = {} /\ removed[q] \subseteq dropped
  BY <1>1 DEF DiskInv, AcknowledgedIsOnDisk, DeletesAreAsked
<1>3. CASE saved'[q] \subseteq saved[q] /\ removed'[q] \subseteq removed[q]
  BY <1>1, <1>2, <1>3
<1>4. CASE /\ MutationAnswered(q) /\ mutation[q].reply # Failed
           /\ disk' = disk /\ dropped' = dropped
           /\ mutation[q].op = "upsert" => /\ saved'[q] \subseteq saved[q] \cup {mutation[q].id}
                                           /\ removed'[q] = removed[q]
           /\ mutation[q].op = "delete" => /\ removed'[q] \subseteq removed[q] \cup {mutation[q].id}
                                           /\ saved'[q] = saved[q]
  <2>1. mutation[q].pc = "answered" /\ mutation[q].op \in {"upsert", "delete"}
    BY <1>4 DEF MutationAnswered, DiskInv, WaitInv, TypeInv, MutationsHold
  <2>2. Reflects(q, disk)
    BY <1>1, <1>4, <2>1 DEF DiskInv, AnswersAgree, AnswersAgreeFor
  <2> QED BY <1>2, <1>4, <2>1, <2>2 DEF Reflects
<1> QED BY <1>3, <1>4, StepTold

LEMMA StepAgrees == DiskInv /\ [Next]_vars => AnswersAgree'
<1> SUFFICES ASSUME DiskInv, [Next]_vars PROVE AnswersAgree'
  OBVIOUS
<1>0. /\ TypeInv /\ TypeOK
      /\ \A p \in Apps : /\ shell[p].pc # "idle" => mutation[p].pc = "running"
                         /\ mutation[p].pc # "idle" => mutation[p].op \in {"upsert", "delete"}
                                                       /\ mutation[p].id \in Ids
      /\ \A p \in Apps : (lock = p) <=> (shell[p].pc \in {"read", "write"})
  BY DEF DiskInv, WaitInv, TypeInv, MutationsHold, NobodyWaitsForNothing
<1>a. \A p \in Apps : AnswersAgreeFor(p)
  BY DEF DiskInv, AnswersAgree
<1>b. ASSUME NEW q \in Apps, mutation'[q] = mutation[q], store'[q].current = store[q].current,
             load'[q] = load[q], saved'[q] = saved[q], removed'[q] = removed[q]
      PROVE  AnswersAgreeFor(q)'
  <2>1. /\ dropped \subseteq dropped'
        /\ disk' # Broken =>
              /\ disk # Broken
              /\ \A i : i \in disk' /\ i \notin disk => i \notin dropped /\ dropped' = dropped
              /\ \A i : i \in disk /\ i \notin disk' => i \in dropped
    BY StepDisk
  <2>2. \A c : Agrees(q, c) => Agrees(q, c)'
    BY <1>b, <2>1 DEF Agrees
  <2>3. \A c : Reflects(q, c) => Reflects(q, c)'
    BY <1>b, <2>1 DEF Reflects
  <2>4. mutation[q].pc = "answered" /\ mutation[q].op = "delete" => mutation[q].id \in dropped
    BY DEF DiskInv, DeletesAreAsked
  <2>5. mutation[q].pc = "answered" /\ disk' # Broken /\ Reflects(q, disk) => Reflects(q, disk)'
    BY <1>0, <1>b, <2>1, <2>4 DEF Reflects
  <2> QED BY <1>a, <1>b, <2>1, <2>2, <2>3, <2>5 DEF AnswersAgreeFor
<1>c. ASSUME NEW p \in Apps, Others(p), AnswersAgreeFor(p)' PROVE AnswersAgree'
  BY <1>b, <1>c DEF Others, AnswersAgree
<1>d. \A p \in Apps : disk # Broken => Agrees(p, disk) /\ removed[p] \subseteq dropped
  BY DEF DiskInv, AcknowledgedIsOnDisk, DeletesAreAsked, Agrees
<1> USE DEF diskVars, storeVars, history
<1>1. ASSUME NEW p \in Apps, Start(p) \/ Reload(p) PROVE AnswersAgree'
  <2>1. AnswersAgreeFor(p)'
    BY <1>1, <1>0, <1>a, <1>b, StartMoves DEF AnswersAgreeFor, Issues, Agrees, Reflects
  <2> QED BY <1>1, <1>0, <1>c, <2>1, StartMoves
<1>2. ASSUME NEW p \in Apps, Save(p) PROVE AnswersAgree'
  <2>1. AnswersAgreeFor(p)'
    BY <1>2, <1>0, <1>b, SaveMoves
  <2> QED BY <1>2, <1>0, <1>c, <2>1, SaveMoves
<1>3. ASSUME NEW p \in Apps, Remove(p) PROVE AnswersAgree'
  <2>1. AnswersAgreeFor(p)'
    BY <1>3, <1>0, <1>b, RemoveMoves
  <2> QED BY <1>3, <1>0, <1>c, <2>1, RemoveMoves
<1>4. ASSUME NEW p \in Apps, NEW k \in Loads, LoadAnswered(p, k) PROVE AnswersAgree'
  <2>1. AnswersAgreeFor(p)'
    BY <1>4, <1>0, <1>a, AnsweredLoadMoves DEF AnswersAgreeFor, Agrees, Reflects
  <2> QED BY <1>4, <1>0, <1>c, <2>1, AnsweredLoadMoves
<1>5. ASSUME NEW p \in Apps, BeginMutation(p) PROVE AnswersAgree'
  <2>1. AnswersAgreeFor(p)'
    BY <1>5, <1>0, <1>a, BeginMoves DEF AnswersAgreeFor, Issues, Agrees, Reflects
  <2> QED BY <1>5, <1>0, <1>c, <2>1, BeginMoves
<1>6. ASSUME NEW p \in Apps, MutationAnswered(p) PROVE AnswersAgree'
  <2>1. AnswersAgreeFor(p)'
    BY <1>6, <1>0, <1>a, MutationAnsweredMoves DEF AnswersAgreeFor, Agrees, Reflects
  <2> QED BY <1>6, <1>0, <1>c, <2>1, MutationAnsweredMoves
<1>7. ASSUME NEW p \in Apps, NEW k \in Loads, ServeLoad(p, k) PROVE AnswersAgree'
  <2>1. AnswersAgreeFor(p)'
    BY <1>7, <1>0, <1>a, <1>d, ServeMoves DEF AnswersAgreeFor, Agrees, Reflects
  <2> QED BY <1>7, <1>0, <1>c, <2>1, ServeMoves
<1>8. ASSUME NEW p \in Apps, TakeCommand(p) PROVE AnswersAgree'
  <2>1. AnswersAgreeFor(p)'
    BY <1>8, <1>0, <1>a, TakeMoves DEF AnswersAgreeFor, Agrees, Reflects
  <2> QED BY <1>8, <1>0, <1>c, <2>1, TakeMoves
<1>9. ASSUME NEW p \in Apps, ReadFile(p) PROVE AnswersAgree'
  <2>0. mutation[p].pc = "running"
    BY <1>9, <1>0 DEF ReadFile
  <2>1. AnswersAgreeFor(p)'
    BY <1>9, <1>0, <1>a, <1>d, <2>0, ReadMoves DEF AnswersAgreeFor, Agrees, Reflects
  <2> QED BY <1>9, <1>0, <1>c, <2>0, <2>1, ReadMoves
<1>10. ASSUME NEW p \in Apps, WriteFile(p) PROVE AnswersAgree'
  <2>0. mutation[p].pc = "running" /\ shell[p].pc = "write"
    BY <1>10, <1>0 DEF WriteFile
  <2>1. disk # Broken /\ shell[p].data = disk
    BY <2>0 DEF DiskInv, WritesHold
  <2>2. mutation[p].op = "delete" => mutation[p].id \in dropped
    BY <2>0 DEF DiskInv, DeletesAreAsked
  <2>3. mutation[p].op = "upsert" => mutation[p].id \notin dropped
    <3>1. mutation[p].id \in Ids
      BY <1>0, <2>0
    <3>2. mutation[p].op = "upsert" => Pending(p, mutation[p].id)
      BY <2>0 DEF Pending, Upserting, InFlight
    <3> QED BY <3>1, <3>2 DEF DiskInv, PendingIsUnknown, Known
  <2>4. Agrees(p, Changed(p)) /\ Reflects(p, Changed(p))
    BY <1>0, <1>d, <2>0, <2>1, <2>2, <2>3 DEF Agrees, Reflects, Changed
  <2>5. AnswersAgreeFor(p)'
    BY <1>10, <1>0, <1>a, <2>0, <2>4, WriteMoves DEF AnswersAgreeFor, Agrees, Reflects
  <2> QED BY <1>10, <1>0, <1>c, <2>0, <2>5, WriteMoves
<1>11. ASSUME NEW p \in Apps, AcquireLock(p) PROVE AnswersAgree'
  <2>1. AnswersAgreeFor(p)'
    BY <1>11, <1>0, <1>b, AcquireMoves
  <2> QED BY <1>11, <1>0, <1>c, <2>1, AcquireMoves
<1>12. ASSUME NEW p \in Apps, Crash(p) PROVE AnswersAgree'
  <2>1. AnswersAgreeFor(p)'
    BY <1>12, <1>0, <1>a, CrashMoves DEF AnswersAgreeFor, Agrees, Reflects
  <2> QED BY <1>12, <1>0, <1>c, <2>1, CrashMoves
<1>13. CASE EditByHand
  BY <1>13, <1>b DEF EditByHand, AnswersAgree
<1>14. CASE UNCHANGED vars
  BY <1>14, <1>b DEF vars, AnswersAgree
<1> QED BY <1>1, <1>2, <1>3, <1>4, <1>5, <1>6, <1>7, <1>8, <1>9, <1>10, <1>11, <1>12, <1>13, <1>14
    DEF Next, User, Page, Shell

LEMMA StepSeen == DiskInv /\ [Next]_vars => OwnChangesAreSeen'
<1> SUFFICES ASSUME DiskInv, [Next]_vars PROVE OwnChangesAreSeen'
  OBVIOUS
<1>0. /\ TypeInv /\ TypeOK
      /\ \A p \in Apps : /\ shell[p].pc # "idle" => mutation[p].pc = "running"
                         /\ mutation[p].pc # "idle" => mutation[p].op \in {"upsert", "delete"}
                                                       /\ mutation[p].id \in Ids
      /\ \A p \in Apps : (lock = p) <=> (shell[p].pc \in {"read", "write"})
  BY DEF DiskInv, WaitInv, TypeInv, MutationsHold, NobodyWaitsForNothing
<1>a. dropped \subseteq dropped'
  BY StepDisk
<1>b. \A p \in Apps : Agrees(p, store[p].strategies) /\ AnswersAgreeFor(p)
  BY DEF DiskInv, OwnChangesAreSeen, Agrees, AnswersAgree
<1>c. ASSUME NEW q \in Apps, store'[q].strategies = store[q].strategies,
             saved'[q] = saved[q], removed'[q] = removed[q]
      PROVE  Agrees(q, store[q].strategies)'
  BY <1>a, <1>b, <1>c DEF Agrees
<1>d. ASSUME NEW p \in Apps, Others(p), Agrees(p, store[p].strategies)' PROVE OwnChangesAreSeen'
  BY <1>c, <1>d DEF Others, OwnChangesAreSeen, Agrees
<1> USE DEF diskVars, storeVars, history
<1>1. ASSUME NEW p \in Apps, Start(p) \/ Reload(p) PROVE OwnChangesAreSeen'
  BY <1>1, <1>0, <1>c, <1>d, StartMoves DEF SamePage
<1>2. ASSUME NEW p \in Apps, Save(p) PROVE OwnChangesAreSeen'
  BY <1>2, <1>0, <1>c, <1>d, SaveMoves
<1>3. ASSUME NEW p \in Apps, Remove(p) PROVE OwnChangesAreSeen'
  BY <1>3, <1>0, <1>c, <1>d, RemoveMoves
<1>4. ASSUME NEW p \in Apps, NEW k \in Loads, LoadAnswered(p, k) PROVE OwnChangesAreSeen'
  <2>1. Agrees(p, store[p].strategies)'
    BY <1>4, <1>0, <1>b, <1>c, AnsweredLoadMoves, SMTT(30) DEF AnswersAgreeFor, Agrees
  <2> QED BY <1>4, <1>0, <1>d, <2>1, AnsweredLoadMoves
<1>5. ASSUME NEW p \in Apps, BeginMutation(p) PROVE OwnChangesAreSeen'
  BY <1>5, <1>0, <1>c, <1>d, BeginMoves
<1>6. ASSUME NEW p \in Apps, MutationAnswered(p) PROVE OwnChangesAreSeen'
  <2>1. CASE mutation[p].reply = Failed /\ UNCHANGED <<store, history>>
    BY <1>6, <1>0, <1>c, <1>d, <2>1, MutationAnsweredMoves
  <2>2. CASE /\ mutation[p].reply # Failed /\ Acknowledge(p)
             /\ store'[p].strategies = mutation[p].reply
    <3>1. /\ mutation[p].pc = "answered" /\ mutation[p].op \in {"upsert", "delete"}
          /\ Agrees(p, mutation[p].reply) /\ Reflects(p, mutation[p].reply)
      BY <1>6, <1>0, <1>b, <2>2, MutationAnsweredMoves DEF AnswersAgreeFor
    <3>2. Agrees(p, store[p].strategies)'
      BY <1>0, <2>2, <3>1, AcknowledgeType DEF Agrees, Reflects
    <3> QED BY <1>6, <1>0, <1>d, <3>2, MutationAnsweredMoves
  <2> QED BY <1>6, <1>0, <2>1, <2>2, MutationAnsweredMoves
<1>7. ASSUME NEW p \in Apps, NEW k \in Loads, ServeLoad(p, k) PROVE OwnChangesAreSeen'
  BY <1>7, <1>0, <1>c, <1>d, ServeMoves
<1>8. ASSUME NEW p \in Apps, TakeCommand(p) PROVE OwnChangesAreSeen'
  BY <1>8, <1>0, <1>c, <1>d, TakeMoves
<1>9. ASSUME NEW p \in Apps, ReadFile(p) PROVE OwnChangesAreSeen'
  BY <1>9, <1>0, <1>c, <1>d, ReadMoves DEF ReadFile
<1>10. ASSUME NEW p \in Apps, WriteFile(p) PROVE OwnChangesAreSeen'
  BY <1>10, <1>0, <1>c, <1>d, WriteMoves DEF WriteFile
<1>11. ASSUME NEW p \in Apps, AcquireLock(p) PROVE OwnChangesAreSeen'
  BY <1>11, <1>0, <1>c, <1>d, AcquireMoves
<1>12. ASSUME NEW p \in Apps, Crash(p) PROVE OwnChangesAreSeen'
  <2>1. Agrees(p, store[p].strategies)'
    BY <1>12, <1>0, CrashMoves DEF Agrees
  <2> QED BY <1>12, <1>0, <1>d, <2>1, CrashMoves
<1>13. CASE EditByHand
  BY <1>13, <1>c DEF EditByHand, OwnChangesAreSeen, Agrees
<1>14. CASE UNCHANGED vars
  BY <1>14, <1>c DEF vars, OwnChangesAreSeen, Agrees
<1> QED BY <1>1, <1>2, <1>3, <1>4, <1>5, <1>6, <1>7, <1>8, <1>9, <1>10, <1>11, <1>12, <1>13, <1>14
    DEF Next, User, Page, Shell

LEMMA StepDiskInv == DiskInv /\ [Next]_vars => DiskInv'
<1> SUFFICES ASSUME DiskInv, [Next]_vars PROVE DiskInv'
  OBVIOUS
<1>1. /\ WaitInv /\ WritesHold /\ PendingIsUnknown /\ SavedOnce /\ DeletesAreAsked
  BY DEF DiskInv
<1>2. WaitInv'
  BY <1>1, StepType, StepMutations, StepInitial, StepWait DEF WaitInv, TypeInv
<1> QED BY <1>1, <1>2, StepWrites, StepDeletes, StepUnknown, StepOnce, StepAgrees,
           StepAcknowledged, StepSeen DEF DiskInv

\* What was acknowledged is in the file, whatever other processes write, until
\* somebody asks for its removal or breaks the file by hand (commands.rs:204-208).
THEOREM AcknowledgedStays == Spec => []AcknowledgedIsOnDisk
<1>1. DiskInv => AcknowledgedIsOnDisk
  BY DEF DiskInv
<1> QED BY InitDisk, StepDiskInv, <1>1, PTL DEF Spec

\* A window shows its own changes, whatever loads were in flight
\* (savedStrategyStore.ts:42-51).
THEOREM OwnChangesStay == Spec => []OwnChangesAreSeen
<1>1. DiskInv => OwnChangesAreSeen
  BY DEF DiskInv
<1> QED BY InitDisk, StepDiskInv, <1>1, PTL DEF Spec

-------------------------------------------------------------------------------
(* Part 2: what strategies find.                                           *)

\* The rows of every symbol are in the order of their days.
InOrder(f) ==
    \A s \in Symbols :
        /\ f[s] \in Seq(Row)
        /\ \A m, n \in 1..Len(f[s]) : m < n => f[s][m].day < f[s][n].day

\* g has the rows of f, and after them rows of days after d.
GoesOn(f, g, d) ==
    \A s \in Symbols :
        /\ Len(f[s]) <= Len(g[s])
        /\ \A n \in 1..Len(f[s]) : g[s][n] = f[s][n]
        /\ \A n \in (Len(f[s]) + 1)..Len(g[s]) : g[s][n].day > d

LEMMA LeastNumber ==
  ASSUME NEW S \in SUBSET Nat, S # {}
  PROVE  \E n \in S : \A m \in S : n <= m
<1> DEFINE B == {1..n : n \in S}
<1>1. IsWellFoundedOn(StrictSubsetOrdering(Nat), FiniteSubsetsOf(Nat))
  BY FS_StrictSubsetOrderingWellFounded
<1>2. B \subseteq FiniteSubsetsOf(Nat) /\ B # {}
  <2>1. \A n \in Nat : IsFiniteSet(1..n) /\ 1..n \subseteq Nat
    BY FS_Interval
  <2> QED BY <2>1 DEF FiniteSubsetsOf
<1> HIDE DEF B
<1>3. PICK I \in B : \A J \in B : <<J, I>> \notin StrictSubsetOrdering(Nat)
  BY <1>1, <1>2, WFMin
<1> USE DEF B
<1>4. PICK n \in S : I = 1..n
  BY <1>3
<1>5. ASSUME NEW m \in S, m < n PROVE FALSE
  <2>1. 1..m \subseteq 1..n /\ n \in 1..n /\ n \notin 1..m
    BY <1>5
  <2>2. <<1..m, 1..n>> \in StrictSubsetOrdering(Nat)
    BY <2>1 DEF StrictSubsetOrdering
  <2> QED BY <1>3, <1>4, <2>2
<1> QED BY <1>4, <1>5

\* Where the rows from a day on begin.
LEMMA FirstIs ==
  ASSUME NEW f, InOrder(f), NEW s \in Symbols, NEW c \in Int
  PROVE  /\ First(f, s, c) \in 1..(Len(f[s]) + 1)
         /\ \A n \in 1..Len(f[s]) : n >= First(f, s, c) <=> f[s][n].day >= c
<1> DEFINE len == Len(f[s])
           day(n) == f[s][n].day
           Splits(n) == /\ n = len + 1 \/ day(n) >= c
                        /\ n = 1 \/ day(n - 1) < c
           S == {n \in 1..(len + 1) : n = len + 1 \/ day(n) >= c}
<1>1. len \in Nat /\ \A n \in 1..len : day(n) \in Nat
  <2>1. f[s] \in Seq(Row)
    BY DEF InOrder
  <2>2. \A n \in 1..Len(f[s]) : f[s][n] \in Row
    BY <2>1
  <2>3. \A row \in Row : row.day \in Nat
    BY DEF Row
  <2> QED BY <2>1, <2>2, <2>3
<1>2. \A m, n \in 1..len : m < n => day(m) < day(n)
  BY DEF InOrder
<1>3. First(f, s, c) = CHOOSE n \in 1..(len + 1) : Splits(n)
  BY DEF First
<1> HIDE DEF len, day
<1>4. \E n \in 1..(len + 1) : Splits(n)
  <2>1. S \in SUBSET Nat /\ len + 1 \in S
    BY <1>1
  <2> HIDE DEF S
  <2>2. PICK n \in S : \A m \in S : n <= m
    BY <2>1, LeastNumber
  <2> USE DEF S
  <2>3. n = 1 \/ n - 1 \in 1..len
    BY <1>1
  <2>4. n = 1 \/ day(n - 1) < c
    BY <1>1, <2>2, <2>3
  <2> QED BY <2>4
<1> HIDE DEF Splits
<1>5. First(f, s, c) \in 1..(len + 1) /\ Splits(First(f, s, c))
  BY <1>3, <1>4
<1>6. ASSUME NEW k \in 1..(len + 1), Splits(k), NEW n \in 1..len
      PROVE  n >= k <=> day(n) >= c
  <2>1. CASE n >= k
    <3>1. k \in 1..len /\ day(k) >= c
      BY <1>1, <1>6, <2>1 DEF Splits
    <3> QED BY <1>1, <1>2, <2>1, <3>1
  <2>2. CASE n < k
    <3>1. k # 1 /\ k - 1 \in 1..len /\ day(k - 1) < c
      BY <1>1, <1>6, <2>2 DEF Splits
    <3>2. n = k - 1 \/ n < k - 1
      BY <1>1, <2>2
    <3> QED BY <1>1, <1>2, <2>2, <3>1, <3>2
  <2> QED BY <1>1, <2>1, <2>2
<1> QED BY <1>5, <1>6 DEF len, day

LEMMA RowsFromIs ==
  ASSUME NEW f, InOrder(f), NEW s \in Symbols, NEW c \in Int
  PROVE  /\ RowsFrom(f, c)[s] \in Seq(Row)
         /\ Len(RowsFrom(f, c)[s]) = Len(f[s]) + 1 - First(f, s, c)
         /\ \A n \in 1..Len(RowsFrom(f, c)[s]) :
               /\ n + First(f, s, c) - 1 \in 1..Len(f[s])
               /\ RowsFrom(f, c)[s][n] = f[s][n + First(f, s, c) - 1]
<1> DEFINE k == First(f, s, c)
           t == f[s]
           u == SubSeq(t, k, Len(t))
<1>1. t \in Seq(Row) /\ Len(t) \in Nat /\ k \in 1..(Len(t) + 1)
  BY FirstIs DEF InOrder
<1>2. \A i \in 1..Len(t) : t[i] \in Row
  BY <1>1
<1>3. RowsFrom(f, c)[s] = u
  BY DEF RowsFrom
<1> HIDE DEF t, k
<1>4. \A i \in k..Len(t) : t[i] \in Row
  BY <1>1, <1>2
<1>5. /\ u \in Seq(Row) /\ Len(u) = IF k <= Len(t) THEN Len(t) - k + 1 ELSE 0
      /\ \A i \in 1 .. Len(t) - k + 1 : u[i] = t[k + i - 1]
  BY <1>1, <1>4, SubSeqProperties
<1> HIDE DEF u
<1>6. Len(u) = Len(t) + 1 - k
  BY <1>1, <1>5
<1>7. ASSUME NEW n \in 1..Len(u)
      PROVE  n + k - 1 \in 1..Len(t) /\ u[n] = t[n + k - 1]
  <2>1. n \in 1 .. Len(t) - k + 1 /\ k + n - 1 = n + k - 1
    BY <1>1, <1>6
  <2> QED BY <1>1, <1>5, <2>1
<1> QED BY <1>3, <1>5, <1>6, <1>7 DEF t, k

LEMMA RowsFromInOrder ==
  ASSUME NEW f, InOrder(f), NEW c \in Int
  PROVE  InOrder(RowsFrom(f, c))
<1> DEFINE u == RowsFrom(f, c)
<1> SUFFICES ASSUME NEW s \in Symbols
             PROVE  /\ u[s] \in Seq(Row)
                    /\ \A m, n \in 1..Len(u[s]) : m < n => u[s][m].day < u[s][n].day
  BY DEF InOrder
<1> DEFINE k == First(f, s, c)
<1>1. /\ u[s] \in Seq(Row)
      /\ \A n \in 1..Len(u[s]) : n + k - 1 \in 1..Len(f[s]) /\ u[s][n] = f[s][n + k - 1]
  BY RowsFromIs
<1>2. k \in Nat
  BY FirstIs DEF InOrder
<1> HIDE DEF u, k
<1>3. \A m, n \in 1..Len(f[s]) : m < n => f[s][m].day < f[s][n].day
  BY DEF InOrder
<1>4. ASSUME NEW m \in 1..Len(u[s]), NEW n \in 1..Len(u[s]), m < n
      PROVE  u[s][m].day < u[s][n].day
  <2>1. m + k - 1 < n + k - 1
    BY <1>2, <1>4
  <2> QED BY <1>1, <1>3, <2>1
<1> QED BY <1>1, <1>4

LEMMA RowsFromGoesOn ==
  ASSUME NEW f, NEW g, NEW d \in Nat, InOrder(f), InOrder(g), GoesOn(f, g, d), NEW c \in Int
  PROVE  GoesOn(RowsFrom(f, c), RowsFrom(g, c), d)
<1> DEFINE u == RowsFrom(f, c)
           v == RowsFrom(g, c)
<1> SUFFICES ASSUME NEW s \in Symbols
             PROVE  /\ Len(u[s]) <= Len(v[s])
                    /\ \A n \in 1..Len(u[s]) : v[s][n] = u[s][n]
                    /\ \A n \in (Len(u[s]) + 1)..Len(v[s]) : v[s][n].day > d
  BY DEF GoesOn
<1> DEFINE k == First(f, s, c)
           j == First(g, s, c)
           lf == Len(f[s])
           lg == Len(g[s])
<1>1. lf \in Nat /\ lg \in Nat /\ lf <= lg
  BY DEF InOrder, GoesOn
<1>2. /\ k \in 1..(lf + 1) /\ j \in 1..(lg + 1)
      /\ \A n \in 1..lf : n >= k <=> f[s][n].day >= c
      /\ \A n \in 1..lg : n >= j <=> g[s][n].day >= c
  BY FirstIs
<1>3. /\ Len(u[s]) = lf + 1 - k /\ \A n \in 1..Len(u[s]) : u[s][n] = f[s][n + k - 1]
      /\ Len(v[s]) = lg + 1 - j /\ \A n \in 1..Len(v[s]) : v[s][n] = g[s][n + j - 1]
  BY RowsFromIs
<1>4. /\ \A n \in 1..lf : g[s][n] = f[s][n]
      /\ \A n \in (lf + 1)..lg : g[s][n].day > d
  BY DEF GoesOn
<1> HIDE DEF u, v, k, j, lf, lg
<1>5. CASE k <= lf
  <2>1. k \in 1..lg /\ k >= j
    BY <1>1, <1>2, <1>4, <1>5
  <2>2. j \in 1..lf /\ j >= k
    BY <1>1, <1>2, <1>4, <1>5, <2>1
  <2>3. j = k
    BY <1>2, <2>1, <2>2
  <2>4. Len(u[s]) <= Len(v[s])
    BY <1>1, <1>2, <1>3, <2>3
  <2>5. ASSUME NEW n \in 1..Len(u[s]) PROVE v[s][n] = u[s][n]
    <3>1. n \in 1..Len(v[s]) /\ n + k - 1 \in 1..lf
      BY <1>1, <1>2, <1>3, <2>3, <2>4
    <3> QED BY <1>3, <1>4, <2>3, <3>1
  <2>6. ASSUME NEW n \in (Len(u[s]) + 1)..Len(v[s]) PROVE v[s][n].day > d
    <3>1. n \in 1..Len(v[s]) /\ n + j - 1 \in (lf + 1)..lg
      BY <1>1, <1>2, <1>3, <2>3
    <3> QED BY <1>3, <1>4, <3>1
  <2> QED BY <2>4, <2>5, <2>6
<1>6. CASE k = lf + 1
  <2>1. j >= lf + 1
    <3> SUFFICES ASSUME j \in 1..lf PROVE FALSE
      BY <1>1, <1>2
    <3>1. g[s][j].day >= c /\ g[s][j] = f[s][j]
      BY <1>1, <1>2, <1>4
    <3>2. j >= k
      BY <1>2, <3>1
    <3> QED BY <1>1, <1>2, <1>6, <3>2
  <2>2. Len(u[s]) = 0 /\ Len(v[s]) \in Nat
    BY <1>1, <1>2, <1>3, <1>6
  <2>3. ASSUME NEW n \in 1..Len(v[s]) PROVE v[s][n].day > d
    <3>1. n + j - 1 \in (lf + 1)..lg
      BY <1>1, <1>2, <1>3, <2>1
    <3> QED BY <1>3, <1>4, <3>1
  <2> QED BY <2>2, <2>3
<1> QED BY <1>1, <1>2, <1>5, <1>6

-------------------------------------------------------------------------------
(* The columns.                                                            *)

\* r and q have the same first n rows.
Agree(r, q, n) == \A i \in 1..n : r[i] = q[i]

LEMMA WindowsAgree ==
  ASSUME NEW r, NEW q, NEW n \in Nat, Agree(r, q, n), NEW w \in 0..n, NEW f
  PROVE  Window(r, f, w, n) = Window(q, f, w, n)
<1>1. \A i \in 1..w : n - w + i \in 1..n
  OBVIOUS
<1>2. \A i \in 1..w : r[n - w + i][f] = q[n - w + i][f]
  BY <1>1 DEF Agree
<1> QED BY <1>2 DEF Window

LEMMA SmallerAgree ==
  ASSUME NEW r, NEW q, NEW n \in Nat, Agree(r, q, n), NEW m \in 0..n
  PROVE  Agree(r, q, m)
BY DEF Agree

LEMMA MacdAgrees ==
  ASSUME NEW r, NEW q, NEW n \in Nat, Agree(r, q, n)
  PROVE  DifOverDea(r, n) = DifOverDea(q, n) /\ Hist(r, n) = Hist(q, n)
<1> DEFINE closes(x) == [i \in 1..n |-> x[i].close]
           D(c) == [i \in 1..n |-> Ewm(c, 1, Fast, n)[i] * (Slow + 1)^(i - 1)
                                  - Ewm(c, 1, Slow, n)[i] * (Fast + 1)^(i - 1)]
<1>1. closes(r) = closes(q)
  BY DEF Agree
<1>2. Dif(r, n) = D(closes(r)) /\ Dif(q, n) = D(closes(q))
  BY DEF Dif
<1> HIDE DEF closes, D
<1>3. Dif(r, n) = Dif(q, n)
  BY <1>1, <1>2
<1>4. DifOverDea(r, n) = DifOverDea(q, n)
  BY <1>3, Zenon DEF DifOverDea
<1>5. Hist(r, n) = Hist(q, n)
  BY <1>4, Zenon DEF Hist
<1> QED BY <1>4, <1>5

LEMMA IndicatorsAgree ==
  ASSUME NEW r, NEW q, NEW n \in Nat, Agree(r, q, n), n # 0, NEW w \in Nat
  PROVE  /\ CloseOverMA(r, w, n) = CloseOverMA(q, w, n)
         /\ Return(r, w, n) = Return(q, w, n)
         /\ VolumeRatio(r, w, n) = VolumeRatio(q, w, n)
         /\ FlowSum(r, w, n) = FlowSum(q, w, n)
         /\ PositiveCount(r, w, n) = PositiveCount(q, w, n)
         /\ CloseOverHigh(r, w, n) = CloseOverHigh(q, w, n)
         /\ CloseOverLow(r, w, n) = CloseOverLow(q, w, n)
<1>1. r[n] = q[n]
  BY DEF Agree
<1>2. CASE n < w
  <2>1. n <= w
    BY <1>2
  <2> QED BY <1>2, <2>1 DEF CloseOverMA, Return, VolumeRatio, FlowSum, PositiveCount,
                            CloseOverHigh, CloseOverLow
<1>3. CASE ~(n < w)
  <2>1. w \in 0..n
    BY <1>3
  <2>2. \A f : Window(r, f, w, n) = Window(q, f, w, n)
    BY <2>1, WindowsAgree
  <2>3. CloseOverMA(r, w, n) = CloseOverMA(q, w, n) /\ FlowSum(r, w, n) = FlowSum(q, w, n)
    <3>1. /\ Window(r, "close", w, n) = Window(q, "close", w, n)
          /\ Window(r, "flow", w, n) = Window(q, "flow", w, n)
      BY <2>2
    <3>2. CloseOverMA(r, w, n) = CloseOverMA(q, w, n)
      BY <1>1, <3>1, Zenon DEF CloseOverMA
    <3>3. FlowSum(r, w, n) = FlowSum(q, w, n)
      BY <3>1, Zenon DEF FlowSum
    <3> QED BY <3>2, <3>3
  <2>4. PositiveCount(r, w, n) = PositiveCount(q, w, n)
    <3>1. \A i \in (n - w + 1)..n : i \in 1..n
      BY <2>1
    <3>2. {i \in (n - w + 1)..n : r[i].flow # NaN /\ r[i].flow > 0}
          = {i \in (n - w + 1)..n : q[i].flow # NaN /\ q[i].flow > 0}
      BY <3>1 DEF Agree
    <3> QED BY <3>2, Zenon DEF PositiveCount
  <2>5. CASE n = w
    <3>1. n <= w
      BY <2>5
    <3> QED BY <2>3, <2>4, <3>1, Zenon DEF Return, VolumeRatio, CloseOverHigh, CloseOverLow
  <2>6. CASE n # w
    <3>1. n - 1 \in 0..n /\ w \in 0..(n - 1) /\ n - w \in 1..n
      BY <2>1, <2>6
    <3>2. \A f : Window(r, f, w, n - 1) = Window(q, f, w, n - 1)
      BY <3>1, SmallerAgree, WindowsAgree
    <3>3. r[n - w] = q[n - w]
      BY <3>1 DEF Agree
    <3> QED BY <1>1, <2>3, <2>4, <3>2, <3>3, Zenon
            DEF Return, VolumeRatio, CloseOverHigh, CloseOverLow
  <2> QED BY <2>5, <2>6
<1> QED BY <1>2, <1>3

-------------------------------------------------------------------------------
(* A frame and one that goes on after day d agree on the days up to d.      *)

\* Both are frames of all symbols, g with later days than f.
Longer(f, g, d) ==
    /\ DOMAIN f = Symbols /\ DOMAIN g = Symbols
    /\ InOrder(f) /\ InOrder(g) /\ GoesOn(f, g, d)

LEMMA RowsAgree ==
  ASSUME NEW d \in Nat, NEW f, NEW g, Longer(f, g, d), NEW s \in Symbols
  PROVE  /\ Len(f[s]) \in Nat /\ Len(g[s]) \in Nat /\ Len(f[s]) <= Len(g[s])
         /\ \A n \in 1..Len(f[s]) : Agree(f[s], g[s], n)
         /\ \A n \in 1..Len(g[s]) : g[s][n].day <= d => n \in 1..Len(f[s])
         /\ \A n \in 1..Len(f[s]) : f[s][n].day \in Nat
         /\ \A n \in 1..Len(f[s]), m \in 1..Len(f[s]) : m < n => f[s][m].day < f[s][n].day
<1>1. f[s] \in Seq(Row) /\ g[s] \in Seq(Row)
  BY DEF Longer, InOrder
<1>2. Len(f[s]) \in Nat /\ Len(g[s]) \in Nat /\ Len(f[s]) <= Len(g[s])
  BY <1>1 DEF Longer, GoesOn
<1>3. \A i \in 1..Len(f[s]) : g[s][i] = f[s][i]
  BY DEF Longer, GoesOn
<1>4. ASSUME NEW n \in 1..Len(f[s]) PROVE Agree(f[s], g[s], n)
  BY <1>2, <1>3 DEF Agree
<1>5. \A row \in Row : row.day \in Nat
  BY DEF Row
<1>6. \A n \in 1..Len(g[s]) : g[s][n].day \in Nat
  BY <1>1, <1>5
<1>7. \A n \in (Len(f[s]) + 1)..Len(g[s]) : g[s][n].day > d
  BY DEF Longer, GoesOn
<1>8. ASSUME NEW n \in 1..Len(g[s]), g[s][n].day <= d PROVE n \in 1..Len(f[s])
  BY <1>2, <1>6, <1>7, <1>8
<1>9. \A n \in 1..Len(f[s]) : f[s][n].day \in Nat
  BY <1>1, <1>5
<1>10. \A n \in 1..Len(f[s]), m \in 1..Len(f[s]) : m < n => f[s][m].day < f[s][n].day
  BY DEF Longer, InOrder
<1> QED BY <1>2, <1>4, <1>8, <1>9, <1>10

LEMMA HeatAgrees ==
  ASSUME NEW d \in Nat, NEW f, NEW g, Longer(f, g, d), NEW e \in Nat, e <= d
  PROVE  Heat(f, e) = Heat(g, e)
<1> DEFINE at(x, s) == {n \in 1..Len(x[s]) : x[s][n].day = e}
           there(x) == {s \in Symbols : at(x, s) # {}}
           rises(x, s, n) == n > 1 /\ x[s][n].close > x[s][n - 1].close
           rising(x) == {s \in there(x) : \E n \in at(x, s) : rises(x, s, n)}
<1>1. ASSUME NEW s \in Symbols PROVE at(f, s) = at(g, s)
  <2>1. /\ Len(f[s]) \in Nat /\ Len(g[s]) \in Nat /\ Len(f[s]) <= Len(g[s])
        /\ \A n \in 1..Len(g[s]) : g[s][n].day <= d => n \in 1..Len(f[s])
    BY RowsAgree
  <2>2. \A n \in 1..Len(f[s]) : g[s][n] = f[s][n]
    BY DEF Longer, GoesOn
  <2> QED BY <2>1, <2>2
<1>2. ASSUME NEW s \in Symbols, NEW n \in at(f, s) PROVE rises(f, s, n) <=> rises(g, s, n)
  <2>1. n \in 1..Len(f[s]) /\ Agree(f[s], g[s], n)
    BY RowsAgree
  <2>2. n > 1 => n \in 1..n /\ n - 1 \in 1..n
    BY <2>1
  <2>3. n > 1 => f[s][n] = g[s][n] /\ f[s][n - 1] = g[s][n - 1]
    BY <2>1, <2>2 DEF Agree
  <2> QED BY <2>3
<1> HIDE DEF rises, at
<1>3. there(f) = there(g)
  BY <1>1
<1>4. rising(f) = rising(g)
  BY <1>1, <1>2, <1>3
<1>5. /\ Heat(f, e) = <<100 * Cardinality(rising(f)), Cardinality(there(f))>>
      /\ Heat(g, e) = <<100 * Cardinality(rising(g)), Cardinality(there(g))>>
  BY Zenon DEF Heat, Longer, at, rises
<1> HIDE DEF there, rising
<1> QED BY <1>3, <1>4, <1>5

LEMMA ColumnsAgree ==
  ASSUME NEW d \in Nat, NEW f, NEW g, Longer(f, g, d), NEW s \in Symbols,
         NEW n \in 1..Len(f[s]), f[s][n].day <= d, NEW node \in ConditionNode
  PROVE  Column(f, node, s, n) = Column(g, node, s, n)
<1>1. n \in Nat /\ n # 0 /\ Agree(f[s], g[s], n) /\ f[s][n].day \in Nat
  BY RowsAgree
<1>2. f[s][n] = g[s][n]
  BY <1>1 DEF Agree
<1>3. Heat(f, f[s][n].day) = Heat(g, g[s][n].day)
  BY <1>1, <1>2, HeatAgrees
<1>4. node.window \in Nat /\ node.id \in ConditionIds
  BY DEF ConditionNode
<1> DEFINE w == node.window
           r == f[s]
           q == g[s]
<1>5. /\ CloseOverMA(r, w, n) = CloseOverMA(q, w, n)
      /\ Return(r, w, n) = Return(q, w, n)
      /\ VolumeRatio(r, w, n) = VolumeRatio(q, w, n)
      /\ FlowSum(r, w, n) = FlowSum(q, w, n)
      /\ PositiveCount(r, w, n) = PositiveCount(q, w, n)
      /\ CloseOverHigh(r, w, n) = CloseOverHigh(q, w, n)
      /\ CloseOverLow(r, w, n) = CloseOverLow(q, w, n)
  BY <1>1, <1>4, IndicatorsAgree
<1>6. DifOverDea(r, n) = DifOverDea(q, n) /\ Hist(r, n) = Hist(q, n)
  BY <1>1, MacdAgrees
<1> QED BY <1>2, <1>3, <1>4, <1>5, <1>6 DEF Column, ConditionIds

LEMMA WasNotBelowAgrees ==
  ASSUME NEW d \in Nat, NEW f, NEW g, Longer(f, g, d), NEW s \in Symbols,
         NEW n \in 1..Len(f[s]), NEW first \in Nat \ {0}
  PROVE  WasNotBelow(f, s, first, n) <=> WasNotBelow(g, s, first, n)
<1>1. n \in Nat /\ Agree(f[s], g[s], n)
  <2>1. n \in Nat
    OBVIOUS
  <2>2. Agree(f[s], g[s], n)
    BY RowsAgree
  <2> QED BY <2>1, <2>2
<1>2. CASE n > first
  <2>1. n - 1 \in Nat /\ Agree(f[s], g[s], n - 1)
    BY <1>1, <1>2, SmallerAgree
  <2>2. DifOverDea(f[s], n - 1) = DifOverDea(g[s], n - 1)
    BY <2>1, MacdAgrees
  <2> QED BY <2>2 DEF WasNotBelow
<1>3. CASE ~(n > first)
  BY <1>3 DEF WasNotBelow
<1> QED BY <1>2, <1>3

LEMMA ConditionsAgree ==
  ASSUME NEW d \in Nat, NEW f, NEW g, Longer(f, g, d), NEW s \in Symbols,
         NEW n \in 1..Len(f[s]), f[s][n].day <= d, NEW node \in ConditionNode,
         NEW first \in Nat \ {0}
  PROVE  /\ Evaluate(f, node, s, first, n) <=> Evaluate(g, node, s, first, n)
         /\ Mask(f, node, s, first, n) <=> Mask(g, node, s, first, n)
<1>1. ASSUME NEW m \in 1..n
      PROVE  /\ RowPasses(f, node, s, first, m) <=> RowPasses(g, node, s, first, m)
             /\ Column(f, node, s, m) = Column(g, node, s, m)
             /\ WasNotBelow(f, s, first, m) <=> WasNotBelow(g, s, first, m)
  <2>1. m \in 1..Len(f[s]) /\ f[s][m].day <= d
    <3>1. /\ Len(f[s]) \in Nat
          /\ \A i \in 1..Len(f[s]) : f[s][i].day \in Nat
          /\ \A j \in 1..Len(f[s]), i \in 1..Len(f[s]) : i < j => f[s][i].day < f[s][j].day
      BY RowsAgree
    <3>2. m \in 1..Len(f[s]) /\ (m = n \/ m < n)
      BY <3>1
    <3> QED BY <3>1, <3>2
  <2>2. Column(f, node, s, m) = Column(g, node, s, m)
    BY <2>1, ColumnsAgree
  <2>3. WasNotBelow(f, s, first, m) <=> WasNotBelow(g, s, first, m)
    BY <2>1, WasNotBelowAgrees
  <2> QED BY <2>2, <2>3 DEF RowPasses
<1>2. node.lag \in Nat
  BY DEF ConditionNode
<1>3. n - node.lag >= first => n - node.lag \in 1..n
  BY <1>2
<1>4. Evaluate(f, node, s, first, n) <=> Evaluate(g, node, s, first, n)
  BY <1>1, <1>3 DEF Evaluate
<1>5. n \in 1..n
  OBVIOUS
<1>6. Mask(f, node, s, first, n) <=> Mask(g, node, s, first, n)
  BY <1>1, <1>5 DEF Mask
<1> QED BY <1>4, <1>6

\* The first row of a backtest is the same, seen from a row of the backtest.
LEMMA FirstAgrees ==
  ASSUME NEW d \in Nat, NEW f, NEW g, Longer(f, g, d), NEW s \in Symbols,
         NEW n \in 1..Len(f[s]), NEW c \in Int, f[s][n].day >= c
  PROVE  First(f, s, c) = First(g, s, c) /\ First(f, s, c) \in Nat \ {0}
<1> DEFINE k == First(f, s, c)
           j == First(g, s, c)
           lf == Len(f[s])
           lg == Len(g[s])
<1>1. lf \in Nat /\ lg \in Nat /\ lf <= lg /\ \A i \in 1..lf : g[s][i] = f[s][i]
  BY RowsAgree DEF Longer, GoesOn
<1>2. InOrder(f) /\ InOrder(g)
  BY DEF Longer
<1>3. /\ k \in 1..(lf + 1) /\ j \in 1..(lg + 1)
      /\ \A i \in 1..lf : i >= k <=> f[s][i].day >= c
      /\ \A i \in 1..lg : i >= j <=> g[s][i].day >= c
  BY <1>2, FirstIs
<1> HIDE DEF k, j, lf, lg
<1>4. n >= k /\ n >= j /\ n \in 1..lf
  <2>1. n \in 1..lf /\ n \in 1..lg /\ g[s][n].day >= c
    BY <1>1 DEF lf
  <2> QED BY <1>3, <2>1
<1>5. k \in 1..lf /\ j \in 1..lf /\ k \in 1..lg
  BY <1>1, <1>3, <1>4
<1>6. f[s][k].day >= c /\ g[s][j].day >= c
  BY <1>1, <1>3, <1>5
<1>7. k >= j
  <2>1. g[s][k].day >= c
    BY <1>1, <1>5, <1>6
  <2> QED BY <1>3, <1>5, <2>1
<1>8. j >= k
  <2>1. f[s][j].day >= c
    BY <1>1, <1>5, <1>6
  <2> QED BY <1>3, <1>5, <2>1
<1> QED BY <1>3, <1>7, <1>8 DEF k, j

\* The operators read the conditions only through what they evaluate to.
LEMMA GroupsRead ==
  ASSUME NEW f, NEW j, NEW n, NEW g, NEW k, NEW m, NEW s, NEW st \in StrategyConfig,
         \A node \in Nodes(st) :
            /\ Evaluate(f, node, s, j, n) <=> Evaluate(g, node, s, k, m)
            /\ Mask(f, node, s, j, n) <=> Mask(g, node, s, k, m)
  PROVE  /\ Prefiltered(f, st, s, j, n) <=> Prefiltered(g, st, s, k, m)
         /\ Passes(f, st, s, j, n) <=> Passes(g, st, s, k, m)
<1> DEFINE ev1(node) == Evaluate(f, node, s, j, n)
           ev2(node) == Evaluate(g, node, s, k, m)
           ma1(node) == Mask(f, node, s, j, n)
           ma2(node) == Mask(g, node, s, k, m)
           weigh1(grp) == MapThenSumSet(Weight, {node \in grp.nodes : ev1(node)})
           weigh2(grp) == MapThenSumSet(Weight, {node \in grp.nodes : ev2(node)})
<1>1. \A grp \in st.groups : grp.op \in {"and", "or", "score"}
  BY DEF StrategyConfig, ConditionGroup
<1>2. /\ \A node \in st.filters : (ev1(node) <=> ev2(node)) /\ (ma1(node) <=> ma2(node))
      /\ \A grp \in st.groups : \A node \in grp.nodes :
            (ev1(node) <=> ev2(node)) /\ (ma1(node) <=> ma2(node))
  BY DEF Nodes
<1>3. /\ Prefiltered(f, st, s, j, n) <=>
             /\ \A node \in st.filters : ma1(node)
             /\ \A grp \in st.groups :
                   /\ grp.op = "and" => \A node \in grp.nodes : ma1(node)
                   /\ grp.op = "or" => \E node \in grp.nodes : ma1(node)
      /\ Prefiltered(g, st, s, k, m) <=>
             /\ \A node \in st.filters : ma2(node)
             /\ \A grp \in st.groups :
                   /\ grp.op = "and" => \A node \in grp.nodes : ma2(node)
                   /\ grp.op = "or" => \E node \in grp.nodes : ma2(node)
  BY <1>1 DEF Prefiltered, GroupPasses
<1>4. /\ Passes(f, st, s, j, n) <=>
             /\ \A node \in st.filters : ev1(node)
             /\ \A grp \in st.groups :
                   /\ grp.op = "and" => \A node \in grp.nodes : ev1(node)
                   /\ grp.op = "or" => \E node \in grp.nodes : ev1(node)
                   /\ grp.op = "score" => weigh1(grp) >= st.threshold
      /\ Passes(g, st, s, k, m) <=>
             /\ \A node \in st.filters : ev2(node)
             /\ \A grp \in st.groups :
                   /\ grp.op = "and" => \A node \in grp.nodes : ev2(node)
                   /\ grp.op = "or" => \E node \in grp.nodes : ev2(node)
                   /\ grp.op = "score" => weigh2(grp) >= st.threshold
  BY <1>1 DEF Passes, GroupPasses
<1> HIDE DEF ev1, ev2, ma1, ma2
<1>5. ASSUME NEW grp \in st.groups PROVE weigh1(grp) = weigh2(grp)
  <2>1. {node \in grp.nodes : ev1(node)} = {node \in grp.nodes : ev2(node)}
    BY <1>2
  <2> QED BY <2>1
<1> HIDE DEF weigh1, weigh2
<1>6. Prefiltered(f, st, s, j, n) <=> Prefiltered(g, st, s, k, m)
  BY <1>2, <1>3
<1>7. Passes(f, st, s, j, n) <=> Passes(g, st, s, k, m)
  BY <1>2, <1>4, <1>5
<1> QED BY <1>6, <1>7

LEMMA NodesType ==
  ASSUME NEW st \in StrategyConfig
  PROVE  Nodes(st) \subseteq ConditionNode
<1>1. /\ st.filters \subseteq ConditionNode /\ st.exits \subseteq ConditionNode
      /\ st.groups \subseteq ConditionGroup
  BY DEF StrategyConfig
<1>2. \A grp \in st.groups : grp.nodes \subseteq ConditionNode
  BY <1>1 DEF ConditionGroup
<1>3. UNION {grp.nodes : grp \in st.groups} \subseteq ConditionNode
  BY <1>2
<1> QED BY <1>1, <1>3 DEF Nodes

LEMMA GroupsAgree ==
  ASSUME NEW d \in Nat, NEW f, NEW g, Longer(f, g, d), NEW s \in Symbols,
         NEW n \in 1..Len(f[s]), f[s][n].day <= d, NEW first \in Nat \ {0},
         NEW st \in StrategyConfig
  PROVE  /\ Prefiltered(f, st, s, first, n) <=> Prefiltered(g, st, s, first, n)
         /\ Passes(f, st, s, first, n) <=> Passes(g, st, s, first, n)
<1>1. \A node \in Nodes(st) :
         /\ Evaluate(f, node, s, first, n) <=> Evaluate(g, node, s, first, n)
         /\ Mask(f, node, s, first, n) <=> Mask(g, node, s, first, n)
  BY NodesType, ConditionsAgree
<1> QED BY <1>1, GroupsRead

\* A strategy that is not refused is not refused later.
LEMMA RefusedEarly ==
  ASSUME NEW d \in Nat, NEW f, NEW g, Longer(f, g, d), NEW st, Refused(g, st)
  PROVE  Refused(f, st)
<1> DEFINE all(x, c) == \A s \in Symbols : \A n \in DOMAIN x[s] : x[s][n][c] = NaN
<1>1. ASSUME NEW c, all(g, c) PROVE all(f, c)
  <2> SUFFICES ASSUME NEW s \in Symbols, NEW n \in DOMAIN f[s] PROVE f[s][n][c] = NaN
    OBVIOUS
  <2>1. f[s] \in Seq(Row) /\ g[s] \in Seq(Row)
    BY DEF Longer, InOrder
  <2>2. Len(f[s]) \in Nat /\ Len(g[s]) \in Nat /\ Len(f[s]) <= Len(g[s])
    BY RowsAgree
  <2>3. n \in 1..Len(f[s]) /\ n \in DOMAIN g[s]
    BY <2>1, <2>2
  <2>4. g[s][n] = f[s][n]
    BY <2>3 DEF Longer, GoesOn
  <2> QED BY <1>1, <2>3, <2>4
<1>2. /\ Refused(g, st) <=>
            LET ids == {node.id : node \in Nodes(st)}
            IN  \/ ids \cap FlowConditions # {} /\ all(g, "flow")
                \/ "market_cap_between" \in ids /\ all(g, "cap")
      /\ Refused(f, st) <=>
            LET ids == {node.id : node \in Nodes(st)}
            IN  \/ ids \cap FlowConditions # {} /\ all(f, "flow")
                \/ "market_cap_between" \in ids /\ all(f, "cap")
  BY Zenon DEF Refused
<1> HIDE DEF all
<1> QED BY <1>1, <1>2

\* What a strategy finds on a day is not changed by days after it.
LEMMA MatchesAgree ==
  ASSUME NEW d \in Nat, NEW f, NEW g, Longer(f, g, d), NEW st \in StrategyConfig,
         NEW start \in Int, Matches(f, st, start, d) # Blocked
  PROVE  Matches(g, st, start, d) = Matches(f, st, start, d)
<1> DEFINE u == Loaded(f, start)
           v == Loaded(g, start)
<1>1. Longer(u, v, d)
  <2>1. start - Warmup \in Int
    BY SignalsAssumption
  <2>2. InOrder(u) /\ InOrder(v) /\ GoesOn(u, v, d)
    BY <2>1, RowsFromInOrder, RowsFromGoesOn DEF Longer, Loaded
  <2>3. DOMAIN u = Symbols /\ DOMAIN v = Symbols
    BY DEF Loaded, RowsFrom
  <2> QED BY <2>2, <2>3 DEF Longer
<1>2. /\ Matches(f, st, start, d) =
           IF Refused(u, st) THEN Blocked
           ELSE IF d < start THEN [entries |-> {}, exits |-> {}]
           ELSE [entries |-> Entries(u, st, start, d), exits |-> Exits(u, st, start, d)]
      /\ Matches(g, st, start, d) =
           IF Refused(v, st) THEN Blocked
           ELSE IF d < start THEN [entries |-> {}, exits |-> {}]
           ELSE [entries |-> Entries(v, st, start, d), exits |-> Exits(v, st, start, d)]
  BY Zenon DEF Matches
<1> HIDE DEF u, v
<1>3. ~Refused(u, st) /\ ~Refused(v, st)
  BY <1>1, <1>2, RefusedEarly
<1>4. CASE d < start
  BY <1>2, <1>3, <1>4
<1>5. CASE ~(d < start)
  <2>1. Rows(u, d) = Rows(v, d)
    <3> SUFFICES ASSUME NEW x \in Pool \X (1..d)
                 PROVE  (x[2] \in DOMAIN u[x[1]] /\ u[x[1]][x[2]].day = d) <=>
                        (x[2] \in DOMAIN v[x[1]] /\ v[x[1]][x[2]].day = d)
      BY DEF Rows
    <3> DEFINE s == x[1]
               n == x[2]
    <3>1. s \in Symbols
      BY SignalsAssumption
    <3>2. /\ Len(u[s]) \in Nat /\ Len(v[s]) \in Nat /\ Len(u[s]) <= Len(v[s])
          /\ \A i \in 1..Len(v[s]) : v[s][i].day <= d => i \in 1..Len(u[s])
      BY <1>1, <3>1, RowsAgree
    <3>3. \A i \in 1..Len(u[s]) : v[s][i] = u[s][i]
      BY <1>1, <3>1 DEF Longer, GoesOn
    <3>4. DOMAIN u[s] = 1..Len(u[s]) /\ DOMAIN v[s] = 1..Len(v[s])
      <4>1. u[s] \in Seq(Row) /\ v[s] \in Seq(Row)
        BY <1>1, <3>1 DEF Longer, InOrder
      <4> QED BY <4>1
    <3> HIDE DEF s, n
    <3>5. (n \in DOMAIN u[s] /\ u[s][n].day = d) <=> (n \in DOMAIN v[s] /\ v[s][n].day = d)
      BY <3>2, <3>3, <3>4
    <3> QED BY <3>5 DEF s, n
  <2>2. ASSUME NEW x \in Rows(u, d)
        PROVE  /\ x[1] \in Symbols /\ x[2] \in 1..Len(u[x[1]]) /\ u[x[1]][x[2]].day = d
               /\ v[x[1]][x[2]] = u[x[1]][x[2]]
               /\ First(u, x[1], start) = First(v, x[1], start)
               /\ First(u, x[1], start) \in Nat \ {0}
    <3>1. x[1] \in Pool /\ x[2] \in DOMAIN u[x[1]] /\ u[x[1]][x[2]].day = d
      BY DEF Rows
    <3>2. x[1] \in Symbols
      BY <3>1, SignalsAssumption
    <3>3. u[x[1]] \in Seq(Row)
      BY <1>1, <3>2 DEF Longer, InOrder
    <3>4. x[2] \in 1..Len(u[x[1]])
      BY <3>1, <3>3
    <3>5. v[x[1]][x[2]] = u[x[1]][x[2]]
      BY <1>1, <3>2, <3>4 DEF Longer, GoesOn
    <3>6. u[x[1]][x[2]].day >= start
      BY <1>5, <3>1
    <3>7. First(u, x[1], start) = First(v, x[1], start) /\ First(u, x[1], start) \in Nat \ {0}
      BY <1>1, <3>2, <3>4, <3>6, FirstAgrees
    <3> QED BY <3>1, <3>2, <3>4, <3>5, <3>7
  <2>3. Entries(u, st, start, d) = Entries(v, st, start, d)
    <3> DEFINE Enters(z, y) ==
                 LET first == First(z, y[1], start) IN
                 /\ ~z[y[1]][y[2]].barred
                 /\ Prefiltered(z, st, y[1], first, y[2])
                 /\ Passes(z, st, y[1], first, y[2])
    <3>1. ASSUME NEW y \in Rows(u, d) PROVE Enters(u, y) <=> Enters(v, y)
      <4> DEFINE first == First(u, y[1], start)
      <4>1. /\ y[1] \in Symbols /\ y[2] \in 1..Len(u[y[1]]) /\ u[y[1]][y[2]].day <= d
            /\ v[y[1]][y[2]] = u[y[1]][y[2]]
            /\ first = First(v, y[1], start) /\ first \in Nat \ {0}
        BY <2>2
      <4> HIDE DEF first
      <4>2. /\ Prefiltered(u, st, y[1], first, y[2]) <=> Prefiltered(v, st, y[1], first, y[2])
            /\ Passes(u, st, y[1], first, y[2]) <=> Passes(v, st, y[1], first, y[2])
        BY <1>1, <4>1, GroupsAgree
      <4> QED BY <4>1, <4>2 DEF first
    <3>2. /\ Entries(u, st, start, d) = {x[1] : x \in {y \in Rows(u, d) : Enters(u, y)}}
          /\ Entries(v, st, start, d) = {x[1] : x \in {y \in Rows(v, d) : Enters(v, y)}}
      BY Zenon DEF Entries
    <3> HIDE DEF Enters
    <3>3. {y \in Rows(u, d) : Enters(u, y)} = {y \in Rows(v, d) : Enters(v, y)}
      BY <2>1, <3>1
    <3> QED BY <3>2, <3>3
  <2>4. Exits(u, st, start, d) = Exits(v, st, start, d)
    <3> DEFINE Leaves(z, y) ==
                 \E node \in st.exits : Evaluate(z, node, y[1], First(z, y[1], start), y[2])
    <3>1. ASSUME NEW y \in Rows(u, d) PROVE Leaves(u, y) <=> Leaves(v, y)
      <4> DEFINE first == First(u, y[1], start)
      <4>1. /\ y[1] \in Symbols /\ y[2] \in 1..Len(u[y[1]]) /\ u[y[1]][y[2]].day <= d
            /\ first = First(v, y[1], start) /\ first \in Nat \ {0}
        BY <2>2
      <4> HIDE DEF first
      <4>2. \A node \in ConditionNode :
                Evaluate(u, node, y[1], first, y[2]) <=> Evaluate(v, node, y[1], first, y[2])
        BY <1>1, <4>1, ConditionsAgree
      <4>3. st.exits \subseteq ConditionNode
        BY DEF StrategyConfig
      <4> QED BY <4>1, <4>2, <4>3 DEF first
    <3>2. /\ Exits(u, st, start, d) = {x[1] : x \in {y \in Rows(u, d) : Leaves(u, y)}}
          /\ Exits(v, st, start, d) = {x[1] : x \in {y \in Rows(v, d) : Leaves(v, y)}}
      BY Zenon DEF Exits
    <3> HIDE DEF Leaves
    <3>3. {y \in Rows(u, d) : Leaves(u, y)} = {y \in Rows(v, d) : Leaves(v, y)}
      BY <2>1, <3>1
    <3> QED BY <3>2, <3>3
  <2> QED BY <1>2, <1>3, <1>5, <2>3, <2>4
<1> QED BY <1>4, <1>5

-------------------------------------------------------------------------------
(* Where a frame begins is forgotten.                                      *)

\* The n-th row of r and the m-th of q, and the w rows before them, are the same.
SamePast(r, n, q, m, w) ==
    /\ n \in Nat /\ m \in Nat /\ n > w /\ m > w
    /\ \A i \in 0..w : r[n - i] = q[m - i]

LEMMA WindowsShift ==
  ASSUME NEW w \in Nat, NEW r, NEW q, NEW n, NEW m, SamePast(r, n, q, m, w), NEW f
  PROVE  /\ Window(r, f, w, n) = Window(q, f, w, m)
         /\ Window(r, f, w, n - 1) = Window(q, f, w, m - 1)
<1>1. ASSUME NEW i \in 1..w
      PROVE  /\ r[n - w + i] = q[m - w + i]
             /\ r[(n - 1) - w + i] = q[(m - 1) - w + i]
  <2>1. /\ n \in Nat /\ m \in Nat /\ \A j \in 0..w : r[n - j] = q[m - j]
    BY DEF SamePast
  <2>2. w - i \in 0..w /\ w - i + 1 \in 0..w
    OBVIOUS
  <2>3. /\ n - (w - i) = n - w + i /\ m - (w - i) = m - w + i
        /\ n - (w - i + 1) = (n - 1) - w + i /\ m - (w - i + 1) = (m - 1) - w + i
    BY <2>1
  <2>4. r[n - (w - i)] = q[m - (w - i)] /\ r[n - (w - i + 1)] = q[m - (w - i + 1)]
    BY <2>1, <2>2
  <2> QED BY <2>3, <2>4
<1> QED BY <1>1 DEF Window

LEMMA IndicatorsShift ==
  ASSUME NEW w \in Nat, NEW r, NEW q, NEW n, NEW m, SamePast(r, n, q, m, w)
  PROVE  /\ r[n] = q[m]
         /\ CloseOverMA(r, w, n) = CloseOverMA(q, w, m)
         /\ Return(r, w, n) = Return(q, w, m)
         /\ VolumeRatio(r, w, n) = VolumeRatio(q, w, m)
         /\ FlowSum(r, w, n) = FlowSum(q, w, m)
         /\ PositiveCount(r, w, n) = PositiveCount(q, w, m)
         /\ CloseOverHigh(r, w, n) = CloseOverHigh(q, w, m)
         /\ CloseOverLow(r, w, n) = CloseOverLow(q, w, m)
<1>1. /\ n \in Nat /\ m \in Nat /\ \A j \in 0..w : r[n - j] = q[m - j]
      /\ ~(n < w) /\ ~(m < w) /\ ~(n <= w) /\ ~(m <= w)
  BY DEF SamePast
<1>2. r[n] = q[m] /\ r[n - w] = q[m - w]
  <2>1. 0 \in 0..w /\ w \in 0..w /\ n - 0 = n /\ m - 0 = m
    BY <1>1
  <2>2. r[n - 0] = q[m - 0] /\ r[n - w] = q[m - w]
    BY <1>1, <2>1
  <2> QED BY <2>1, <2>2
<1>3. /\ Window(r, "close", w, n) = Window(q, "close", w, m)
      /\ Window(r, "flow", w, n) = Window(q, "flow", w, m)
      /\ Window(r, "volume", w, n - 1) = Window(q, "volume", w, m - 1)
      /\ Window(r, "high", w, n - 1) = Window(q, "high", w, m - 1)
      /\ Window(r, "low", w, n - 1) = Window(q, "low", w, m - 1)
  BY WindowsShift
<1>4. CloseOverMA(r, w, n) = CloseOverMA(q, w, m) /\ FlowSum(r, w, n) = FlowSum(q, w, m)
  BY <1>1, <1>2, <1>3, Zenon DEF CloseOverMA, FlowSum
<1>5. /\ Return(r, w, n) = Return(q, w, m)
      /\ VolumeRatio(r, w, n) = VolumeRatio(q, w, m)
      /\ CloseOverHigh(r, w, n) = CloseOverHigh(q, w, m)
      /\ CloseOverLow(r, w, n) = CloseOverLow(q, w, m)
  BY <1>1, <1>2, <1>3, Zenon DEF Return, VolumeRatio, CloseOverHigh, CloseOverLow
<1>6. PositiveCount(r, w, n) = PositiveCount(q, w, m)
  <2> DEFINE In(x, k) == {i \in (k - w + 1)..k : x[i].flow # NaN /\ x[i].flow > 0}
             move == [i \in In(r, n) |-> i - n + m]
  <2>1. IsFiniteSet(In(r, n))
    <3>1. IsFiniteSet((n - w + 1)..n)
      BY <1>1, FS_Interval
    <3> QED BY <3>1, FS_Subset
  <2>2. ASSUME NEW i \in Int
        PROVE  i \in In(r, n) <=> i - n + m \in In(q, m)
    <3>1. i \in (n - w + 1)..n <=> i - n + m \in (m - w + 1)..m
      BY <1>1
    <3>2. ASSUME i \in (n - w + 1)..n PROVE r[i] = q[i - n + m]
      <4>1. n - i \in 0..w /\ n - (n - i) = i /\ m - (n - i) = i - n + m
        BY <1>1, <3>2
      <4>2. r[n - (n - i)] = q[m - (n - i)]
        BY <1>1, <4>1
      <4> QED BY <4>1, <4>2
    <3> QED BY <3>1, <3>2
  <2>3. In(r, n) \subseteq Int /\ In(q, m) \subseteq Int
    OBVIOUS
  <2> HIDE DEF In
  <2>4. move \in [In(r, n) -> In(q, m)]
    BY <2>2, <2>3
  <2>5. \A i, j \in In(r, n) : move[i] = move[j] => i = j
    BY <1>1, <2>3
  <2>6. ASSUME NEW j \in In(q, m) PROVE \E i \in In(r, n) : move[i] = j
    <3>1. j \in Int /\ j - m + n \in Int /\ (j - m + n) - n + m = j
      BY <1>1, <2>3
    <3>2. j - m + n \in In(r, n)
      BY <2>2, <3>1
    <3> QED BY <3>1, <3>2
  <2>7. move \in Bijection(In(r, n), In(q, m))
    BY <2>4, <2>5, <2>6 DEF Bijection, Injection, Surjection, IsInjective
  <2> HIDE DEF move
  <2>8. Cardinality(In(r, n)) = Cardinality(In(q, m))
    <3>1. ExistsBijection(In(r, n), In(q, m))
      BY <2>7 DEF ExistsBijection
    <3> QED BY <2>1, <3>1, FS_Bijection
  <2>9. PositiveCount(r, w, n) = <<Cardinality(In(r, n)), 1>>
        /\ PositiveCount(q, w, m) = <<Cardinality(In(q, m)), 1>>
    BY <1>1, Zenon DEF PositiveCount, In
  <2> QED BY <2>8, <2>9
<1> QED BY <1>2, <1>4, <1>5, <1>6

\* The last rows of s in u and v are of day d, and the rows before them are the same
\* as far back as both go.
SameEnd(u, v, s, d) ==
    /\ Len(u[s]) \in 2..d /\ Len(v[s]) \in 2..d
    /\ u[s][Len(u[s])].day = d
    /\ \A i \in Nat : i < Len(u[s]) /\ i < Len(v[s]) =>
          u[s][Len(u[s]) - i] = v[s][Len(v[s]) - i]

\* So it is for all symbols with a row of day d.
Ending(u, v, d) ==
    /\ DOMAIN u = Symbols /\ DOMAIN v = Symbols /\ InOrder(u) /\ InOrder(v)
    /\ \A s \in Symbols :
          (\E n \in 1..Len(u[s]) : u[s][n].day = d) \/ (\E n \in 1..Len(v[s]) : v[s][n].day = d)
              => SameEnd(u, v, s, d)

LEMMA EndingIsMutual ==
  ASSUME NEW d \in Nat, NEW u, NEW v, Ending(u, v, d)
  PROVE  Ending(v, u, d)
<1> SUFFICES ASSUME NEW s \in Symbols, SameEnd(u, v, s, d)
             PROVE  SameEnd(v, u, s, d)
  BY DEF Ending
<1>1. u[s][Len(u[s]) - 0] = v[s][Len(v[s]) - 0] /\ Len(u[s]) \in 2..d /\ Len(v[s]) \in 2..d
  <2>1. Len(u[s]) \in 2..d /\ Len(v[s]) \in 2..d
    BY DEF SameEnd
  <2>2. 0 \in Nat /\ 0 < Len(u[s]) /\ 0 < Len(v[s])
    BY <2>1
  <2>3. \A i \in Nat : i < Len(u[s]) /\ i < Len(v[s]) =>
           u[s][Len(u[s]) - i] = v[s][Len(v[s]) - i]
    BY DEF SameEnd
  <2> QED BY <2>1, <2>2, <2>3
<1>2. Len(u[s]) - 0 = Len(u[s]) /\ Len(v[s]) - 0 = Len(v[s])
  BY <1>1
<1>3. v[s][Len(v[s])].day = d
  BY <1>1, <1>2 DEF SameEnd
<1> QED BY <1>3 DEF SameEnd

\* There is one row of a day.
LEMMA LastOfDay ==
  ASSUME NEW d \in Nat, NEW u, NEW v, Ending(u, v, d), NEW s \in Symbols,
         NEW n \in 1..Len(u[s]), u[s][n].day = d
  PROVE  n = Len(u[s]) /\ SameEnd(u, v, s, d)
<1>1. SameEnd(u, v, s, d)
  BY DEF Ending
<1>2. Len(u[s]) \in 1..Len(u[s]) /\ u[s][Len(u[s])].day = d
  BY <1>1 DEF SameEnd
<1>3. \A i, j \in 1..Len(u[s]) : i < j => u[s][i].day < u[s][j].day
  BY DEF Ending, InOrder
<1>4. n = Len(u[s]) \/ n < Len(u[s])
  BY <1>2
<1>5. ~(d < d)
  OBVIOUS
<1> QED BY <1>1, <1>2, <1>3, <1>4, <1>5

LEMMA HeatForgets ==
  ASSUME NEW d \in Nat, NEW u, NEW v, Ending(u, v, d)
  PROVE  Heat(u, d) = Heat(v, d)
<1> DEFINE at(x, s) == {n \in 1..Len(x[s]) : x[s][n].day = d}
           there(x) == {s \in Symbols : at(x, s) # {}}
           rises(x, s, n) == n > 1 /\ x[s][n].close > x[s][n - 1].close
           rising(x) == {s \in there(x) : \E n \in at(x, s) : rises(x, s, n)}
<1>1. Ending(v, u, d)
  BY EndingIsMutual
<1>2. ASSUME NEW s \in Symbols, s \in there(u) \/ s \in there(v)
      PROVE  /\ at(u, s) = {Len(u[s])} /\ at(v, s) = {Len(v[s])}
             /\ rises(u, s, Len(u[s])) <=> rises(v, s, Len(v[s]))
  <2>1. SameEnd(u, v, s, d) /\ SameEnd(v, u, s, d)
    BY <1>1, <1>2 DEF Ending
  <2>2. /\ Len(u[s]) \in 2..d /\ Len(v[s]) \in 2..d
        /\ u[s][Len(u[s])].day = d /\ v[s][Len(v[s])].day = d
    BY <2>1 DEF SameEnd
  <2>3. at(u, s) = {Len(u[s])}
    BY <2>2, LastOfDay
  <2>4. at(v, s) = {Len(v[s])}
    BY <1>1, <2>2, LastOfDay
  <2>5. u[s][Len(u[s]) - 0] = v[s][Len(v[s]) - 0] /\ u[s][Len(u[s]) - 1] = v[s][Len(v[s]) - 1]
    <3>1. \A i \in {0, 1} : i \in Nat /\ i < Len(u[s]) /\ i < Len(v[s])
      BY <2>2
    <3>2. \A i \in {0, 1} : u[s][Len(u[s]) - i] = v[s][Len(v[s]) - i]
      BY <2>1, <3>1 DEF SameEnd
    <3> QED BY <3>2
  <2>6. Len(u[s]) - 0 = Len(u[s]) /\ Len(v[s]) - 0 = Len(v[s]) /\ Len(u[s]) > 1 /\ Len(v[s]) > 1
    BY <2>2
  <2> QED BY <2>3, <2>4, <2>5, <2>6
<1> HIDE DEF rises, at
<1>3. there(u) = there(v)
  BY <1>2
<1>4. rising(u) = rising(v)
  BY <1>2, <1>3
<1>5. /\ Heat(u, d) = <<100 * Cardinality(rising(u)), Cardinality(there(u))>>
      /\ Heat(v, d) = <<100 * Cardinality(rising(v)), Cardinality(there(v))>>
  BY Zenon DEF Heat, Ending, at, rises
<1> HIDE DEF there, rising
<1> QED BY <1>3, <1>4, <1>5

LEMMA ColumnsForget ==
  ASSUME NEW d \in Nat, NEW u, NEW v, Ending(u, v, d), NEW s \in Symbols, SameEnd(u, v, s, d),
         NEW node \in ConditionNode, Forgets(node),
         Len(u[s]) > node.window + node.lag, Len(v[s]) > node.window + node.lag
  PROVE  Column(u, node, s, Len(u[s]) - node.lag) = Column(v, node, s, Len(v[s]) - node.lag)
<1> DEFINE w == node.window
           r == u[s]
           q == v[s]
           n == Len(r) - node.lag
           m == Len(q) - node.lag
<1>1. w \in Nat /\ node.lag \in Nat /\ node.id \in ConditionIds /\ node.id \notin MacdConditions
  BY DEF ConditionNode, Forgets
<1>2. SamePast(r, n, q, m, w)
  <2>1. Len(r) \in Nat /\ Len(q) \in Nat /\ Len(r) > w + node.lag /\ Len(q) > w + node.lag
    BY DEF SameEnd
  <2>4. \A i \in Nat : i < Len(r) /\ i < Len(q) => r[Len(r) - i] = q[Len(q) - i]
    BY DEF SameEnd
  <2> HIDE DEF w, r, q
  <2>2. ASSUME NEW i \in 0..w PROVE r[n - i] = q[m - i]
    <3>1. /\ node.lag + i \in Nat /\ node.lag + i < Len(r) /\ node.lag + i < Len(q)
          /\ Len(r) - (node.lag + i) = n - i /\ Len(q) - (node.lag + i) = m - i
      <4>1. i \in Nat /\ i <= w /\ node.lag \in Nat /\ w \in Nat
        BY <1>1
      <4> DEFINE lag == node.lag
                 lenr == Len(r)
                 lenq == Len(q)
      <4>2. lag \in Nat /\ lenr \in Nat /\ lenq \in Nat /\ lenr > w + lag /\ lenq > w + lag
        BY <2>1, <4>1
      <4> HIDE DEF lag, lenr, lenq
      <4>3. /\ lag + i \in Nat /\ lag + i < lenr /\ lag + i < lenq
            /\ lenr - (lag + i) = (lenr - lag) - i /\ lenq - (lag + i) = (lenq - lag) - i
        BY <4>1, <4>2
      <4> QED BY <4>3 DEF lag, lenr, lenq
    <3>2. r[Len(r) - (node.lag + i)] = q[Len(q) - (node.lag + i)]
      BY <2>4, <3>1
    <3> QED BY <3>1, <3>2
  <2>3. n \in Nat /\ m \in Nat /\ n > w /\ m > w
    BY <1>1, <2>1
  <2> QED BY <2>2, <2>3 DEF SamePast
<1>3. node.id = "market_rising_ratio_at_least" => Heat(u, r[n].day) = Heat(v, q[m].day)
  <2> SUFFICES ASSUME node.id = "market_rising_ratio_at_least" PROVE Heat(u, r[n].day) = Heat(v, q[m].day)
    OBVIOUS
  <2>1. node.lag = 0 /\ Len(u[s]) \in Nat /\ Len(v[s]) \in Nat
    BY DEF Forgets, SameEnd
  <2>2. n = Len(u[s]) /\ m = Len(v[s])
    BY <2>1
  <2>3. SameEnd(v, u, s, d)
    <3>1. \E i \in 1..Len(u[s]) : u[s][i].day = d
      BY DEF SameEnd
    <3>2. Ending(v, u, d)
      BY EndingIsMutual
    <3> QED BY <3>1, <3>2 DEF Ending
  <2>4. r[n].day = d /\ q[m].day = d
    BY <2>2, <2>3 DEF SameEnd
  <2> QED BY <2>4, HeatForgets
<1> HIDE DEF w, r, q, n, m
<1>4. /\ r[n] = q[m]
      /\ CloseOverMA(r, w, n) = CloseOverMA(q, w, m)
      /\ Return(r, w, n) = Return(q, w, m)
      /\ VolumeRatio(r, w, n) = VolumeRatio(q, w, m)
      /\ FlowSum(r, w, n) = FlowSum(q, w, m)
      /\ PositiveCount(r, w, n) = PositiveCount(q, w, m)
      /\ CloseOverHigh(r, w, n) = CloseOverHigh(q, w, m)
      /\ CloseOverLow(r, w, n) = CloseOverLow(q, w, m)
  BY <1>1, <1>2, IndicatorsShift
<1>5. Column(u, node, s, n) = Column(v, node, s, m)
  BY <1>1, <1>3, <1>4 DEF Column, ConditionIds, MacdConditions, w, r, q
<1> QED BY <1>5 DEF n, m, r, q

LEMMA ConditionsForget ==
  ASSUME NEW d \in Nat, NEW u, NEW v, Ending(u, v, d), NEW s \in Symbols, SameEnd(u, v, s, d),
         NEW node \in ConditionNode, Forgets(node),
         Len(u[s]) > node.window + node.lag, Len(v[s]) > node.window + node.lag,
         NEW j, NEW k, Len(u[s]) - node.lag >= j, Len(v[s]) - node.lag >= k
  PROVE  /\ Evaluate(u, node, s, j, Len(u[s])) <=> Evaluate(v, node, s, k, Len(v[s]))
         /\ Mask(u, node, s, j, Len(u[s])) <=> Mask(v, node, s, k, Len(v[s]))
<1>1. /\ node.id # "macd_dead_cross" /\ node.lag \in Nat
      /\ Len(u[s]) \in Nat /\ Len(v[s]) \in Nat
  <2>1. node.id # "macd_dead_cross"
    BY DEF Forgets, MacdConditions
  <2>2. node.lag \in Nat
    BY DEF ConditionNode
  <2>3. Len(u[s]) \in Nat /\ Len(v[s]) \in Nat
    BY DEF SameEnd
  <2> QED BY <2>1, <2>2, <2>3
<1>2. Column(u, node, s, Len(u[s]) - node.lag) = Column(v, node, s, Len(v[s]) - node.lag)
  BY ColumnsForget
<1>3. RowPasses(u, node, s, j, Len(u[s]) - node.lag) <=> RowPasses(v, node, s, k, Len(v[s]) - node.lag)
  BY <1>1, <1>2 DEF RowPasses
<1>4. Evaluate(u, node, s, j, Len(u[s])) <=> Evaluate(v, node, s, k, Len(v[s]))
  BY <1>3 DEF Evaluate
<1>5. node.lag = 0 \/ node.lag > 0
  BY <1>1
<1>6. CASE node.lag = 0
  <2>1. Len(u[s]) - node.lag = Len(u[s]) /\ Len(v[s]) - node.lag = Len(v[s])
    BY <1>1, <1>6
  <2> QED BY <1>1, <1>2, <1>4, <2>1 DEF Mask
<1>7. CASE node.lag > 0
  BY <1>4, <1>7 DEF Mask
<1> QED BY <1>5, <1>6, <1>7

\* What a backtest from day "start" needs of the rows of s.
Enough(u, st, start, s) ==
    \A node \in Nodes(st) :
        /\ Len(u[s]) > node.window + node.lag
        /\ Len(u[s]) - node.lag >= First(u, s, start)

LEMMA FindsForget ==
  ASSUME NEW d \in Nat, NEW u, NEW v, Ending(u, v, d), NEW st \in StrategyConfig,
         \A node \in Nodes(st) : Forgets(node), NEW a, NEW b,
         \A s \in Symbols : SameEnd(u, v, s, d) => Enough(u, st, a, s) /\ Enough(v, st, b, s)
  PROVE  /\ Entries(u, st, a, d) \subseteq Entries(v, st, b, d)
         /\ Exits(u, st, a, d) \subseteq Exits(v, st, b, d)
<1>1. ASSUME NEW x \in Rows(u, d)
      PROVE  LET y == <<x[1], Len(v[x[1]])>>
                 j == First(u, x[1], a)
                 k == First(v, y[1], b)
             IN  /\ y \in Rows(v, d) /\ u[x[1]][x[2]] = v[y[1]][y[2]]
                 /\ Prefiltered(u, st, x[1], j, x[2]) <=> Prefiltered(v, st, y[1], k, y[2])
                 /\ Passes(u, st, x[1], j, x[2]) <=> Passes(v, st, y[1], k, y[2])
                 /\ \A node \in Nodes(st) :
                       Evaluate(u, node, x[1], j, x[2]) <=> Evaluate(v, node, y[1], k, y[2])
  <2> DEFINE s == x[1]
             n == Len(u[s])
             m == Len(v[s])
             j == First(u, s, a)
             k == First(v, s, b)
  <2>1. s \in Pool /\ s \in Symbols /\ x[2] \in DOMAIN u[s] /\ u[s][x[2]].day = d
    BY SignalsAssumption DEF Rows
  <2>2. u[s] \in Seq(Row) /\ v[s] \in Seq(Row)
    BY <2>1 DEF Ending, InOrder
  <2>3. x[2] = n /\ SameEnd(u, v, s, d)
    BY <2>1, <2>2, LastOfDay
  <2>4. n \in 2..d /\ m \in 2..d /\ u[s][n - 0] = v[s][m - 0]
    <3>1. n \in 2..d /\ m \in 2..d
      BY <2>3 DEF SameEnd
    <3>2. 0 \in Nat /\ 0 < n /\ 0 < m
      BY <3>1
    <3> QED BY <2>3, <3>1, <3>2 DEF SameEnd
  <2>5. u[s][n] = v[s][m] /\ v[s][m].day = d
    BY <2>1, <2>3, <2>4
  <2>6. <<s, m>> \in Rows(v, d)
    <3>1. m \in DOMAIN v[s] /\ m \in 1..d
      BY <2>2, <2>4
    <3> QED BY <2>1, <2>5, <3>1 DEF Rows
  <2>7. \A node \in Nodes(st) :
           /\ Evaluate(u, node, s, j, n) <=> Evaluate(v, node, s, k, m)
           /\ Mask(u, node, s, j, n) <=> Mask(v, node, s, k, m)
    <3> SUFFICES ASSUME NEW node \in Nodes(st)
                 PROVE  /\ Evaluate(u, node, s, j, n) <=> Evaluate(v, node, s, k, m)
                        /\ Mask(u, node, s, j, n) <=> Mask(v, node, s, k, m)
      OBVIOUS
    <3>1. node \in ConditionNode /\ Forgets(node)
      BY NodesType
    <3>2. /\ n > node.window + node.lag /\ n - node.lag >= j
          /\ m > node.window + node.lag /\ m - node.lag >= k
      BY <2>1, <2>3 DEF Enough
    <3> HIDE DEF s, j, k
    <3> QED BY <2>1, <2>3, <3>1, <3>2, ConditionsForget
  <2>8. /\ Prefiltered(u, st, s, j, n) <=> Prefiltered(v, st, s, k, m)
        /\ Passes(u, st, s, j, n) <=> Passes(v, st, s, k, m)
    BY <2>7, GroupsRead
  <2> HIDE DEF s, n, m, j, k
  <2> DEFINE y == <<s, m>>
  <2>9. y[1] = s /\ y[2] = m
    OBVIOUS
  <2> QED BY <2>3, <2>5, <2>6, <2>7, <2>8, <2>9 DEF s, n, m, j, k
<1>2. ASSUME NEW p \in Entries(u, st, a, d) PROVE p \in Entries(v, st, b, d)
  <2>1. PICK x \in Rows(u, d) :
           /\ p = x[1] /\ ~u[x[1]][x[2]].barred
           /\ Prefiltered(u, st, x[1], First(u, x[1], a), x[2])
           /\ Passes(u, st, x[1], First(u, x[1], a), x[2])
    BY DEF Entries
  <2> DEFINE y == <<x[1], Len(v[x[1]])>>
  <2>2. /\ y \in Rows(v, d) /\ ~v[y[1]][y[2]].barred
        /\ Prefiltered(v, st, y[1], First(v, y[1], b), y[2])
        /\ Passes(v, st, y[1], First(v, y[1], b), y[2])
    BY <1>1, <2>1
  <2>3. y[1] = p
    BY <2>1
  <2> HIDE DEF y
  <2> QED BY <2>2, <2>3 DEF Entries
<1>3. ASSUME NEW p \in Exits(u, st, a, d) PROVE p \in Exits(v, st, b, d)
  <2>1. PICK x \in Rows(u, d) :
           /\ p = x[1]
           /\ \E node \in st.exits : Evaluate(u, node, x[1], First(u, x[1], a), x[2])
    BY DEF Exits
  <2> DEFINE y == <<x[1], Len(v[x[1]])>>
  <2>2. /\ y \in Rows(v, d)
        /\ \A node \in Nodes(st) : Evaluate(u, node, x[1], First(u, x[1], a), x[2])
                                <=> Evaluate(v, node, y[1], First(v, y[1], b), y[2])
    BY <1>1
  <2>3. y[1] = p
    BY <2>1
  <2>4. \A node \in st.exits : node \in Nodes(st)
    BY Zenon DEF Nodes
  <2> HIDE DEF y
  <2>5. \E node \in st.exits : Evaluate(v, node, y[1], First(v, y[1], b), y[2])
    BY <2>1, <2>2, <2>4
  <2> QED BY <2>2, <2>3, <2>5 DEF Exits
<1> QED BY <1>2, <1>3

\* The rows since a day.
Since(f, s, c) == {n \in DOMAIN f[s] : f[s][n].day >= c}

LEMMA SinceIs ==
  ASSUME NEW f, InOrder(f), NEW s \in Symbols, NEW c \in Int
  PROVE  Cardinality(Since(f, s, c)) = Len(f[s]) + 1 - First(f, s, c)
<1>1. f[s] \in Seq(Row)
  BY DEF InOrder
<1>2. Len(f[s]) \in Nat /\ DOMAIN f[s] = 1..Len(f[s])
  BY <1>1
<1> DEFINE k == First(f, s, c)
<1>3. k \in 1..(Len(f[s]) + 1) /\ \A n \in 1..Len(f[s]) : n >= k <=> f[s][n].day >= c
  BY FirstIs
<1> HIDE DEF k
<1>4. Since(f, s, c) = k..Len(f[s])
  BY <1>2, <1>3 DEF Since
<1>5. Cardinality(k..Len(f[s])) = IF k > Len(f[s]) THEN 0 ELSE Len(f[s]) - k + 1
  <2>1. k \in Int /\ Len(f[s]) \in Int
    BY <1>2, <1>3
  <2> QED BY <2>1, FS_Interval
<1>6. Cardinality(Since(f, s, c)) = Len(f[s]) + 1 - k
  BY <1>2, <1>3, <1>4, <1>5
<1> QED BY <1>6 DEF k

\* Counted from the end, rows keep their places.
LEMMA FromTheEnd ==
  ASSUME NEW f, InOrder(f), NEW s \in Symbols, NEW c \in Int,
         NEW i \in Nat, i < Len(RowsFrom(f, c)[s])
  PROVE  /\ Len(RowsFrom(f, c)[s]) - i \in 1..Len(RowsFrom(f, c)[s])
         /\ Len(f[s]) - i \in 1..Len(f[s])
         /\ RowsFrom(f, c)[s][Len(RowsFrom(f, c)[s]) - i] = f[s][Len(f[s]) - i]
<1> DEFINE u == RowsFrom(f, c)[s]
           k == First(f, s, c)
           len == Len(f[s])
<1>1. /\ Len(u) = len + 1 - k
      /\ \A n \in 1..Len(u) : n + k - 1 \in 1..len /\ u[n] = f[s][n + k - 1]
  BY RowsFromIs
<1>2. k \in 1..(len + 1) /\ len \in Nat
  BY FirstIs DEF InOrder
<1>3. i < Len(u)
  OBVIOUS
<1> HIDE DEF u, k, len
<1>4. Len(u) - i \in 1..Len(u) /\ (Len(u) - i) + k - 1 = len - i
  BY <1>1, <1>2, <1>3
<1>5. len - i \in 1..len /\ u[Len(u) - i] = f[s][len - i]
  BY <1>1, <1>4
<1> QED BY <1>4, <1>5 DEF u, len

LEMMA BacktestReaches ==
  ASSUME NEW f, InOrder(f), NEW s \in Symbols, NEW c \in Int, NEW start \in Int,
         NEW lag \in Nat, lag < Len(RowsFrom(f, c)[s]), lag < Cardinality(Since(f, s, start))
  PROVE  Len(RowsFrom(f, c)[s]) - lag >= First(RowsFrom(f, c), s, start)
<1> DEFINE u == RowsFrom(f, c)
           n == Len(u[s]) - lag
<1>1. /\ n \in 1..Len(u[s]) /\ Len(f[s]) - lag \in 1..Len(f[s])
      /\ u[s][n] = f[s][Len(f[s]) - lag]
  BY FromTheEnd
<1>2. Len(f[s]) - lag >= First(f, s, start)
  <2>1. Len(f[s]) \in Nat /\ First(f, s, start) \in 1..(Len(f[s]) + 1)
    <3>1. f[s] \in Seq(Row)
      BY DEF InOrder
    <3>2. Len(f[s]) \in Nat
      BY <3>1
    <3>3. First(f, s, start) \in 1..(Len(f[s]) + 1)
      BY FirstIs
    <3> QED BY <3>2, <3>3
  <2>2. lag < Len(f[s]) + 1 - First(f, s, start)
    BY SinceIs
  <2> QED BY <2>1, <2>2
<1>3. f[s][Len(f[s]) - lag].day >= start
  BY <1>1, <1>2, FirstIs
<1>4. InOrder(u)
  BY RowsFromInOrder
<1> HIDE DEF u, n
<1>5. n >= First(u, s, start)
  BY <1>1, <1>3, <1>4, FirstIs
<1> QED BY <1>5 DEF u, n

LEMMA EndsAgree ==
  ASSUME NEW f, DOMAIN f = Symbols, InOrder(f), NEW d \in Nat,
         \A s \in Symbols : Len(f[s]) <= d /\ \A n \in 1..Len(f[s]) : f[s][n].day <= d,
         NEW a \in Int, NEW b \in Int,
         \A s \in Symbols : (\E n \in 1..Len(f[s]) : f[s][n].day = d) =>
             Len(RowsFrom(f, a)[s]) > 1 /\ Len(RowsFrom(f, b)[s]) > 1
  PROVE  Ending(RowsFrom(f, a), RowsFrom(f, b), d)
<1> DEFINE u == RowsFrom(f, a)
           v == RowsFrom(f, b)
<1>1. DOMAIN u = Symbols /\ DOMAIN v = Symbols /\ InOrder(u) /\ InOrder(v)
  BY RowsFromInOrder DEF RowsFrom
<1>2. ASSUME NEW s \in Symbols, NEW c \in {a, b}, NEW n \in 1..Len(RowsFrom(f, c)[s]),
             RowsFrom(f, c)[s][n].day = d
      PROVE  \E i \in 1..Len(f[s]) : f[s][i].day = d
  <2>1. c \in Int
    OBVIOUS
  <2>2. /\ n + First(f, s, c) - 1 \in 1..Len(f[s])
        /\ RowsFrom(f, c)[s][n] = f[s][n + First(f, s, c) - 1]
    BY <2>1, RowsFromIs
  <2> QED BY <1>2, <2>2
<1>3. ASSUME NEW s \in Symbols, \E n \in 1..Len(f[s]) : f[s][n].day = d
      PROVE  SameEnd(u, v, s, d)
  <2>1. f[s] \in Seq(Row) /\ Len(f[s]) \in Nat
    BY DEF InOrder
  <2>2. Len(f[s]) <= d /\ Len(u[s]) > 1 /\ Len(v[s]) > 1
    BY <1>3
  <2>3. Len(u[s]) \in Nat /\ Len(u[s]) <= Len(f[s]) /\ Len(v[s]) \in Nat /\ Len(v[s]) <= Len(f[s])
    <3>1. \A c \in Int : /\ First(f, s, c) \in 1..(Len(f[s]) + 1)
                         /\ Len(RowsFrom(f, c)[s]) = Len(f[s]) + 1 - First(f, s, c)
      BY FirstIs, RowsFromIs
    <3>2. /\ First(f, s, a) \in 1..(Len(f[s]) + 1) /\ First(f, s, b) \in 1..(Len(f[s]) + 1)
          /\ Len(u[s]) = Len(f[s]) + 1 - First(f, s, a)
          /\ Len(v[s]) = Len(f[s]) + 1 - First(f, s, b)
      BY <3>1
    <3> DEFINE first(c) == First(f, s, c)
               len == Len(f[s])
               lenu == Len(u[s])
               lenv == Len(v[s])
    <3>3. /\ first(a) \in 1..(len + 1) /\ first(b) \in 1..(len + 1) /\ len \in Nat
          /\ lenu = len + 1 - first(a) /\ lenv = len + 1 - first(b)
      BY <2>1, <3>2
    <3> HIDE DEF first, len, lenu, lenv
    <3>4. lenu \in Nat /\ lenu <= len /\ lenv \in Nat /\ lenv <= len
      BY <3>3
    <3> QED BY <3>4 DEF len, lenu, lenv
  <2>4. f[s][Len(f[s])].day = d
    <3>1. PICK n \in 1..Len(f[s]) : f[s][n].day = d
      BY <1>3
    <3>2. Len(f[s]) \in 1..Len(f[s]) /\ (n = Len(f[s]) \/ n < Len(f[s]))
      BY <2>1
    <3>3. f[s][Len(f[s])].day \in Nat
      <4>1. \A x \in Row : x.day \in Nat
        BY DEF Row
      <4> QED BY <2>1, <3>2, <4>1
    <3>4. n < Len(f[s]) => f[s][n].day < f[s][Len(f[s])].day
      BY <3>2 DEF InOrder
    <3>5. f[s][Len(f[s])].day <= d
      BY <3>2
    <3> QED BY <3>1, <3>2, <3>3, <3>4, <3>5
  <2>5. ASSUME NEW i \in Nat, i < Len(u[s]), i < Len(v[s])
        PROVE  /\ u[s][Len(u[s]) - i] = v[s][Len(v[s]) - i]
               /\ u[s][Len(u[s]) - i] = f[s][Len(f[s]) - i]
    <3>1. u[s][Len(u[s]) - i] = f[s][Len(f[s]) - i]
      BY <2>5, FromTheEnd
    <3>2. v[s][Len(v[s]) - i] = f[s][Len(f[s]) - i]
      BY <2>5, FromTheEnd
    <3> QED BY <3>1, <3>2
  <2>6. u[s][Len(u[s])].day = d
    <3>1. Len(u[s]) - 0 = Len(u[s]) /\ Len(f[s]) - 0 = Len(f[s])
      BY <2>1, <2>3
    <3>2. u[s][Len(u[s]) - 0] = f[s][Len(f[s]) - 0]
      <4>1. 0 \in Nat /\ 0 < Len(u[s]) /\ 0 < Len(v[s])
        BY <2>2, <2>3
      <4> QED BY <4>1, <2>5
    <3> QED BY <2>4, <3>1, <3>2
  <2>7. Len(u[s]) \in 2..d /\ Len(v[s]) \in 2..d
    BY <2>1, <2>2, <2>3
  <2> QED BY <2>5, <2>6, <2>7 DEF SameEnd
<1> QED BY <1>1, <1>2, <1>3 DEF Ending

-------------------------------------------------------------------------------
(* The market goes on.                                                     *)

Answers == {Blocked} \cup [entries : SUBSET Symbols, exits : SUBSET Symbols]

SignalsTypes ==
    /\ strategy \in Strategies
    /\ DOMAIN frame = Symbols /\ InOrder(frame)
    /\ found \in Seq(Answers)

\* No row is of a day to come, and there is one for each day at most.
RowsAreOld ==
    \A s \in Symbols :
        /\ Len(frame[s]) <= Len(found)
        /\ \A n \in 1..Len(frame[s]) : frame[s][n].day <= Len(found)

SignalsInv == SignalsTypes /\ RowsAreOld /\ NoLookAhead

LEMMA MatchesType ==
  ASSUME NEW f, NEW st, NEW start, NEW d
  PROVE  Matches(f, st, start, d) \in Answers
<1> DEFINE u == Loaded(f, start)
<1>1. \A x \in Rows(u, d) : x[1] \in Symbols
  BY SignalsAssumption DEF Rows
<1> HIDE DEF u
<1>2. Entries(u, st, start, d) \subseteq Symbols /\ Exits(u, st, start, d) \subseteq Symbols
  BY <1>1 DEF Entries, Exits
<1> QED BY <1>2 DEF Matches, Answers, u

LEMMA SignalsBegin == SignalsInit => SignalsInv
<1> SUFFICES ASSUME SignalsInit PROVE SignalsInv
  OBVIOUS
<1>1. found = <<>> /\ found \in Seq(Answers) /\ Len(found) = 0 /\ DOMAIN found = {}
  BY DEF SignalsInit
<1>2. \A s \in Symbols : frame[s] = <<>> /\ frame[s] \in Seq(Row) /\ Len(frame[s]) = 0
  BY DEF SignalsInit
<1>3. DOMAIN frame = Symbols /\ strategy \in Strategies
  BY DEF SignalsInit
<1>4. InOrder(frame)
  BY <1>2 DEF InOrder
<1>5. RowsAreOld
  BY <1>1, <1>2 DEF RowsAreOld
<1>6. NoLookAhead
  BY <1>1 DEF NoLookAhead
<1> QED BY <1>1, <1>3, <1>4, <1>5, <1>6 DEF SignalsInv, SignalsTypes

LEMMA RowsArrive ==
  ASSUME SignalsInv, NEW rows \in MarketDays, NextDay(rows)
  PROVE  /\ DOMAIN frame' = Symbols /\ InOrder(frame')
         /\ \A s \in Symbols :
               /\ Len(frame'[s]) <= Len(found) + 1
               /\ \A n \in 1..Len(frame'[s]) : frame'[s][n].day <= Len(found) + 1
         /\ GoesOn(frame, frame', Len(found))
<1> DEFINE D == Len(found) + 1
<1>1. D \in Nat /\ Len(found) \in Nat
  BY DEF SignalsInv, SignalsTypes
<1>2. frame' = [s \in Symbols |->
          IF rows[s] = NoRow THEN frame[s] ELSE Append(frame[s], [rows[s] EXCEPT !.day = D])]
  BY DEF NextDay
<1>3. \A s \in Symbols :
         /\ Len(frame[s]) <= Len(found)
         /\ \A n \in 1..Len(frame[s]) : frame[s][n].day <= Len(found)
  BY DEF SignalsInv, RowsAreOld
<1> HIDE DEF D
<1>4. ASSUME NEW s \in Symbols
      PROVE  /\ frame'[s] \in Seq(Row)
             /\ \A m, n \in 1..Len(frame'[s]) : m < n => frame'[s][m].day < frame'[s][n].day
             /\ Len(frame'[s]) <= D
             /\ \A n \in 1..Len(frame'[s]) : frame'[s][n].day <= D
             /\ Len(frame[s]) <= Len(frame'[s])
             /\ \A n \in 1..Len(frame[s]) : frame'[s][n] = frame[s][n]
             /\ \A n \in (Len(frame[s]) + 1)..Len(frame'[s]) : frame'[s][n].day > Len(found)
  <2> DEFINE t == frame[s]
             u == frame'[s]
             row == [rows[s] EXCEPT !.day = D]
  <2>1. /\ t \in Seq(Row) /\ Len(t) \in Nat
        /\ \A m, n \in 1..Len(t) : m < n => t[m].day < t[n].day
        /\ Len(t) <= Len(found) /\ \A n \in 1..Len(t) : t[n].day <= Len(found)
    BY <1>3 DEF SignalsInv, SignalsTypes, InOrder
  <2>2. \A n \in 1..Len(t) : t[n].day \in Nat
    <3>1. \A x \in Row : x.day \in Nat
      BY DEF Row
    <3> QED BY <2>1, <3>1
  <2>3. CASE rows[s] = NoRow
    <3>1. u = t
      BY <1>2, <2>3
    <3> HIDE DEF t, u
    <3>2. Len(u) <= D /\ \A n \in 1..Len(u) : u[n].day <= D
      BY <1>1, <2>1, <2>2, <3>1 DEF D
    <3>3. \A n \in (Len(t) + 1)..Len(u) : FALSE
      BY <2>1, <3>1
    <3> QED BY <2>1, <3>1, <3>2, <3>3 DEF t, u
  <2>4. CASE rows[s] # NoRow
    <3>1. rows[s] \in Row
      BY <2>4, SignalsAssumption
    <3>2. row \in Row /\ row.day = D
      BY <1>1, <3>1 DEF Row
    <3>3. u = Append(t, row)
      BY <1>2, <2>4
    <3> HIDE DEF t, u, row
    <3>4. /\ u \in Seq(Row) /\ Len(u) = Len(t) + 1 /\ u[Len(t) + 1] = row
          /\ \A n \in 1..Len(t) : u[n] = t[n]
      BY <2>1, <3>2, <3>3, AppendProperties
    <3>5. \A n \in 1..Len(u) : n \in 1..Len(t) \/ n = Len(t) + 1
      BY <2>1, <3>4
    <3>6. ASSUME NEW m \in 1..Len(u), NEW n \in 1..Len(u), m < n PROVE u[m].day < u[n].day
      <4>1. m \in 1..Len(t)
        BY <2>1, <3>4, <3>6
      <4>2. CASE n \in 1..Len(t)
        BY <2>1, <3>4, <3>6, <4>1, <4>2
      <4>3. CASE n = Len(t) + 1
        <5>1. u[m].day <= Len(found) /\ u[m].day \in Nat /\ u[n].day = D
          BY <2>1, <2>2, <3>2, <3>4, <4>1, <4>3
        <5> QED BY <1>1, <5>1 DEF D
      <4> QED BY <3>5, <4>2, <4>3
    <3>7. ASSUME NEW n \in 1..Len(u) PROVE u[n].day <= D
      <4>1. CASE n \in 1..Len(t)
        <5>1. u[n].day <= Len(found) /\ u[n].day \in Nat
          BY <2>1, <2>2, <3>4, <4>1
        <5> QED BY <1>1, <5>1 DEF D
      <4>2. CASE n = Len(t) + 1
        BY <1>1, <3>2, <3>4, <4>2
      <4> QED BY <3>5, <4>1, <4>2
    <3>8. ASSUME NEW n \in (Len(t) + 1)..Len(u) PROVE u[n].day > Len(found)
      <4>1. n = Len(t) + 1
        BY <2>1, <3>4
      <4> QED BY <1>1, <3>2, <3>4, <4>1 DEF D
    <3>9. Len(t) <= Len(u) /\ Len(u) <= D
      BY <1>1, <2>1, <3>4 DEF D
    <3> QED BY <3>4, <3>6, <3>7, <3>8, <3>9 DEF t, u
  <2> QED BY <2>3, <2>4
<1>5. DOMAIN frame' = Symbols
  BY <1>2
<1> QED BY <1>4, <1>5 DEF InOrder, GoesOn, D

LEMMA SignalsStep == SignalsInv /\ [SignalsNext]_signalsVars => SignalsInv'
<1> SUFFICES ASSUME SignalsInv, [SignalsNext]_signalsVars
             PROVE  SignalsInv'
  OBVIOUS
<1>1. CASE UNCHANGED signalsVars
  BY <1>1 DEF signalsVars, SignalsInv, SignalsTypes, InOrder, RowsAreOld, NoLookAhead
<1>2. ASSUME NEW rows \in MarketDays, NextDay(rows) PROVE SignalsInv'
  <2> DEFINE D == Len(found) + 1
             new == Matches(frame', strategy, StartDay, D)
  <2>1. /\ DOMAIN frame' = Symbols /\ InOrder(frame')
        /\ \A s \in Symbols :
              /\ Len(frame'[s]) <= Len(found) + 1
              /\ \A n \in 1..Len(frame'[s]) : frame'[s][n].day <= Len(found) + 1
        /\ GoesOn(frame, frame', Len(found))
    BY <1>2, RowsArrive
  <2>2. /\ strategy \in Strategies /\ strategy \in StrategyConfig /\ strategy' = strategy
        /\ DOMAIN frame = Symbols /\ InOrder(frame)
        /\ found \in Seq(Answers) /\ found' = Append(found, new)
        /\ StartDay \in Int
    BY <1>2, SignalsAssumption DEF SignalsInv, SignalsTypes, NextDay
  <2>3. new \in Answers
    BY MatchesType
  <2> HIDE DEF new
  <2>4. /\ found' \in Seq(Answers) /\ Len(found') = D /\ Len(found) \in Nat
        /\ found'[D] = new /\ \A d \in 1..Len(found) : found'[d] = found[d]
    BY <2>2, <2>3, AppendProperties
  <2>5. SignalsTypes'
    BY <2>1, <2>2, <2>4 DEF SignalsTypes, InOrder
  <2>6. RowsAreOld'
    BY <2>1, <2>4 DEF RowsAreOld
  <2>7. ASSUME NEW d \in 1..D, found'[d] # Blocked
        PROVE  Matches(frame', strategy, StartDay, d) = found'[d]
    <3>1. CASE d = D
      BY <2>4, <3>1 DEF new
    <3>2. CASE d \in 1..Len(found)
      <4>1. Matches(frame, strategy, StartDay, d) = found[d] /\ found[d] # Blocked
        BY <2>2, <2>4, <2>7, <3>2 DEF SignalsInv, NoLookAhead
      <4>2. GoesOn(frame, frame', d)
        <5>1. d \in Nat /\ d <= Len(found)
          BY <2>4, <3>2
        <5>2. \A s \in Symbols : \A n \in (Len(frame[s]) + 1)..Len(frame'[s]) :
                  frame'[s][n].day > d
          <6> SUFFICES ASSUME NEW s \in Symbols,
                              NEW n \in (Len(frame[s]) + 1)..Len(frame'[s])
                       PROVE  frame'[s][n].day > d
            OBVIOUS
          <6>1. frame[s] \in Seq(Row) /\ frame'[s] \in Seq(Row)
            BY <2>1, <2>2 DEF InOrder
          <6>2. Len(frame[s]) \in Nat /\ n \in 1..Len(frame'[s])
            BY <6>1
          <6>3. \A x \in Row : x.day \in Nat
            BY DEF Row
          <6>4. frame'[s][n].day \in Nat /\ frame'[s][n].day > Len(found)
            BY <2>1, <6>1, <6>2, <6>3 DEF GoesOn
          <6> QED BY <2>4, <5>1, <6>4
        <5> QED BY <2>1, <5>2 DEF GoesOn
      <4>3. d \in Nat /\ Longer(frame, frame', d)
        BY <2>1, <2>2, <4>2 DEF Longer
      <4>4. Matches(frame', strategy, StartDay, d) = Matches(frame, strategy, StartDay, d)
        BY <2>2, <4>1, <4>3, MatchesAgree
      <4> QED BY <2>4, <3>2, <4>1, <4>4
    <3> QED BY <2>4, <3>1, <3>2
  <2>8. NoLookAhead'
    <3>1. DOMAIN found' = 1..D
      BY <2>4
    <3> QED BY <2>2, <2>7, <3>1 DEF NoLookAhead
  <2> QED BY <2>5, <2>6, <2>8 DEF SignalsInv
<1> QED BY <1>1, <1>2 DEF SignalsNext

LEMMA SignalsInvariant == SignalsSpec => []SignalsInv
BY SignalsBegin, SignalsStep, PTL DEF SignalsSpec

\* For any conditions, windows, lags and groups and any market, what a backtest
\* finds on a day does not depend on the days after it.
THEOREM NothingLooksAhead == SignalsSpec => []NoLookAhead
<1>1. SignalsInv => NoLookAhead
  BY DEF SignalsInv
<1> QED BY <1>1, SignalsInvariant, PTL

\* For any strategy without a turnover condition, the prefilter lets every row
\* through that the conditions accept.
THEOREM PrefilterDropsNothing == SignalsSpec => []PrefilterIsSound
<1>1. SignalsInv => PrefilterIsSound
  <2> SUFFICES ASSUME SignalsInv, \A node \in Nodes(strategy) : node.id # "turnover_between"
               PROVE  PrefilterAgrees(strategy)
    BY DEF PrefilterIsSound
  <2> DEFINE u == Loaded(frame, StartDay)
  <2> SUFFICES ASSUME NEW x \in Rows(u, Len(found)),
                      x[2] >= First(u, x[1], StartDay),
                      Passes(u, strategy, x[1], First(u, x[1], StartDay), x[2])
               PROVE  Prefiltered(u, strategy, x[1], First(u, x[1], StartDay), x[2])
    BY DEF PrefilterAgrees
  <2> DEFINE s == x[1]
             n == x[2]
             first == First(u, s, StartDay)
             ev(node) == Evaluate(u, node, s, first, n)
             ma(node) == Mask(u, node, s, first, n)
  <2>1. strategy \in StrategyConfig
    BY SignalsAssumption DEF SignalsInv, SignalsTypes
  <2>2. /\ strategy.filters \subseteq ConditionNode
        /\ \A grp \in strategy.groups : grp.nodes \subseteq ConditionNode
                                       /\ grp.op \in {"and", "or", "score"}
    BY <2>1 DEF StrategyConfig, ConditionGroup
  <2>3. n \in Nat
    BY DEF Rows
  <2>4. ASSUME NEW node \in ConditionNode, node.id # "turnover_between", ev(node)
        PROVE  ma(node)
    <3>1. node.lag \in Nat
      BY DEF ConditionNode
    <3>2. CASE ~node.enabled \/ node.lag > 0
      BY <3>2 DEF Mask
    <3>3. CASE node.enabled /\ node.lag = 0
      <4>1. n - node.lag = n
        BY <2>3, <3>3
      <4>2. RowPasses(u, node, s, first, n)
        BY <2>4, <3>3, <4>1 DEF Evaluate
      <4> QED BY <2>4, <4>2 DEF RowPasses, Mask
    <3> QED BY <3>1, <3>2, <3>3
  <2>5. /\ \A node \in strategy.filters : ev(node)
        /\ \A grp \in strategy.groups :
              /\ grp.op = "and" => \A node \in grp.nodes : ev(node)
              /\ grp.op = "or" => \E node \in grp.nodes : ev(node)
    BY <2>2 DEF Passes, GroupPasses
  <2>6. /\ \A node \in strategy.filters : node.id # "turnover_between"
        /\ \A grp \in strategy.groups : \A node \in grp.nodes : node.id # "turnover_between"
    BY DEF Nodes
  <2>7. SUFFICES /\ \A node \in strategy.filters : ma(node)
                 /\ \A grp \in strategy.groups :
                       /\ grp.op = "and" => \A node \in grp.nodes : ma(node)
                       /\ grp.op = "or" => \E node \in grp.nodes : ma(node)
    BY <2>2 DEF Prefiltered, GroupPasses
  <2> HIDE DEF ev, ma
  <2> QED BY <2>2, <2>4, <2>5, <2>6
<1> QED BY <1>1, SignalsInvariant, PTL

\* For any strategy without a MACD or a lagged ratio of rising stocks, a backtest
\* finds the same on a day wherever it starts, if its warm-up is long enough.
THEOREM StartsAreForgotten == SignalsSpec => []StartIsForgotten
<1>1. SignalsInv => StartIsForgotten
  <2> DEFINE d == Len(found)
             warm(start) == \A s \in Symbols :
                (\E n \in DOMAIN frame[s] : frame[s][n].day = d) =>
                    /\ Cardinality(Since(frame, s, start - Warmup)) > 1
                    /\ \A node \in Nodes(strategy) :
                          /\ Cardinality(Since(frame, s, start - Warmup)) > node.window + node.lag
                          /\ Cardinality(Since(frame, s, start)) > node.lag
             here == Matches(frame, strategy, StartDay, d)
  <2> SUFFICES ASSUME SignalsInv, d >= StartDay, warm(StartDay), here # Blocked,
                      \A node \in Nodes(strategy) : Forgets(node),
                      NEW start \in 1..d, warm(start)
               PROVE  Matches(frame, strategy, start, d) \in {here, Blocked}
    BY Zenon DEF StartIsForgotten, Since
  <2>1. /\ strategy \in StrategyConfig /\ DOMAIN frame = Symbols /\ InOrder(frame)
        /\ d \in Nat /\ StartDay \in Int /\ Warmup \in Nat /\ start \in Int
        /\ \A s \in Symbols : Len(frame[s]) <= d /\ \A n \in 1..Len(frame[s]) : frame[s][n].day <= d
    BY SignalsAssumption DEF SignalsInv, SignalsTypes, RowsAreOld
  <2> DEFINE u == Loaded(frame, StartDay)
             v == Loaded(frame, start)
  <2>2. ASSUME NEW x \in {StartDay, start}, NEW s \in Symbols,
               \E n \in 1..Len(frame[s]) : frame[s][n].day = d
        PROVE  Len(Loaded(frame, x)[s]) > 1 /\ Enough(Loaded(frame, x), strategy, x, s)
    <3>1. DOMAIN frame[s] = 1..Len(frame[s])
      <4>1. frame[s] \in Seq(Row)
        BY <2>1 DEF InOrder
      <4> QED BY <4>1
    <3>2. x \in Int /\ x - Warmup \in Int /\ warm(x)
      <4>1. x = StartDay \/ x = start
        OBVIOUS
      <4>2. warm(x)
        <5> HIDE DEF warm
        <5> QED BY <4>1
      <4> HIDE DEF warm
      <4> QED BY <2>1, <4>1, <4>2
    <3>3. Len(Loaded(frame, x)[s]) = Cardinality(Since(frame, s, x - Warmup))
      BY <2>1, <3>2, SinceIs, RowsFromIs DEF Loaded
    <3>4. /\ Len(Loaded(frame, x)[s]) > 1
          /\ \A node \in Nodes(strategy) :
                /\ Len(Loaded(frame, x)[s]) > node.window + node.lag
                /\ Cardinality(Since(frame, s, x)) > node.lag
      BY <2>2, <3>1, <3>2, <3>3
    <3>5. ASSUME NEW node \in Nodes(strategy)
          PROVE  Len(Loaded(frame, x)[s]) - node.lag >= First(Loaded(frame, x), s, x)
      <4>1. node.lag \in Nat /\ node.window \in Nat
        BY <2>1, NodesType DEF ConditionNode
      <4>2. Len(RowsFrom(frame, x - Warmup)[s]) \in Nat
        <5>1. RowsFrom(frame, x - Warmup)[s] \in Seq(Row)
          BY <2>1, <3>2, RowsFromIs
        <5> QED BY <5>1
      <4>3. node.lag < Len(RowsFrom(frame, x - Warmup)[s])
        BY <3>4, <4>1, <4>2 DEF Loaded
      <4>4. node.lag < Cardinality(Since(frame, s, x))
        BY <3>4
      <4> QED BY <2>1, <3>2, <4>1, <4>3, <4>4, BacktestReaches DEF Loaded
    <3> QED BY <3>4, <3>5 DEF Enough
  <2>3. Ending(u, v, d)
    <3>1. StartDay - Warmup \in Int /\ start - Warmup \in Int
      BY <2>1
    <3> QED BY <2>1, <2>2, <3>1, EndsAgree DEF Loaded
  <2>4. Ending(v, u, d)
    BY <2>1, <2>3, EndingIsMutual
  <2>5. ASSUME NEW s \in Symbols, SameEnd(u, v, s, d) \/ SameEnd(v, u, s, d)
        PROVE  Enough(u, strategy, StartDay, s) /\ Enough(v, strategy, start, s)
    <3>1. PICK x \in {StartDay, start} : \E n \in 1..Len(Loaded(frame, x)[s]) :
                                            Loaded(frame, x)[s][n].day = d
      <4>1. CASE SameEnd(u, v, s, d)
        <5>1. Len(u[s]) \in 1..Len(u[s]) /\ u[s][Len(u[s])].day = d
          BY <4>1 DEF SameEnd
        <5> QED BY <5>1
      <4>2. CASE SameEnd(v, u, s, d)
        <5>1. Len(v[s]) \in 1..Len(v[s]) /\ v[s][Len(v[s])].day = d
          BY <4>2 DEF SameEnd
        <5> QED BY <5>1
      <4> QED BY <2>5, <4>1, <4>2
    <3>2. x - Warmup \in Int
      BY <2>1
    <3>3. \E n \in 1..Len(frame[s]) : frame[s][n].day = d
      <4> DEFINE c == x - Warmup
      <4>1. PICK n \in 1..Len(RowsFrom(frame, c)[s]) : RowsFrom(frame, c)[s][n].day = d
        BY <3>1 DEF Loaded
      <4>2. /\ n + First(frame, s, c) - 1 \in 1..Len(frame[s])
            /\ RowsFrom(frame, c)[s][n] = frame[s][n + First(frame, s, c) - 1]
        <5> HIDE DEF c
        <5> QED BY <2>1, RowsFromIs, <3>2 DEF c
      <4> QED BY <4>1, <4>2
    <3> QED BY <2>2, <3>3
  <2>6. /\ Entries(u, strategy, StartDay, d) = Entries(v, strategy, start, d)
        /\ Exits(u, strategy, StartDay, d) = Exits(v, strategy, start, d)
    <3> HIDE DEF u, v, d, warm, here
    <3>1. /\ Entries(u, strategy, StartDay, d) \subseteq Entries(v, strategy, start, d)
          /\ Exits(u, strategy, StartDay, d) \subseteq Exits(v, strategy, start, d)
      BY <2>1, <2>3, <2>5, FindsForget
    <3>2. /\ Entries(v, strategy, start, d) \subseteq Entries(u, strategy, StartDay, d)
          /\ Exits(v, strategy, start, d) \subseteq Exits(u, strategy, StartDay, d)
      BY <2>1, <2>4, <2>5, FindsForget
    <3> QED BY <3>1, <3>2
  <2>7. ~(d < StartDay) /\ ~(d < start)
    BY <2>1
  <2>8. /\ here = IF Refused(u, strategy) THEN Blocked
                  ELSE [entries |-> Entries(u, strategy, StartDay, d),
                        exits |-> Exits(u, strategy, StartDay, d)]
        /\ Matches(frame, strategy, start, d) =
               IF Refused(v, strategy) THEN Blocked
               ELSE [entries |-> Entries(v, strategy, start, d),
                     exits |-> Exits(v, strategy, start, d)]
    BY <2>7, Zenon DEF Matches
  <2> HIDE DEF u, v, d, warm
  <2> QED BY <2>6, <2>8
<1> QED BY <1>1, SignalsInvariant, PTL
===============================================================================
