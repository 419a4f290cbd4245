---------------------------- MODULE SavedStrategies ----------------------------
(***************************************************************************)
(* Saved strategies, from the promise queue of the page to the file on     *)
(* disk.  Each application window runs a SavedStrategyStore                *)
(* (frontend/src/savedStrategyStore.ts), which sends load, upsert and      *)
(* delete commands to the Rust shell of its own process                    *)
(* (src-tauri/src/commands.rs); the shells of all processes share one JSON *)
(* file and its lock file.                                                 *)
(* A preset is its id: ids are drawn at random and never used twice.       *)
(* Commands are synchronous, so a shell runs one of them at a time.        *)
(***************************************************************************)
EXTENDS Naturals, Sequences

CONSTANTS
    Apps,       \* processes of the desktop application
    Ids,        \* presets that get saved
    MaxLoads,   \* bound on the loads a store has in flight
    Eager,      \* apps whose user reloads, and clicks before an answer is there
    Crashers,   \* apps that may crash
    None,       \* nobody, nothing
    Done,       \* the initial load has been answered
    Broken,     \* a file that is not an array of well-formed presets
    Failed,     \* the answer of a command that failed
    MaxReloads, \* bound on the calls of reload() and refresh()
    MaxQueue    \* bound on the mutations waiting in a store

Loads == 1..MaxLoads

ASSUME SavedStrategiesAssumption ==
    /\ MaxLoads \in Nat \ {0}
    /\ Eager \subseteq Apps /\ Crashers \subseteq Apps
    /\ MaxReloads \in Nat
    /\ MaxQueue \in Nat
    /\ None \notin Apps \cup Loads
    /\ Done \notin Loads \cup {None}
    /\ Failed # Broken

VARIABLES
    disk,       \* the presets in saved-strategies.json
    lock,       \* holder of saved-strategies.lock
    shell,      \* per app: the command its shell is running, and what it read
    store,      \* per app: status, strategies, initialLoad, authoritativeLoadId,
                \* the mutations enqueued, and the number of reloads
    load,       \* per app and load: where it is, and what was read for it
    mutation,   \* per app: the mutation at the head of the promise chain
    created,    \* ids handed out to save()
    dropped,    \* ids somebody has asked to remove
    saved,      \* per app: saves acknowledged since it started
    removed     \* per app: removals acknowledged since it started

diskVars == <<disk, lock>>
storeVars == <<store, load, mutation>>
history == <<created, dropped, saved, removed>>
vars == <<diskVars, shell, storeVars, history>>

Idle == [pc |-> "idle", data |-> {}]

Fresh == [status |-> "loading", strategies |-> {}, initial |-> None,
          current |-> None, queue |-> <<>>, reloads |-> 0]

NoMutation == [pc |-> "idle", op |-> None, id |-> None, awaits |-> None, reply |-> None]

NoLoads == [k \in Loads |-> [pc |-> "none", data |-> {}]]

Init ==
    /\ disk = {}
    /\ lock = None
    /\ shell = [p \in Apps |-> Idle]
    /\ store = [p \in Apps |-> Fresh]
    /\ load = [p \in Apps |-> NoLoads]
    /\ mutation = [p \in Apps |-> NoMutation]
    /\ created = {}
    /\ dropped = {}
    /\ saved = [p \in Apps |-> {}]
    /\ removed = [p \in Apps |-> {}]

-------------------------------------------------------------------------------
(* Loads of the store.                                                      *)

\* issueLoad: the newest load is the only one whose answer counts.
Issued(s, k, blocking) ==
    IF blocking
    THEN [s EXCEPT !.current = k, !.initial = k, !.status = "loading"]
    ELSE [s EXCEPT !.current = k]

Send(p, k) ==
    /\ load[p][k].pc = "none"
    /\ \A l \in Loads : l < k => load[p][l].pc # "none"
    /\ load' = [load EXCEPT ![p][k].pc = "sent"]

Start(p) ==
    /\ store[p].initial = None
    /\ \E k \in Loads :
          /\ Send(p, k)
          /\ store' = [store EXCEPT ![p] = Issued(@, k, TRUE)]
    /\ UNCHANGED <<diskVars, shell, mutation, history>>

\* reload() blocks later mutations, refresh() does not.
Reload(p) ==
    /\ p \in Eager
    /\ store[p].initial # None
    /\ store[p].reloads < MaxReloads
    /\ \E k \in Loads, blocking \in BOOLEAN :
          /\ Send(p, k)
          /\ LET counted == [store[p] EXCEPT !.reloads = @ + 1] IN
             store' = [store EXCEPT ![p] = Issued(counted, k, blocking)]
    /\ UNCHANGED <<diskVars, shell, mutation, history>>

\* performSave and performRemove after the await: a store that is not ready
\* refuses, otherwise the command is sent to the shell.
Proceed(m, status) ==
    IF status = "ready" THEN [m EXCEPT !.pc = "sent", !.awaits = None] ELSE NoMutation

\* The answer of a load arrives.  One that is no longer current changes neither
\* the status nor the strategies, but a mutation that awaits it goes on.
LoadAnswered(p, k) ==
    LET answer == load[p][k].data
        counts == store[p].current = k
    IN
    /\ load[p][k].pc = "read"
    /\ load' = [load EXCEPT ![p][k] = NoLoads[k]]
    /\ store' = [store EXCEPT ![p] =
          [store[p] EXCEPT
             !.strategies = IF counts /\ answer # Failed THEN answer ELSE @,
             !.status = IF ~counts THEN @
                        ELSE IF answer = Failed THEN "failed" ELSE "ready",
             !.current = IF counts THEN None ELSE @,
             !.initial = IF @ = k THEN Done ELSE @]]
    /\ mutation' = [mutation EXCEPT ![p] =
          IF @.pc = "waiting" /\ @.awaits = k THEN Proceed(@, store'[p].status) ELSE @]
    /\ UNCHANGED <<diskVars, shell, history>>

-------------------------------------------------------------------------------
(* Mutations of the store.                                                  *)

Enqueue(p, op, id) ==
    /\ IF p \in Eager THEN Len(store[p].queue) < MaxQueue
                     ELSE store[p].queue = <<>> /\ mutation[p].pc = "idle"
    /\ store' = [store EXCEPT ![p].queue = Append(@, [op |-> op, id |-> id])]

Save(p) ==
    /\ \E i \in Ids \ created :
          /\ created' = created \cup {i}
          /\ Enqueue(p, "upsert", i)
    /\ UNCHANGED <<diskVars, shell, load, mutation, dropped, saved, removed>>

\* The page offers the presets it shows for removal, twice on a double click.
Remove(p) ==
    /\ \E i \in store[p].strategies :
          /\ dropped' = dropped \cup {i}
          /\ Enqueue(p, "delete", i)
    /\ UNCHANGED <<diskVars, shell, load, mutation, created, saved, removed>>

\* The head of the promise chain begins: performSave and performRemove await
\* the initial load, and start it when nobody has.
BeginMutation(p) ==
    LET next == Head(store[p].queue)
        begun == [NoMutation EXCEPT !.op = next.op, !.id = next.id]
        rest == [store[p] EXCEPT !.queue = Tail(@)]
    IN
    /\ mutation[p].pc = "idle"
    /\ store[p].queue # <<>>
    /\ \/ /\ store[p].initial = None
          /\ \E k \in Loads :
                /\ Send(p, k)
                /\ store' = [store EXCEPT ![p] = Issued(rest, k, TRUE)]
                /\ mutation' = [mutation EXCEPT ![p] =
                      [begun EXCEPT !.pc = "waiting", !.awaits = k]]
       \/ /\ store[p].initial \in Loads
          /\ store' = [store EXCEPT ![p] = rest]
          /\ mutation' = [mutation EXCEPT ![p] =
                [begun EXCEPT !.pc = "waiting", !.awaits = store[p].initial]]
          /\ UNCHANGED load
       \/ /\ store[p].initial = Done
          /\ store' = [store EXCEPT ![p] = rest]
          /\ mutation' = [mutation EXCEPT ![p] = Proceed(begun, rest.status)]
          /\ UNCHANGED load
    /\ UNCHANGED <<diskVars, shell, history>>

\* The caller of save() or remove() is told that it is done.
Acknowledge(p) ==
    IF mutation[p].op = "upsert"
    THEN /\ saved' = [saved EXCEPT ![p] = @ \cup {mutation[p].id}]
         /\ UNCHANGED <<created, dropped, removed>>
    ELSE /\ removed' = [removed EXCEPT ![p] = @ \cup {mutation[p].id}]
         /\ UNCHANGED <<created, dropped, saved>>

\* Mutant of MutationAnswered: no bumpAfterMutation.
MutationAnsweredNoBump(p) ==
    /\ mutation[p].pc = "answered"
    /\ mutation' = [mutation EXCEPT ![p] = NoMutation]
    /\ IF mutation[p].reply = Failed
       THEN UNCHANGED <<store, history>>
       ELSE /\ store' = [store EXCEPT ![p].strategies = mutation[p].reply]
            /\ Acknowledge(p)
    /\ UNCHANGED <<diskVars, shell, load>>

\* The answer of the shell is what the page shows from now on; bumpAfterMutation
\* makes every load in flight stale and the store ready.
MutationAnswered(p) ==
    /\ mutation[p].pc = "answered"
    /\ mutation' = [mutation EXCEPT ![p] = NoMutation]
    /\ IF mutation[p].reply = Failed
       THEN UNCHANGED <<store, history>>
       ELSE /\ store' = [store EXCEPT ![p] =
                  [@ EXCEPT !.strategies = mutation[p].reply,
                            !.current = None,
                            !.status = "ready"]]
            /\ Acknowledge(p)
    /\ UNCHANGED <<diskVars, shell, load>>

-------------------------------------------------------------------------------
(* The shell.                                                               *)

\* load_saved_strategies reads without the lock, as the file is replaced by
\* rename.  The read can fail, and a broken file always fails.
ServeLoad(p, k) ==
    /\ shell[p].pc = "idle"
    /\ load[p][k].pc = "sent"
    /\ \E answer \in {Failed} \cup IF disk = Broken THEN {} ELSE {disk} :
          load' = [load EXCEPT ![p][k] = [pc |-> "read", data |-> answer]]
    /\ UNCHANGED <<diskVars, shell, store, mutation, history>>

TakeCommand(p) ==
    /\ shell[p].pc = "idle"
    /\ mutation[p].pc = "sent"
    /\ shell' = [shell EXCEPT ![p].pc = "acquire"]
    /\ mutation' = [mutation EXCEPT ![p].pc = "running"]
    /\ UNCHANGED <<diskVars, store, load, history>>

\* Mutant of AcquireLock: the mutex of the process, but not the file lock.
AcquireMutexOnly(p) ==
    /\ shell[p].pc = "acquire"
    /\ lock' = p
    /\ shell' = [shell EXCEPT ![p].pc = "read"]
    /\ UNCHANGED <<disk, storeVars, history>>

\* SavedStrategiesFileLock::acquire blocks until the lock is free.
AcquireLock(p) ==
    /\ shell[p].pc = "acquire"
    /\ lock = None
    /\ lock' = p
    /\ shell' = [shell EXCEPT ![p].pc = "read"]
    /\ UNCHANGED <<disk, storeVars, history>>

\* The command ends: the lock is dropped and the answer goes to the page.
Answer(p, reply) ==
    /\ lock' = None
    /\ shell' = [shell EXCEPT ![p] = Idle]
    /\ mutation' = [mutation EXCEPT ![p].pc = "answered", ![p].reply = reply]

\* Under the lock the file is read again, which can fail; a delete that finds nothing to delete
\* answers at once.
ReadFile(p) ==
    /\ shell[p].pc = "read"
    /\ \/ Answer(p, Failed)
       \/ /\ disk # Broken
          /\ mutation[p].op = "delete" /\ mutation[p].id \notin disk
          /\ Answer(p, disk)
       \/ /\ disk # Broken
          /\ mutation[p].op = "upsert" \/ mutation[p].id \in disk
          /\ shell' = [shell EXCEPT ![p] = [pc |-> "write", data |-> disk]]
          /\ UNCHANGED <<lock, mutation>>
    /\ UNCHANGED <<disk, store, load, history>>

Changed(p) ==
    IF mutation[p].op = "upsert"
    THEN shell[p].data \cup {mutation[p].id}
    ELSE shell[p].data \ {mutation[p].id}

\* write_saved_strategies_unlocked renames a complete temporary file of its own
\* over the file, or fails and leaves the file alone.
WriteFile(p) ==
    /\ shell[p].pc = "write"
    /\ \/ disk' = Changed(p) /\ Answer(p, Changed(p))
       \/ disk' = disk /\ Answer(p, Failed)
    /\ UNCHANGED <<store, load, history>>

\* Mutant of Crash: the lock is a file that outlives its holder.
CrashKeepsLock(p) ==
    /\ p \in Crashers
    /\ shell' = [shell EXCEPT ![p] = Idle]
    /\ store' = [store EXCEPT ![p] = Fresh]
    /\ load' = [load EXCEPT ![p] = NoLoads]
    /\ mutation' = [mutation EXCEPT ![p] = NoMutation]
    /\ saved' = [saved EXCEPT ![p] = {}]
    /\ removed' = [removed EXCEPT ![p] = {}]
    /\ UNCHANGED <<disk, lock, created, dropped>>

\* A window is closed or its process dies, and is started again.  The system
\* releases its lock.
Crash(p) ==
    /\ p \in Crashers
    /\ lock' = IF lock = p THEN None ELSE lock
    /\ shell' = [shell EXCEPT ![p] = Idle]
    /\ store' = [store EXCEPT ![p] = Fresh]
    /\ load' = [load EXCEPT ![p] = NoLoads]
    /\ mutation' = [mutation EXCEPT ![p] = NoMutation]
    /\ saved' = [saved EXCEPT ![p] = {}]
    /\ removed' = [removed EXCEPT ![p] = {}]
    /\ UNCHANGED <<disk, created, dropped>>

\* Somebody edits the file by hand and leaves it broken, while no command is
\* between its reading and its writing.
EditByHand ==
    /\ lock = None
    /\ disk # Broken
    /\ disk' = Broken
    /\ UNCHANGED <<lock, shell, storeVars, history>>

-------------------------------------------------------------------------------

Shell(p) ==
    \/ \E k \in Loads : ServeLoad(p, k)
    \/ TakeCommand(p)
    \/ ReadFile(p)
    \/ WriteFile(p)

Page(p) ==
    \/ \E k \in Loads : LoadAnswered(p, k)
    \/ BeginMutation(p)
    \/ MutationAnswered(p)

User(p) == Start(p) \/ Reload(p) \/ Save(p) \/ Remove(p)

Next ==
    \/ \E p \in Apps : User(p) \/ Page(p) \/ Shell(p) \/ AcquireLock(p) \/ Crash(p)
    \/ EditByHand

Spec == Init /\ [][Next]_vars

-------------------------------------------------------------------------------

Contents == SUBSET Ids

Request == [op : {"upsert", "delete"}, id : Ids]

StoreState ==
    [status : {"loading", "ready", "failed"}, strategies : Contents,
     initial : Loads \cup {None, Done}, current : Loads \cup {None},
     queue : Seq(Request), reloads : 0..MaxReloads]

LoadState == [pc : {"none", "sent", "read"}, data : Contents \cup {Failed}]

MutationState ==
    [pc : {"idle", "waiting", "sent", "running", "answered"},
     op : {None, "upsert", "delete"}, id : Ids \cup {None},
     awaits : Loads \cup {None}, reply : Contents \cup {None, Failed}]

ShellState == [pc : {"idle", "acquire", "read", "write"}, data : Contents]

\* Every variable keeps the type its TypeScript or Rust declaration gives it.
TypeOK ==
    /\ disk \in Contents \cup {Broken}
    /\ lock \in Apps \cup {None}
    /\ shell \in [Apps -> ShellState]
    /\ store \in [Apps -> StoreState]
    /\ load \in [Apps -> [Loads -> LoadState]]
    /\ mutation \in [Apps -> MutationState]
    /\ created \subseteq Ids /\ dropped \subseteq Ids
    /\ saved \in [Apps -> Contents] /\ removed \in [Apps -> Contents]

\* An acknowledged save stays in the file until somebody asks for its removal,
\* and an acknowledged removal does not come back, whatever the other process
\* writes meanwhile (commands.rs:204-208).
AcknowledgedIsOnDisk ==
    disk # Broken => \A p \in Apps :
        /\ saved[p] \ dropped \subseteq disk
        /\ removed[p] \cap disk = {}

\* What a window has saved it keeps showing, and what it has removed it does not
\* show again: no load that was in flight at the time of the change wipes it
\* (savedStrategyStore.ts:42-51).
OwnChangesAreSeen ==
    \A p \in Apps :
        /\ saved[p] \ dropped \subseteq store[p].strategies
        /\ removed[p] \cap store[p].strategies = {}

\* Nobody waits for nothing: a mutation that awaits a load awaits one that is in
\* flight, however reloads have replaced it, and the lock is held by a command
\* that will drop it, so no page stays "mutating" for ever
\* (savedStrategyStore.ts:165-198, commands.rs:239-244).
NobodyWaitsForNothing ==
    /\ \A p \in Apps :
          mutation[p].pc = "waiting" => load[p][mutation[p].awaits].pc # "none"
    /\ \A p \in Apps : (lock = p) <=> (shell[p].pc \in {"read", "write"})
===============================================================================
