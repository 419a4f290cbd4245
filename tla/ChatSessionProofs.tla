--------------------------- MODULE ChatSessionProofs ---------------------------
(***************************************************************************)
(* Proofs about the locks, the memory and the histories of the chat        *)
(* sessions, for any number of requests and sessions and any sizes of the  *)
(* registry, the window, the archive and the file.                         *)
(***************************************************************************)
EXTENDS ChatSession, FiniteSetTheorems, SequenceTheorems, TLAPS

(* Part 1: the locks.                                                        *)

LockTypes ==
    /\ used \subseteq SessionIds
    /\ registry \in [SessionIds -> {0} \cup Entries]
    /\ holder \in [Entries -> Requests \cup {NoId}]
    /\ refs \in [Entries -> Nat]
    /\ pc \in [Requests -> Labels]
    /\ want \in [Requests -> SessionIds \cup {NoId}]
    /\ sid \in [Requests -> SessionIds \cup {NoId}]
    /\ entry \in [Requests -> {0} \cup Entries]

\* A request without an id has no session until it has made one.
Sessions ==
    \A r \in Requests :
        /\ pc[r] \in {"new", "acquire", "open"} => sid[r] = NoId
        /\ pc[r] = "new" => want[r] = NoId
        /\ pc[r] = "acquire" => want[r] # NoId
        /\ pc[r] = "lockown" => want[r] = NoId /\ sid[r] # NoId

\* What refers to an entry: a request that waits for a lock or has one.
Refers(r) ==
    \/ pc[r] \in {"acquire", "acquireown"}
    \/ pc[r] = "open" /\ want[r] # NoId
    \/ pc[r] \in Inside \ {"open"}

\* It is the entry the registry has for the session of the request, and no other
\* session has it.
EntriesAreRegistered ==
    /\ \A r \in Requests : entry[r] # 0 <=> Refers(r)
    /\ \A r \in Requests : entry[r] # 0 =>
           SessionOf(r) \in SessionIds /\ registry[SessionOf(r)] = entry[r]
    /\ \A s, x \in SessionIds : registry[s] # 0 /\ registry[s] = registry[x] => s = x

ReferencesAreCounted ==
    \A e \in Entries : refs[e] = Cardinality({r \in Requests : entry[r] = e})

\* Who is inside holds the lock of its entry, and nobody else holds a lock.
HoldersAreInside ==
    /\ \A e \in Entries : holder[e] # NoId =>
           entry[holder[e]] = e /\ pc[holder[e]] \in Inside
    /\ \A r \in Requests : entry[r] # 0 /\ pc[r] \in Inside => holder[entry[r]] = r

LockInv ==
    /\ LockTypes /\ Sessions /\ EntriesAreRegistered /\ ReferencesAreCounted
    /\ HoldersAreInside

USE ChatSessionAssumption

-------------------------------------------------------------------------------
(* The registry.                                                           *)

LEMMA EntryNumbers ==
  /\ Cardinality(Requests) + Cardinality(SessionIds) \in Nat
  /\ Entries \subseteq Nat /\ 0 \notin Entries
<1>1. Cardinality(Requests) \in Nat /\ Cardinality(SessionIds) \in Nat
  BY FS_CardinalityType
<1> QED BY <1>1 DEF Entries

\* A table has no more values than it has places.
LEMMA FewValues ==
  ASSUME NEW A, IsFiniteSet(A), NEW B, NEW f \in [A -> B]
  PROVE  /\ IsFiniteSet({f[x] : x \in A})
         /\ Cardinality({f[x] : x \in A}) <= Cardinality(A)
<1> DEFINE T == {f[x] : x \in A}
<1>1. f \in Surjection(A, T)
  BY DEF Surjection
<1> QED BY <1>1, FS_Surjection

\* There is an entry nobody has: those of the sessions and of the requests are
\* fewer, when there is a request without one.
LEMMA FreeEntryIsFree ==
  ASSUME LockTypes, NEW r \in Requests, entry[r] = 0
  PROVE  /\ FreeEntry \in Entries
         /\ \A s \in SessionIds : registry[s] # FreeEntry
         /\ \A q \in Requests : entry[q] # FreeEntry
<1> DEFINE n == Cardinality(Requests) + Cardinality(SessionIds)
           R == {registry[s] : s \in SessionIds}
           E == {entry[q] : q \in Requests}
<1>0. /\ registry \in [SessionIds -> {0} \cup Entries]
      /\ entry \in [Requests -> {0} \cup Entries]
      /\ IsFiniteSet(SessionIds) /\ IsFiniteSet(Requests)
  BY DEF LockTypes
<1>1. IsFiniteSet(R) /\ Cardinality(R) <= Cardinality(SessionIds)
  <2>1. registry \in [SessionIds -> {0} \cup Entries] /\ IsFiniteSet(SessionIds)
    BY <1>0
  <2> QED BY ONLY <2>1, FewValues
<1>2. IsFiniteSet(E) /\ Cardinality(E) <= Cardinality(Requests)
  <2>1. entry \in [Requests -> {0} \cup Entries] /\ IsFiniteSet(Requests)
    BY <1>0
  <2> QED BY ONLY <2>1, FewValues
<1>3. /\ Cardinality(R) \in Nat /\ Cardinality(E) \in Nat /\ Cardinality(R \cap E) \in Nat
      /\ IsFiniteSet(R \cup E) /\ Cardinality(R \cup E) \in Nat
      /\ Cardinality(SessionIds) \in Nat /\ Cardinality(Requests) \in Nat
  BY <1>1, <1>2, FS_CardinalityType, FS_Union, FS_Intersection
<1>4. Cardinality(R \cup E) <= n
  <2>1. Cardinality(R \cup E) = Cardinality(R) + Cardinality(E) - Cardinality(R \cap E)
    BY <1>1, <1>2, FS_Union
  <2> QED BY <1>1, <1>2, <1>3, <2>1
<1>5. ~(0..n \subseteq R \cup E)
  <2>1. n \in Nat
    BY <1>3
  <2>2. Cardinality(0..n) = n + 1
    BY <2>1, FS_Interval
  <2>3. 0..n \subseteq R \cup E => Cardinality(0..n) <= Cardinality(R \cup E)
    BY <1>3, FS_Subset
  <2> QED BY <1>3, <1>4, <2>1, <2>2, <2>3
<1>6. 0 \in E
  OBVIOUS
<1>7. PICK e \in 0..n : e \notin R \cup E
  BY <1>5
<1>8. e \in Entries
  BY <1>3, <1>6, <1>7 DEF Entries
<1>9. /\ \A s \in SessionIds : registry[s] # e
      /\ \A q \in Requests : entry[q] # e
  BY <1>7
<1> QED BY <1>8, <1>9 DEF FreeEntry

\* An entry without references is no request's.
LEMMA UnreferredIsUnused ==
  ASSUME LockInv, NEW e \in Entries, refs[e] = 0, NEW q \in Requests
  PROVE  entry[q] # e
<1> DEFINE Q == {x \in Requests : entry[x] = e}
<1>1. IsFiniteSet(Q)
  BY FS_Subset
<1>2. Cardinality(Q) = 0
  BY DEF LockInv, ReferencesAreCounted
<1>3. Q = {}
  BY <1>1, <1>2, FS_EmptySet
<1> QED BY <1>3

\* What _session_lock comes to, with or without an entry for the session.
LEMMA TakeRefMoves ==
  ASSUME LockInv, NEW r \in Requests, NEW s \in SessionIds, entry[r] = 0, TakeRef(r, s)
  PROVE  \E e \in Entries :
           /\ entry' = [entry EXCEPT ![r] = e]
           /\ refs' \in [Entries -> Nat]
           /\ \A x \in Entries : refs'[x] = IF x = e THEN refs[x] + 1 ELSE refs[x]
           /\ registry' \in [SessionIds -> {0} \cup Entries]
           /\ registry'[s] = e
           /\ \A x, y \in SessionIds :
                registry'[x] # 0 /\ registry'[x] = registry'[y] => x = y
           /\ \A q \in Requests :
                entry[q] # 0 => registry'[SessionOf(q)] = entry[q]
           /\ holder' = holder
<1>0. /\ registry \in [SessionIds -> {0} \cup Entries] /\ refs \in [Entries -> Nat]
      /\ holder \in [Entries -> Requests \cup {NoId}]
      /\ entry \in [Requests -> {0} \cup Entries]
      /\ \A q \in Requests : entry[q] # 0 =>
           SessionOf(q) \in SessionIds /\ registry[SessionOf(q)] = entry[q]
      /\ \A x, y \in SessionIds : registry[x] # 0 /\ registry[x] = registry[y] => x = y
  BY DEF LockInv, LockTypes, EntriesAreRegistered
<1>1. CASE registry[s] # 0
  <2>1. registry[s] \in Entries /\ refs[registry[s]] + 1 \in Nat
    BY <1>0, <1>1
  <2>2. /\ entry' = [entry EXCEPT ![r] = registry[s]]
        /\ refs' = [refs EXCEPT ![registry[s]] = refs[registry[s]] + 1]
        /\ registry' = registry /\ holder' = holder
    BY <1>1 DEF TakeRef
  <2>3. /\ refs' \in [Entries -> Nat]
        /\ \A x \in Entries : refs'[x] = IF x = registry[s] THEN refs[x] + 1 ELSE refs[x]
    BY <1>0, <2>1, <2>2
  <2>4. registry' \in [SessionIds -> {0} \cup Entries] /\ registry'[s] = registry[s]
    BY <1>0, <2>2
  <2>5. \A x, y \in SessionIds :
          registry'[x] # 0 /\ registry'[x] = registry'[y] => x = y
    BY <1>0, <2>2
  <2>6. \A q \in Requests : entry[q] # 0 => registry'[SessionOf(q)] = entry[q]
    BY <1>0, <2>2
  <2> QED BY <2>1, <2>2, <2>3, <2>4, <2>5, <2>6
<1>2. CASE registry[s] = 0
  <2> DEFINE f == FreeEntry
  <2>1. /\ f \in Entries
        /\ \A x \in SessionIds : registry[x] # f
        /\ \A q \in Requests : entry[q] # f
    BY FreeEntryIsFree DEF LockInv
  <2>2. PICK E \in Evictions :
          /\ registry' = [x \in SessionIds |->
                 IF x = s THEN f ELSE IF x \in E THEN 0 ELSE registry[x]]
          /\ entry' = [entry EXCEPT ![r] = f]
          /\ refs' = [refs EXCEPT ![f] = 1]
          /\ holder' = [holder EXCEPT ![f] = NoId]
    BY <1>2 DEF TakeRef
  <2> HIDE DEF f
  <2>3. \A x \in E : x \in SessionIds /\ registry[x] # 0 /\ refs[registry[x]] = 0
    BY <2>2 DEF Evictions, MayEvict
  <2>4. refs[f] = 0
    <3>1. {q \in Requests : entry[q] = f} = {}
      BY <2>1
    <3> QED BY <2>1, <3>1, FS_EmptySet DEF LockInv, ReferencesAreCounted
  <2>5. holder[f] = NoId
    BY <1>0, <2>1 DEF LockInv, HoldersAreInside
  <2>6. holder' = holder
    BY <1>0, <2>1, <2>2, <2>5
  <2>7. /\ refs' \in [Entries -> Nat]
        /\ \A x \in Entries : refs'[x] = IF x = f THEN refs[x] + 1 ELSE refs[x]
    BY <1>0, <2>1, <2>2, <2>4
  <2>8. /\ registry' \in [SessionIds -> {0} \cup Entries] /\ registry'[s] = f
        /\ \A x \in SessionIds : x # s => registry'[x] \in {0, registry[x]}
    BY <1>0, <2>1, <2>2
  <2>9. \A x, y \in SessionIds :
          registry'[x] # 0 /\ registry'[x] = registry'[y] => x = y
    BY <1>0, <2>1, <2>8
  <2>10. ASSUME NEW q \in Requests, entry[q] # 0
         PROVE  registry'[SessionOf(q)] = entry[q]
    <3>1. /\ SessionOf(q) \in SessionIds /\ registry[SessionOf(q)] = entry[q]
          /\ entry[q] \in Entries /\ SessionOf(q) # s
      BY <1>0, <1>2, <2>10
    <3>2. refs[entry[q]] # 0
      BY <3>1, UnreferredIsUnused
    <3>3. SessionOf(q) \notin E
      BY <2>3, <3>1, <3>2
    <3> QED BY <2>2, <3>1, <3>3
  <2> QED BY <2>1, <2>2, <2>6, <2>7, <2>8, <2>9, <2>10
<1> QED BY <1>1, <1>2

-------------------------------------------------------------------------------
(* The references to an entry, when a request comes or goes.               *)

LEMMA OneMore ==
  ASSUME LockInv, NEW r \in Requests, entry[r] = 0, NEW e \in Entries,
         entry' = [entry EXCEPT ![r] = e],
         \A x \in Entries : refs'[x] = IF x = e THEN refs[x] + 1 ELSE refs[x]
  PROVE  ReferencesAreCounted'
<1> SUFFICES ASSUME NEW x \in Entries
             PROVE  refs'[x] = Cardinality({q \in Requests : entry'[q] = x})
  BY DEF ReferencesAreCounted
<1> DEFINE Q == {q \in Requests : entry[q] = x}
<1>0. /\ IsFiniteSet(Q) /\ refs[x] = Cardinality(Q) /\ x # 0
      /\ \A q \in Requests : entry'[q] = IF q = r THEN e ELSE entry[q]
  BY FS_Subset, EntryNumbers DEF LockInv, ReferencesAreCounted, LockTypes
<1>1. CASE x = e
  <2>1. {q \in Requests : entry'[q] = x} = Q \cup {r} /\ r \notin Q
    BY <1>0, <1>1
  <2>2. Cardinality(Q \cup {r}) = Cardinality(Q) + 1
    BY <1>0, <2>1, FS_AddElement
  <2> QED BY <1>0, <1>1, <2>1, <2>2
<1>2. CASE x # e
  <2>1. {q \in Requests : entry'[q] = x} = Q
    BY <1>0, <1>2
  <2> QED BY <1>0, <1>2, <2>1
<1> QED BY <1>1, <1>2

LEMMA OneLess ==
  ASSUME LockInv, NEW r \in Requests, entry[r] # 0, DropRef(r)
  PROVE  /\ ReferencesAreCounted'
         /\ refs' \in [Entries -> Nat]
         /\ entry' \in [Requests -> {0} \cup Entries]
         /\ \A q \in Requests : entry'[q] = IF q = r THEN 0 ELSE entry[q]
<1> DEFINE e == entry[r]
           Q(x) == {q \in Requests : entry[q] = x}
<1>0. /\ e \in Entries /\ 0 \notin Entries
      /\ entry \in [Requests -> {0} \cup Entries] /\ refs \in [Entries -> Nat]
      /\ \A x \in Entries : IsFiniteSet(Q(x)) /\ refs[x] = Cardinality(Q(x))
  BY FS_Subset, EntryNumbers DEF LockInv, ReferencesAreCounted, LockTypes
<1>1. /\ \A q \in Requests : entry'[q] = IF q = r THEN 0 ELSE entry[q]
      /\ entry' \in [Requests -> {0} \cup Entries]
  BY <1>0 DEF DropRef
<1>2. Cardinality(Q(e) \ {r}) = Cardinality(Q(e)) - 1 /\ Cardinality(Q(e) \ {r}) \in Nat
  BY <1>0, FS_RemoveElement, FS_CardinalityType
<1>3. refs' = [refs EXCEPT ![e] = refs[e] - 1] /\ refs[e] - 1 \in Nat
  BY <1>0, <1>2 DEF DropRef
<1>4. /\ refs' \in [Entries -> Nat]
      /\ \A x \in Entries : refs'[x] = IF x = e THEN refs[x] - 1 ELSE refs[x]
  BY <1>0, <1>3
<1>5. ASSUME NEW x \in Entries
      PROVE  refs'[x] = Cardinality({q \in Requests : entry'[q] = x})
  <2>1. CASE x = e
    <3>1. {q \in Requests : entry'[q] = x} = Q(e) \ {r}
      BY <1>0, <1>1, <2>1
    <3> QED BY <1>0, <1>2, <1>4, <2>1, <3>1
  <2>2. CASE x # e
    <3>1. {q \in Requests : entry'[q] = x} = Q(x)
      BY <1>0, <1>1, <1>5, <2>2
    <3> QED BY <1>0, <1>4, <1>5, <2>2, <3>1
  <2> QED BY <2>1, <2>2
<1> QED BY <1>1, <1>4, <1>5 DEF ReferencesAreCounted

-------------------------------------------------------------------------------
(* The steps.  Each lemma is about what several actions have in common.     *)

\* A request comes to refer to the lock of its session.
LEMMA Referring ==
  ASSUME LockInv, NEW r \in Requests, NEW s \in SessionIds, entry[r] = 0, TakeRef(r, s),
         \/ /\ pc' = [pc EXCEPT ![r] = "acquire"] /\ pc[r] = "new"
            /\ want' = [want EXCEPT ![r] = s]
         \/ /\ pc' = [pc EXCEPT ![r] = "acquireown"] /\ pc[r] = "lockown"
            /\ sid[r] = s /\ want' = want,
         UNCHANGED <<used, sid>>
  PROVE  LockInv'
<1>0. LockTypes /\ Sessions /\ EntriesAreRegistered /\ HoldersAreInside
  BY DEF LockInv
<1>1. PICK e \in Entries :
           /\ entry' = [entry EXCEPT ![r] = e]
           /\ refs' \in [Entries -> Nat]
           /\ \A x \in Entries : refs'[x] = IF x = e THEN refs[x] + 1 ELSE refs[x]
           /\ registry' \in [SessionIds -> {0} \cup Entries]
           /\ registry'[s] = e
           /\ \A x, y \in SessionIds :
                registry'[x] # 0 /\ registry'[x] = registry'[y] => x = y
           /\ \A q \in Requests :
                entry[q] # 0 => registry'[SessionOf(q)] = entry[q]
           /\ holder' = holder
  BY TakeRefMoves
<1>2. ReferencesAreCounted'
  BY <1>1, OneMore
<1>3. /\ entry' \in [Requests -> {0} \cup Entries]
      /\ \A q \in Requests : entry'[q] = IF q = r THEN e ELSE entry[q]
      /\ e # 0
  BY <1>0, <1>1, EntryNumbers DEF LockTypes
<1>4. /\ want' \in [Requests -> SessionIds \cup {NoId}]
      /\ \A q \in Requests : q # r => want'[q] = want[q]
      /\ sid' = sid
      /\ pc' \in [Requests -> Labels]
      /\ \A q \in Requests : q # r => pc'[q] = pc[q]
  BY <1>0 DEF LockTypes, Labels
<1>5. \/ pc[r] = "new" /\ pc'[r] = "acquire" /\ want'[r] = s
      \/ pc[r] = "lockown" /\ pc'[r] = "acquireown" /\ sid[r] = s /\ want'[r] = want[r]
  BY <1>0 DEF LockTypes
<1>6. LockTypes'
  BY <1>0, <1>1, <1>3, <1>4 DEF LockTypes
<1>7. s # NoId
  OBVIOUS
<1>8. Sessions'
  BY <1>0, <1>4, <1>5, <1>7 DEF Sessions
<1>9. SessionOf(r)' = s /\ \A q \in Requests : q # r => SessionOf(q)' = SessionOf(q)
  BY <1>0, <1>4, <1>5, <1>7 DEF SessionOf, Sessions
<1>10. Refers(r)' /\ \A q \in Requests : q # r => (Refers(q)' <=> Refers(q))
  BY <1>4, <1>5 DEF Refers
<1>11. EntriesAreRegistered'
  <2>1. \A q \in Requests : entry'[q] # 0 <=> Refers(q)'
    BY <1>0, <1>3, <1>10 DEF EntriesAreRegistered
  <2>2. \A q \in Requests : entry'[q] # 0 =>
           SessionOf(q)' \in SessionIds /\ registry'[SessionOf(q)'] = entry'[q]
    BY <1>0, <1>1, <1>3, <1>9 DEF EntriesAreRegistered
  <2> QED BY <1>1, <2>1, <2>2 DEF EntriesAreRegistered
<1>12. HoldersAreInside'
  <2>1. \A x \in Entries : holder'[x] # NoId =>
           entry'[holder'[x]] = x /\ pc'[holder'[x]] \in Inside
    <3> SUFFICES ASSUME NEW x \in Entries, holder'[x] # NoId
                 PROVE  entry'[holder'[x]] = x /\ pc'[holder'[x]] \in Inside
      OBVIOUS
    <3>1. /\ holder[x] \in Requests /\ entry[holder[x]] = x /\ pc[holder[x]] \in Inside
          /\ holder'[x] = holder[x] /\ x # 0
      BY <1>0, <1>1, EntryNumbers DEF LockTypes, HoldersAreInside
    <3>2. holder[x] # r
      BY <3>1
    <3> QED BY <1>3, <1>4, <3>1, <3>2
  <2>2. \A q \in Requests :
          entry'[q] # 0 /\ pc'[q] \in Inside => holder'[entry'[q]] = q
    BY <1>0, <1>1, <1>3, <1>4, <1>5 DEF HoldersAreInside, Inside
  <2> QED BY <2>1, <2>2 DEF HoldersAreInside
<1> QED BY <1>2, <1>6, <1>8, <1>11, <1>12 DEF LockInv

\* A request gets the lock.
LEMMA Acquiring ==
  ASSUME LockInv, NEW r \in Requests, Acquire(r)
  PROVE  LockInv'
<1>0. LockTypes /\ Sessions /\ EntriesAreRegistered /\ HoldersAreInside
  BY DEF LockInv
<1>1. /\ pc[r] \in {"acquire", "acquireown"} /\ holder[entry[r]] = NoId
      /\ holder' = [holder EXCEPT ![entry[r]] = r]
      /\ pc' = [pc EXCEPT ![r] = IF pc[r] = "acquire" THEN "open" ELSE "yielded"]
      /\ UNCHANGED <<used, registry, refs, want, sid, entry>>
  BY DEF Acquire, GoTo, diskVars
<1>2. entry[r] \in Entries
  BY <1>0, <1>1 DEF EntriesAreRegistered, Refers, LockTypes
<1>3. /\ holder' \in [Entries -> Requests \cup {NoId}]
      /\ \A x \in Entries : holder'[x] = IF x = entry[r] THEN r ELSE holder[x]
  BY <1>0, <1>1, <1>2 DEF LockTypes
<1>4. /\ pc' \in [Requests -> Labels]
      /\ \A q \in Requests : q # r => pc'[q] = pc[q]
      /\ \/ pc[r] = "acquire" /\ pc'[r] = "open"
         \/ pc[r] = "acquireown" /\ pc'[r] = "yielded"
  BY <1>0, <1>1 DEF LockTypes, Labels
<1>5. LockTypes'
  BY <1>0, <1>1, <1>3, <1>4 DEF LockTypes
<1>6. Sessions'
  BY <1>0, <1>1, <1>4 DEF Sessions
<1>7. \A q \in Requests : Refers(q)' <=> Refers(q)
  BY <1>0, <1>1, <1>4 DEF Refers, Inside, Sessions
<1>8. \A q \in Requests : SessionOf(q)' = SessionOf(q)
  BY <1>1 DEF SessionOf
<1>9. EntriesAreRegistered'
  BY <1>0, <1>1, <1>7, <1>8 DEF EntriesAreRegistered
<1>10. ReferencesAreCounted'
  BY <1>1 DEF LockInv, ReferencesAreCounted
<1>11. HoldersAreInside'
  <2>1. \A x \in Entries : holder'[x] # NoId =>
           entry'[holder'[x]] = x /\ pc'[holder'[x]] \in Inside
    BY <1>0, <1>1, <1>3, <1>4 DEF HoldersAreInside, Inside, LockTypes
  <2>2. \A q \in Requests :
          entry'[q] # 0 /\ pc'[q] \in Inside => holder'[entry'[q]] = q
    BY <1>0, <1>1, <1>3, <1>4 DEF HoldersAreInside, LockTypes
  <2> QED BY <2>1, <2>2 DEF HoldersAreInside
<1> QED BY <1>5, <1>6, <1>9, <1>10, <1>11 DEF LockInv

\* A request ends, and has no lock any more.
LEMMA Leaving ==
  ASSUME LockInv, NEW r \in Requests, DropRef(r),
         pc' = [pc EXCEPT ![r] = "end"],
         \/ pc[r] = "acquire" /\ holder' = holder
         \/ /\ pc[r] \in Inside \ {"open"}
            /\ holder' = [holder EXCEPT ![entry[r]] = NoId],
         UNCHANGED <<used, registry, want, sid>>
  PROVE  LockInv'
<1>0. LockTypes /\ Sessions /\ EntriesAreRegistered /\ HoldersAreInside
  BY DEF LockInv
<1>1. entry[r] # 0 /\ entry[r] \in Entries
  BY <1>0 DEF EntriesAreRegistered, Refers, LockTypes
<1>2. /\ ReferencesAreCounted'
      /\ refs' \in [Entries -> Nat]
      /\ entry' \in [Requests -> {0} \cup Entries]
      /\ \A q \in Requests : entry'[q] = IF q = r THEN 0 ELSE entry[q]
  BY <1>1, OneLess
<1>3. /\ pc' \in [Requests -> Labels]
      /\ \A q \in Requests : pc'[q] = IF q = r THEN "end" ELSE pc[q]
  BY <1>0 DEF LockTypes, Labels
<1>4. /\ holder' \in [Entries -> Requests \cup {NoId}]
      /\ \A x \in Entries : holder'[x] # NoId => holder'[x] = holder[x] /\ holder'[x] # r
      /\ \A x \in Entries : x # entry[r] => holder'[x] = holder[x]
      /\ holder[entry[r]] # r => holder' = holder
  <2>1. CASE pc[r] = "acquire" /\ holder' = holder
    <3>1. \A x \in Entries : holder[x] # NoId => holder[x] # r
      BY <1>0, <2>1 DEF HoldersAreInside, Inside
    <3> QED BY <1>0, <2>1, <3>1 DEF LockTypes
  <2>2. CASE /\ pc[r] \in Inside \ {"open"}
             /\ holder' = [holder EXCEPT ![entry[r]] = NoId]
    <3>1. holder[entry[r]] = r
      BY <1>0, <1>1, <2>2 DEF HoldersAreInside
    <3>2. \A x \in Entries : holder'[x] = IF x = entry[r] THEN NoId ELSE holder[x]
      BY <1>0, <2>2 DEF LockTypes
    <3>3. \A x \in Entries : holder[x] = r /\ r # NoId => x = entry[r]
      BY <1>0 DEF HoldersAreInside
    <3>4. holder' \in [Entries -> Requests \cup {NoId}]
      BY <1>0, <2>2 DEF LockTypes
    <3> QED BY <3>1, <3>2, <3>3, <3>4
  <2> QED BY <2>1, <2>2
<1>5. LockTypes'
  BY <1>0, <1>2, <1>3, <1>4 DEF LockTypes
<1>6. Sessions'
  BY <1>0, <1>3 DEF Sessions
<1>7. ~Refers(r)' /\ \A q \in Requests : q # r => (Refers(q)' <=> Refers(q))
  BY <1>3 DEF Refers, Inside
<1>8. \A q \in Requests : SessionOf(q)' = SessionOf(q)
  BY DEF SessionOf
<1>9. EntriesAreRegistered'
  BY <1>0, <1>2, <1>7, <1>8 DEF EntriesAreRegistered
<1>10. HoldersAreInside'
  <2>1. \A x \in Entries : holder'[x] # NoId =>
           entry'[holder'[x]] = x /\ pc'[holder'[x]] \in Inside
    BY <1>0, <1>2, <1>3, <1>4 DEF HoldersAreInside, LockTypes
  <2>2. ASSUME NEW q \in Requests, entry'[q] # 0, pc'[q] \in Inside
        PROVE  holder'[entry'[q]] = q
    <3>1. q # r /\ entry'[q] = entry[q] /\ entry[q] \in Entries /\ holder[entry[q]] = q
      BY <1>0, <1>2, <1>3, <2>2 DEF HoldersAreInside, LockTypes
    <3>2. CASE entry[q] = entry[r]
      BY <1>4, <3>1, <3>2
    <3>3. CASE entry[q] # entry[r]
      BY <1>4, <3>1, <3>3
    <3> QED BY <3>2, <3>3
  <2> QED BY <2>1, <2>2 DEF HoldersAreInside
<1> QED BY <1>2, <1>5, <1>6, <1>9, <1>10 DEF LockInv

\* A request that is inside goes on, and the locks are as they were.
LEMMA Working ==
  ASSUME LockInv, NEW r \in Requests, NEW label \in Labels,
         pc' = [pc EXCEPT ![r] = label],
         NEW s \in SessionIds \cup {NoId}, sid' = [sid EXCEPT ![r] = s],
         \/ /\ pc[r] \in Inside \ {"open"} \/ (pc[r] = "open" /\ want[r] # NoId)
            /\ label \in Inside \ {"open"}
            /\ s = sid[r] \/ want[r] # NoId
         \/ pc[r] = "open" /\ want[r] = NoId /\ label = "lockown" /\ s # NoId
         \/ pc[r] = "new" /\ want[r] = NoId /\ label = "open" /\ s = sid[r],
         used' \subseteq SessionIds, UNCHANGED <<lockVars, want, entry>>
  PROVE  LockInv'
<1>0. LockTypes /\ Sessions /\ EntriesAreRegistered /\ HoldersAreInside
  BY DEF LockInv
<1>1. /\ pc' \in [Requests -> Labels]
      /\ \A q \in Requests : pc'[q] = IF q = r THEN label ELSE pc[q]
  BY <1>0 DEF LockTypes
<1>2. /\ sid' \in [Requests -> SessionIds \cup {NoId}]
      /\ \A q \in Requests : sid'[q] = IF q = r THEN s ELSE sid[q]
  BY <1>0 DEF LockTypes
<1>3. LockTypes'
  BY <1>0, <1>1, <1>2 DEF LockTypes, lockVars
<1>4. Sessions'
  BY <1>0, <1>1, <1>2 DEF Sessions, Inside
<1>5. \A q \in Requests : Refers(q)' <=> Refers(q)
  BY <1>1 DEF Refers, Inside
<1>6. \A q \in Requests : entry[q] # 0 => SessionOf(q)' = SessionOf(q)
  <2>1. entry[r] # 0 => SessionOf(r)' = SessionOf(r)
    BY <1>0, <1>2 DEF SessionOf, EntriesAreRegistered, Refers, Inside
  <2>2. \A q \in Requests : q # r => SessionOf(q)' = SessionOf(q)
    BY <1>2 DEF SessionOf
  <2> QED BY <2>1, <2>2
<1>7. EntriesAreRegistered'
  BY <1>0, <1>5, <1>6 DEF EntriesAreRegistered, lockVars
<1>8. ReferencesAreCounted'
  BY DEF LockInv, ReferencesAreCounted, lockVars
<1>9. HoldersAreInside'
  <2>1. \A x \in Entries : holder'[x] # NoId =>
           entry'[holder'[x]] = x /\ pc'[holder'[x]] \in Inside
    <3>1. entry[r] # 0 => pc[r] \notin {"new"} /\ ~(pc[r] = "open" /\ want[r] = NoId)
      BY <1>0 DEF EntriesAreRegistered, Refers, Inside
    <3>2. \A x \in Entries : holder[x] = r => label \in Inside
      BY <1>0, <3>1, EntryNumbers DEF HoldersAreInside
    <3> QED BY <1>0, <1>1, <3>2 DEF HoldersAreInside, lockVars, LockTypes
  <2>2. \A q \in Requests :
          entry'[q] # 0 /\ pc'[q] \in Inside => holder'[entry'[q]] = q
    <3>1. entry[r] # 0 => pc[r] \in Inside
      BY <1>0 DEF EntriesAreRegistered, Refers, Inside
    <3> QED BY <1>0, <1>1, <3>1 DEF HoldersAreInside, lockVars
  <2> QED BY <2>1, <2>2 DEF HoldersAreInside
<1> QED BY <1>3, <1>4, <1>7, <1>8, <1>9 DEF LockInv

\* The data service restarts.
LEMMA Restarting ==
  ASSUME LockInv, Restart
  PROVE  LockInv'
<1>0. LockTypes /\ Sessions
  BY DEF LockInv
<1>1. /\ \A q \in Requests : pc'[q] = IF pc[q] = "new" THEN "new" ELSE "end"
      /\ pc' \in [Requests -> Labels]
      /\ \A s \in SessionIds : registry'[s] = 0
      /\ registry' \in [SessionIds -> {0} \cup Entries]
      /\ \A e \in Entries : holder'[e] = NoId
      /\ holder' \in [Entries -> Requests \cup {NoId}]
      /\ \A e \in Entries : refs'[e] = 0
      /\ refs' \in [Entries -> Nat]
      /\ \A q \in Requests : entry'[q] = 0
      /\ entry' \in [Requests -> {0} \cup Entries]
      /\ UNCHANGED <<used, want, sid>>
  BY DEF Restart, Labels, diskVars
<1>2. LockTypes'
  BY <1>0, <1>1 DEF LockTypes
<1>3. Sessions'
  BY <1>0, <1>1 DEF Sessions
<1>4. EntriesAreRegistered'
  BY <1>1 DEF EntriesAreRegistered, Refers, Inside
<1>5. ReferencesAreCounted'
  <2>1. ASSUME NEW e \in Entries
        PROVE  refs'[e] = Cardinality({q \in Requests : entry'[q] = e})
    <3>1. {q \in Requests : entry'[q] = e} = {}
      BY <1>1, EntryNumbers
    <3> QED BY <1>1, <3>1, FS_EmptySet
  <2> QED BY <2>1 DEF ReferencesAreCounted
<1>6. HoldersAreInside'
  BY <1>1 DEF HoldersAreInside
<1> QED BY <1>2, <1>3, <1>4, <1>5, <1>6 DEF LockInv

-------------------------------------------------------------------------------
(* The theorems.                                                           *)

LEMMA LockInit == Init => LockInv
<1> SUFFICES ASSUME Init
             PROVE  LockInv
  OBVIOUS
<1>1. LockTypes
  BY DEF Init, LockTypes, Labels
<1>2. Sessions
  BY DEF Init, Sessions
<1>3. EntriesAreRegistered
  BY DEF Init, EntriesAreRegistered, Refers, Inside
<1>4. ReferencesAreCounted
  <2>1. ASSUME NEW e \in Entries
        PROVE  refs[e] = Cardinality({q \in Requests : entry[q] = e})
    <3>1. {q \in Requests : entry[q] = e} = {}
      BY EntryNumbers DEF Init
    <3> QED BY <3>1, FS_EmptySet DEF Init
  <2> QED BY <2>1 DEF ReferencesAreCounted
<1>5. HoldersAreInside
  BY DEF Init, HoldersAreInside
<1> QED BY <1>1, <1>2, <1>3, <1>4, <1>5 DEF LockInv

\* The steps of the worker, whose lock it keeps.
LEMMA WorkerSteps ==
  ASSUME LockInv, NEW r \in Requests,
         \/ StartWorker(r) \/ BeginTurn(r) \/ Answer(r) \/ CallTools(r) \/ AskFails(r)
         \/ CloseTurn(r) \/ SaveBegin(r) \/ SaveWrite(r) \/ SaveReplace(r) \/ SaveFails(r)
  PROVE  LockInv'
<1>1. /\ pc[r] \in Inside \ {"open"}
      /\ UNCHANGED <<used, lockVars, want, sid, entry>>
  BY DEF StartWorker, BeginTurn, Answer, CallTools, AskFails, CloseTurn, SaveBegin,
         SaveWrite, SaveReplace, SaveFails, Inside, diskVars
<1>2. \E label \in Inside \ {"open"} : GoTo(r, label)
  <2>1. CASE CallTools(r)
    <3>1. PICK n \in 1..2 : \E answered \in AnsweredCalls(r, step[r], n) :
            GoTo(r, IF answered # CallIds(r, step[r], n) THEN "save"
                    ELSE IF step[r] + 1 < MaxSteps THEN "ask" ELSE "closing")
      BY <2>1 DEF CallTools
    <3> QED BY <3>1 DEF Inside
  <2>2. CASE \/ StartWorker(r) \/ BeginTurn(r) \/ Answer(r) \/ AskFails(r) \/ CloseTurn(r)
             \/ SaveBegin(r) \/ SaveWrite(r) \/ SaveReplace(r) \/ SaveFails(r)
    BY <2>2 DEF StartWorker, BeginTurn, Answer, AskFails, CloseTurn, SaveBegin,
                SaveWrite, SaveReplace, SaveFails, Inside
  <2> QED BY <2>1, <2>2
<1>3. PICK label \in Inside \ {"open"} : pc' = [pc EXCEPT ![r] = label]
  BY <1>2 DEF GoTo
<1>4. /\ sid[r] \in SessionIds \cup {NoId} /\ sid' = [sid EXCEPT ![r] = sid[r]]
      /\ used' \subseteq SessionIds /\ label \in Labels
  BY <1>1, <1>3 DEF LockInv, LockTypes, Inside, Labels
<1> QED BY <1>1, <1>3, <1>4, Working

LEMMA LockStep == LockInv /\ [Next]_vars => LockInv'
<1> SUFFICES ASSUME LockInv, [Next]_vars
             PROVE  LockInv'
  OBVIOUS
<1>0. /\ LockTypes /\ Sessions /\ EntriesAreRegistered
      /\ "open" \in Labels /\ "yielded" \in Labels /\ "lockown" \in Labels
      /\ Inside \subseteq Labels /\ "yielded" \in Inside
  BY DEF LockInv, Labels, Inside
<1>1. CASE \E r \in Requests : Submit(r)
  <2>1. PICK r \in Requests : Submit(r)
    BY <1>1
  <2>2. /\ pc[r] = "new" /\ sid[r] = NoId /\ want[r] = NoId /\ entry[r] = 0
        /\ UNCHANGED <<used, sid>>
    BY <1>0, <2>1 DEF Submit, Sessions, EntriesAreRegistered, Refers, Inside, diskVars
  <2>3. PICK s \in used \cup {NoId} :
          /\ want' = [want EXCEPT ![r] = s]
          /\ IF s = NoId
             THEN GoTo(r, "open") /\ UNCHANGED <<lockVars, entry>>
             ELSE GoTo(r, "acquire") /\ TakeRef(r, s)
    BY <2>1 DEF Submit
  <2>4. CASE s = NoId
    <3>1. want' = want /\ sid' = [sid EXCEPT ![r] = sid[r]]
      BY <1>0, <2>2, <2>3, <2>4 DEF LockTypes
    <3>2. /\ pc' = [pc EXCEPT ![r] = "open"] /\ UNCHANGED <<lockVars, entry>>
          /\ used' \subseteq SessionIds
      BY <1>0, <2>2, <2>3, <2>4 DEF GoTo, LockTypes
    <3> QED BY <1>0, <2>2, <3>1, <3>2, Working
  <2>5. CASE s # NoId
    <3>1. s \in SessionIds
      BY <1>0, <2>3, <2>5 DEF LockTypes
    <3>2. pc' = [pc EXCEPT ![r] = "acquire"] /\ TakeRef(r, s)
      BY <2>3, <2>5 DEF GoTo
    <3> QED BY <2>2, <2>3, <3>1, <3>2, Referring
  <2> QED BY <2>4, <2>5
<1>2. CASE \E r \in Requests : Acquire(r)
  BY <1>2, Acquiring
<1>3. CASE \E r \in Requests : AcquireTimeout(r)
  <2>1. PICK r \in Requests : AcquireTimeout(r)
    BY <1>3
  <2> QED BY <2>1, Leaving DEF AcquireTimeout, GiveUp, GoTo, diskVars
<1>4. CASE \E r \in Requests : OpenSession(r)
  <2>1. PICK r \in Requests : OpenSession(r)
    BY <1>4
  <2>2. /\ pc[r] = "open" /\ want[r] # NoId /\ want[r] \in SessionIds \cup {NoId}
        /\ sid' = [sid EXCEPT ![r] = want[r]] /\ pc' = [pc EXCEPT ![r] = "yielded"]
        /\ used' \subseteq SessionIds /\ UNCHANGED <<lockVars, want, entry>>
    BY <1>0, <2>1 DEF OpenSession, GoTo, diskVars, LockTypes
  <2> QED BY <1>0, <2>2, Working
<1>5. CASE \E r \in Requests : CreateSession(r)
  <2>1. PICK r \in Requests : CreateSession(r)
    BY <1>5
  <2>2. PICK s \in SessionIds \ used :
          sid' = [sid EXCEPT ![r] = s] /\ used' = used \cup {s}
    BY <2>1 DEF CreateSession
  <2>3. /\ pc[r] = "open" /\ s # NoId /\ used' \subseteq SessionIds
        /\ pc' = [pc EXCEPT ![r] = IF want[r] = NoId THEN "lockown" ELSE "yielded"]
        /\ UNCHANGED <<lockVars, want, entry>>
    BY <1>0, <2>1, <2>2 DEF CreateSession, GoTo, LockTypes
  <2>4. CASE want[r] = NoId
    <3>1. pc' = [pc EXCEPT ![r] = "lockown"]
      BY <2>3, <2>4
    <3> QED BY <1>0, <2>2, <2>3, <2>4, <3>1, Working
  <2>5. CASE want[r] # NoId
    <3>1. pc' = [pc EXCEPT ![r] = "yielded"]
      BY <2>3, <2>5
    <3> QED BY <1>0, <2>2, <2>3, <2>5, <3>1, Working
  <2> QED BY <2>4, <2>5
<1>6. CASE \E r \in Requests : LockOwn(r)
  <2>1. PICK r \in Requests : LockOwn(r)
    BY <1>6
  <2>2. /\ pc[r] = "lockown" /\ sid[r] \in SessionIds /\ entry[r] = 0
    BY <1>0, <2>1 DEF LockOwn, Sessions, LockTypes, EntriesAreRegistered, Refers, Inside
  <2>3. /\ TakeRef(r, sid[r]) /\ pc' = [pc EXCEPT ![r] = "acquireown"]
        /\ UNCHANGED <<used, want, sid>>
    BY <2>1 DEF LockOwn, GoTo, diskVars
  <2> QED BY <2>2, <2>3, Referring
<1>7. CASE \E r \in Requests : CloseEarly(r) \/ Release(r)
  <2>1. PICK r \in Requests : CloseEarly(r) \/ Release(r)
    BY <1>7
  <2> QED BY <2>1, Leaving DEF CloseEarly, Release, ReleaseLock, GoTo, diskVars, Inside
<1>8. CASE \E r \in Requests :
             \/ StartWorker(r) \/ BeginTurn(r) \/ Answer(r) \/ CallTools(r) \/ AskFails(r)
             \/ CloseTurn(r) \/ SaveBegin(r) \/ SaveWrite(r) \/ SaveReplace(r) \/ SaveFails(r)
  BY <1>8, WorkerSteps
<1>9. CASE (\E s \in SessionIds : DeleteSession(s)) \/ UNCHANGED vars
  <2>1. UNCHANGED <<used, lockVars, pc, want, sid, entry>>
    BY <1>9 DEF DeleteSession, vars, diskVars
  <2> QED BY <2>1 DEF LockInv, LockTypes, Sessions, EntriesAreRegistered, Refers, SessionOf,
                      ReferencesAreCounted, HoldersAreInside, lockVars
<1>10. CASE Restart
  BY <1>10, Restarting
<1> QED BY <1>1, <1>2, <1>3, <1>4, <1>5, <1>6, <1>7, <1>8, <1>9, <1>10 DEF Next

LEMMA LockInvariant == Spec => []LockInv
  BY LockInit, LockStep, PTL DEF Spec

\* Who refers to the same session and is inside holds the same lock.
LEMMA InsideHolds ==
  ASSUME LockInv, NEW r \in Requests, pc[r] \in Inside, SessionOf(r) # NoId
  PROVE  /\ entry[r] # 0 /\ registry[SessionOf(r)] = entry[r]
         /\ holder[entry[r]] = r
<1>1. Refers(r)
  BY DEF LockInv, Sessions, SessionOf, Refers
<1> QED BY <1>1 DEF LockInv, EntriesAreRegistered, HoldersAreInside

\* Two requests are never at work on one session, for any number of requests, of
\* sessions and of locks in the registry, also when sessions are deleted under
\* them and the data service restarts (facade.py:44-58, 222-250, 285-325).
THEOREM OneTurnAtATime == Spec => []TurnsAreSerialised
<1>1. LockInv => TurnsAreSerialised
  BY InsideHolds DEF TurnsAreSerialised
<1> QED BY <1>1, LockInvariant, PTL

\* No lock and no reference is left behind by a timeout, an early close, a failed
\* save or a worker that outlives its client: the references are counted, every
\* holder is inside, and a lock that is referred to is in the registry
\* (facade.py:266-283, 334-371).
THEOREM EveryLockComesBack == Spec => []LocksAreReturned
<1>1. LockInv => LocksAreReturned
  <2> SUFFICES ASSUME LockInv, NEW e \in Entries
               PROVE  /\ refs[e] = Cardinality({r \in Requests : entry[r] = e})
                      /\ holder[e] # NoId => entry[holder[e]] = e /\ pc[holder[e]] \in Inside
                      /\ refs[e] > 0 => \E s \in SessionIds : registry[s] = e
                      /\ \A r \in Requests :
                            entry[r] = e /\ pc[r] \in Inside => holder[e] = r
    BY DEF LocksAreReturned
  <2>1. refs[e] = Cardinality({r \in Requests : entry[r] = e}) /\ e # 0
    BY EntryNumbers DEF LockInv, ReferencesAreCounted
  <2>2. ASSUME refs[e] > 0
        PROVE  \E s \in SessionIds : registry[s] = e
    <3>1. {r \in Requests : entry[r] = e} # {}
      BY <2>1, <2>2, FS_EmptySet
    <3>2. PICK r \in Requests : entry[r] = e
      BY <3>1
    <3> QED BY <2>1, <3>2 DEF LockInv, EntriesAreRegistered
  <2>3. /\ holder[e] # NoId => entry[holder[e]] = e /\ pc[holder[e]] \in Inside
        /\ \A r \in Requests : entry[r] = e /\ pc[r] \in Inside => holder[e] = r
    BY <2>1 DEF LockInv, HoldersAreInside
  <2> QED BY <2>1, <2>2, <2>3
<1> QED BY <1>1, LockInvariant, PTL

HIDE ChatSessionAssumption

-------------------------------------------------------------------------------
(* Part 2: the memory.  Sequences are put together by recursive functions;     *)
(* that these exist, and what they keep, is shown by induction over the        *)
(* natural numbers, as a fact about sets.                                      *)

LEMMA NaturalInduction ==
  ASSUME NEW T, 0 \in T, \A n \in Nat : n \in T => n + 1 \in T
  PROVE  Nat \subseteq T
<1> DEFINE B == {1..n : n \in Nat \ T}
<1> SUFFICES ASSUME B # {} PROVE FALSE
  OBVIOUS
<1>1. IsWellFoundedOn(StrictSubsetOrdering(Nat), FiniteSubsetsOf(Nat))
  BY FS_StrictSubsetOrderingWellFounded
<1>2. B \subseteq FiniteSubsetsOf(Nat)
  <2>1. \A n \in Nat : IsFiniteSet(1..n) /\ 1..n \subseteq Nat
    BY FS_Interval
  <2> QED BY <2>1 DEF FiniteSubsetsOf
<1> HIDE DEF B
<1>3. PICK s \in B : \A t \in B : <<t, s>> \notin StrictSubsetOrdering(Nat)
  BY <1>1, <1>2, WFMin
<1> USE DEF B
<1>4. PICK n \in Nat \ T : s = 1..n
  BY <1>3
<1>5. n # 0 /\ n - 1 \in Nat /\ n - 1 \notin T
  BY <1>4
<1>6. 1..(n - 1) \in B
  BY <1>5
<1>7. 1..(n - 1) \subseteq 1..n /\ n \in 1..n /\ n \notin 1..(n - 1)
  BY <1>5
<1>8. <<1..(n - 1), 1..n>> \in StrictSubsetOrdering(Nat)
  BY <1>7 DEF StrictSubsetOrdering
<1> QED BY <1>3, <1>4, <1>6, <1>8

\* A set of natural numbers has a least one.
LEMMA LeastOf ==
  ASSUME NEW S \in SUBSET Nat, S # {}
  PROVE  Min(S) \in S /\ \A n \in S : Min(S) <= n
<1> DEFINE T == {n \in Nat : \A m \in 0..n : m \notin S}
<1>1. ASSUME \A m \in S : \E n \in S : n < m PROVE FALSE
  <2>1. 0 \in T
    BY <1>1
  <2>2. ASSUME NEW n \in Nat, n \in T PROVE n + 1 \in T
    <3>1. n + 1 \notin S
      BY <1>1, <2>2
    <3> QED BY <2>2, <3>1
  <2>3. Nat \subseteq T
    <3> HIDE DEF T
    <3> QED BY <2>1, <2>2, NaturalInduction
  <2>4. \A n \in Nat : n \notin S
    BY <2>3
  <2> QED BY <2>4
<1>2. \E m \in S : \A n \in S : m <= n
  BY <1>1
<1> QED BY <1>2 DEF Min

-------------------------------------------------------------------------------
(* Sequences one after the other.                                            *)

\* f puts together the first m sequences.
Joins(f, seqs, m) ==
    f = [i \in 1..m |-> IF i = 1 THEN seqs[i] ELSE f[i-1] \o seqs[i]]

LEMMA JoinsExist ==
  ASSUME NEW seqs, NEW n \in Nat
  PROVE  \E f : Joins(f, seqs, n)
<1> DEFINE T == {m \in Nat : \E f : Joins(f, seqs, m)}
<1>1. 0 \in T
  <2>1. Joins([i \in 1..0 |-> 0], seqs, 0)
    BY DEF Joins
  <2> QED BY <2>1
<1>2. ASSUME NEW m \in Nat, m \in T PROVE m + 1 \in T
  <2>1. PICK f : Joins(f, seqs, m)
    BY <1>2
  <2> DEFINE last == IF m = 0 THEN seqs[1] ELSE f[m] \o seqs[m + 1]
             g == [i \in 1..(m + 1) |-> IF i = m + 1 THEN last ELSE f[i]]
  <2>2. \A i \in 1..m : f[i] = IF i = 1 THEN seqs[i] ELSE f[i-1] \o seqs[i]
    BY <2>1, Zenon DEF Joins
  <2>3. ASSUME NEW i \in 1..(m + 1)
        PROVE  g[i] = IF i = 1 THEN seqs[i] ELSE g[i-1] \o seqs[i]
    <3>1. CASE i = m + 1 /\ i = 1
      BY <3>1
    <3>2. CASE i = m + 1 /\ i # 1
      <4>0. i - 1 = m /\ m # 0 /\ m \in 1..(m + 1) /\ m # m + 1
        BY <3>2
      <4>1. g[i - 1] = f[m] /\ g[i] = f[m] \o seqs[i]
        BY <3>2, <4>0
      <4> QED BY <3>2, <4>1
    <3>3. CASE i # m + 1
      <4>1. i \in 1..m /\ g[i] = f[i] /\ (i # 1 => g[i - 1] = f[i - 1])
        BY <3>3
      <4> QED BY <4>1, <2>2
    <3> QED BY <3>1, <3>2, <3>3
  <2>4. g = [i \in 1..(m + 1) |-> g[i]]
    OBVIOUS
  <2> HIDE DEF g
  <2>5. g = [i \in 1..(m + 1) |-> IF i = 1 THEN seqs[i] ELSE g[i-1] \o seqs[i]]
    BY <2>3, <2>4
  <2>6. Joins(g, seqs, m + 1)
    BY <2>5 DEF Joins
  <2> QED BY <2>6
<1> HIDE DEF T
<1>3. n \in T
  BY <1>1, <1>2, NaturalInduction
<1> QED BY <1>3 DEF T

\* What any of the sequences holds is kept.
LEMMA JoinsKeep ==
  ASSUME NEW A, NEW n \in Nat, NEW seqs \in [1..n -> Seq(A)], NEW f, Joins(f, seqs, n),
         NEW m \in 1..n
  PROVE  f[m] \in Seq(A) /\ \A i \in 1..m : Range(seqs[i]) \subseteq Range(f[m])
<1> DEFINE Keeps(j) == f[j] \in Seq(A) /\ \A i \in 1..j : Range(seqs[i]) \subseteq Range(f[j])
           T == {j \in Nat : j + 1 <= n => Keeps(j + 1)}
<1>0. \A i \in 1..n : f[i] = IF i = 1 THEN seqs[i] ELSE f[i-1] \o seqs[i]
  BY Zenon DEF Joins
<1>1. 0 \in T
  <2>1. f[1] = seqs[1] /\ seqs[1] \in Seq(A)
    BY <1>0
  <2>2. \A i \in 1..1 : i = 1
    OBVIOUS
  <2>3. Keeps(1)
    BY <2>1, <2>2
  <2> HIDE DEF Keeps
  <2> QED BY <2>3
<1>2. ASSUME NEW j \in Nat, j \in T PROVE j + 1 \in T
  <2> SUFFICES ASSUME j + 2 <= n PROVE Keeps(j + 2)
    <3> HIDE DEF Keeps
    <3> QED OBVIOUS
  <2>1. Keeps(j + 1)
    <3> HIDE DEF Keeps
    <3> QED BY <1>2
  <2>2. j + 2 \in 1..n /\ j + 2 # 1 /\ (j + 2) - 1 = j + 1
    OBVIOUS
  <2>3. f[j + 2] = f[j + 1] \o seqs[j + 2]
    BY <2>2, <1>0
  <2>4. f[j + 1] \in Seq(A) /\ seqs[j + 2] \in Seq(A)
    BY <2>1, <2>2
  <2>5. f[j + 2] \in Seq(A) /\ Range(f[j + 2]) = Range(f[j + 1]) \cup Range(seqs[j + 2])
    BY <2>3, <2>4, ConcatProperties, RangeConcatenation
  <2>6. ASSUME NEW i \in 1..(j + 2) PROVE Range(seqs[i]) \subseteq Range(f[j + 2])
    <3>1. i \in 1..(j + 1) \/ i = j + 2
      OBVIOUS
    <3> QED BY <3>1, <2>1, <2>5
  <2> QED BY <2>5, <2>6
<1>3. m - 1 \in T
  <2> HIDE DEF T
  <2>1. Nat \subseteq T
    BY <1>1, <1>2, NaturalInduction
  <2> QED BY <2>1
<1> HIDE DEF Keeps
<1>4. Keeps(m)
  BY <1>3
<1> QED BY <1>4 DEF Keeps

LEMMA FlattenKeeps ==
  ASSUME NEW A, NEW n \in Nat, NEW seqs \in [1..n -> Seq(A)]
  PROVE  /\ FlattenSeq(seqs) \in Seq(A)
         /\ \A i \in 1..n : Range(seqs[i]) \subseteq Range(FlattenSeq(seqs))
<1> DEFINE h == CHOOSE f : Joins(f, seqs, n)
<1>0. Len(seqs) = n
  OBVIOUS
<1>1. CASE n = 0
  <2>1. seqs = <<>> /\ FlattenSeq(seqs) = seqs
    BY <1>0, <1>1 DEF FlattenSeq
  <2>2. FlattenSeq(seqs) \in Seq(A)
    BY <2>1, EmptySeq
  <2>3. \A i \in 1..n : FALSE
    BY <1>1
  <2> QED BY <2>2, <2>3
<1>2. CASE n # 0
  <2>1. FlattenSeq(seqs) = h[n]
    BY <1>0, <1>2, Zenon DEF FlattenSeq, Joins
  <2>2. Joins(h, seqs, n)
    BY JoinsExist, Zenon
  <2> HIDE DEF h
  <2>3. n \in 1..n
    BY <1>2
  <2>4. h[n] \in Seq(A) /\ \A i \in 1..n : Range(seqs[i]) \subseteq Range(h[n])
    BY <2>2, <2>3, JoinsKeep
  <2> QED BY <2>1, <2>4
<1> QED BY <1>1, <1>2

-------------------------------------------------------------------------------
(* What a turn does to the memory of a session.                              *)

\* Whoever knows a still knows all of it in b, or knows that something was lost.
Keeps(a, b) == Known(a) \subseteq Known(b) \/ Lost \in Known(b)

LEMMA KnownIs ==
  ASSUME NEW s \in Session
  PROVE  Known(s) = {m.turn : m \in Range(s.messages)} \cup Range(s.archive) \cup s.summary
<1>1. s.messages \in Seq(Message)
  BY DEF Session
<1>2. Range(s.messages) = {s.messages[k] : k \in 1..Len(s.messages)}
  BY <1>1, RangeEquality
<1> QED BY <1>2 DEF Known

LEMMA KeepsIsTransitive ==
  ASSUME NEW a, NEW b, NEW c, Keeps(a, b), Keeps(b, c)
  PROVE  Keeps(a, c)
BY DEF Keeps

LEMMA CallIdsType ==
  ASSUME NEW turn \in Requests, NEW k \in Nat, NEW n \in Nat
  PROVE  /\ CallIds(turn, k, n) \subseteq CallId
         /\ IsFiniteSet(CallIds(turn, k, n))
<1> DEFINE id == [i \in 1..n |-> IF GivesIds THEN <<turn, k, i>> ELSE i]
<1>1. CallIds(turn, k, n) = {id[i] : i \in 1..n}
  BY DEF CallIds
<1>2. \A i \in 1..n : id[i] \in CallId
  BY DEF CallId
<1>3. id \in [1..n -> CallId] /\ IsFiniteSet(1..n)
  BY <1>2, FS_Interval
<1> HIDE DEF id
<1>4. IsFiniteSet({id[i] : i \in 1..n})
  BY <1>3, FewValues
<1> QED BY <1>1, <1>2, <1>4

LEMMA ResultsType ==
  ASSUME NEW turn \in Requests, NEW ids \in SUBSET CallId, IsFiniteSet(ids)
  PROVE  Results(turn, ids) \in Seq(Message)
<1> DEFINE n == Cardinality(ids)
<1>1. n \in Nat /\ \E f \in [1..n -> ids] : IsInjective(f)
  <2>1. PICK k \in Nat : ExistsBijection(1..k, ids)
    BY FS_NatBijection
  <2>2. k = n
    BY <2>1, FS_CountingElements
  <2> QED BY <2>1, <2>2 DEF ExistsBijection, Bijection, Injection
<1>2. SetToSeq(ids) \in [1..n -> ids]
  BY <1>1 DEF SetToSeq
<1>3. ASSUME NEW i \in 1..n PROVE ToolResult(turn, SetToSeq(ids)[i]) \in Message
  <2>1. SetToSeq(ids)[i] \in CallId
    BY <1>2
  <2>2. IsFiniteSet({SetToSeq(ids)[i]})
    BY FS_Singleton
  <2> QED BY <2>1, <2>2 DEF ToolResult, Message
<1> HIDE DEF n
<1>4. [i \in 1..n |-> ToolResult(turn, SetToSeq(ids)[i])] \in Seq(Message)
  BY <1>1, <1>3
<1> QED BY <1>4 DEF Results, n

LEMMA RepairKeeps ==
  ASSUME NEW ms \in Seq(Message)
  PROVE  Repair(ms) \in Seq(Message) /\ Range(ms) \subseteq Range(Repair(ms))
<1> DEFINE n == Len(ms)
           Answered(i) == Ids(ms, 1..ResultsEnd(ms, i), "tool")
                          \cup Ids(ms, 1..(i-1), "assistant")
           Asker(j) == {i \in 1..j : Asks(ms[i]) /\ ResultsEnd(ms, i) = j}
           Synthetic(i) == Results(ms[i].turn, ms[i].calls \ Answered(i))
           Part(j) == IF Asker(j) = {} THEN <<>> ELSE Synthetic(CHOOSE i \in Asker(j) : TRUE)
           parts == [j \in 1..n |-> <<ms[j]>> \o Part(j)]
<1>1. Repair(ms) = FlattenSeq(parts)
  BY DEF Repair
<1>2. n \in Nat /\ \A j \in 1..n : ms[j] \in Message
  BY LenProperties
<1>3. ASSUME NEW i \in 1..n PROVE Synthetic(i) \in Seq(Message)
  <2>1. ms[i].turn \in Requests /\ ms[i].calls \in SUBSET CallId /\ IsFiniteSet(ms[i].calls)
    BY <1>2 DEF Message
  <2>2. ms[i].calls \ Answered(i) \in SUBSET CallId /\ IsFiniteSet(ms[i].calls \ Answered(i))
    BY <2>1, FS_Subset
  <2> QED BY <2>1, <2>2, ResultsType
<1>4. ASSUME NEW j \in 1..n PROVE Part(j) \in Seq(Message)
  <2>1. CASE Asker(j) = {}
    BY <2>1, EmptySeq
  <2>2. CASE Asker(j) # {}
    <3>1. (CHOOSE i \in Asker(j) : TRUE) \in 1..n
      BY <2>2, <1>2
    <3> QED BY <2>2, <3>1, <1>3
  <2> QED BY <2>1, <2>2
<1> HIDE DEF Part
<1>5. ASSUME NEW j \in 1..n
      PROVE  parts[j] \in Seq(Message) /\ ms[j] \in Range(parts[j])
  <2>1. <<ms[j]>> \in Seq(Message) /\ Range(<<ms[j]>>) = {ms[j]}
    BY <1>2 DEF Range
  <2>2. parts[j] = <<ms[j]>> \o Part(j)
    OBVIOUS
  <2>3. <<ms[j]>> \o Part(j) \in Seq(Message)
    BY <2>1, <1>4, ConcatProperties
  <2>4. ms[j] \in Range(<<ms[j]>> \o Part(j))
    <3> DEFINE one == <<ms[j]>>
    <3>1. one \in Seq(Message) /\ ms[j] \in Range(one)
      BY <2>1
    <3> HIDE DEF one
    <3>2. Range(one \o Part(j)) = Range(one) \cup Range(Part(j))
      BY <3>1, <1>4, RangeConcatenation
    <3> QED BY <3>1, <3>2 DEF one
  <2> QED BY <2>1, <2>2, <2>3, <2>4
<1>6. parts \in [1..n -> Seq(Message)]
  BY <1>5
<1> HIDE DEF parts
<1>7. /\ FlattenSeq(parts) \in Seq(Message)
      /\ \A j \in 1..n : Range(parts[j]) \subseteq Range(FlattenSeq(parts))
  BY <1>2, <1>6, FlattenKeeps
<1>8. Range(ms) = {ms[j] : j \in 1..n}
  BY RangeEquality
<1> QED BY <1>1, <1>5, <1>7, <1>8

LEMMA SayKeeps ==
  ASSUME NEW s \in Session, NEW ms \in Seq(Message)
  PROVE  Say(s, ms) \in Session /\ Keeps(s, Say(s, ms))
<1>0. s.messages \in Seq(Message) /\ Say(s, ms).messages = s.messages \o ms
      /\ Say(s, ms).archive = s.archive /\ Say(s, ms).summary = s.summary
  BY DEF Say, Session
<1>1. s.messages \o ms \in Seq(Message)
  BY <1>0, ConcatProperties
<1>2. Range(s.messages \o ms) = Range(s.messages) \cup Range(ms)
  BY <1>0, RangeConcatenation
<1>3. Say(s, ms) \in Session
  BY <1>1 DEF Say, Session
<1>4. Known(s) \subseteq Known(Say(s, ms))
  BY <1>0, <1>2, <1>3, KnownIs
<1> QED BY <1>3, <1>4 DEF Keeps

\* The latest of a sequence, and what was before them.
LEMMA Suffix ==
  ASSUME NEW A, NEW t \in Seq(A), NEW k \in 0..Len(t)
  PROVE  /\ SubSeq(t, k + 1, Len(t)) \in Seq(A)
         /\ Len(SubSeq(t, k + 1, Len(t))) = Len(t) - k
         /\ Range(t) = {t[i] : i \in 1..k} \cup Range(SubSeq(t, k + 1, Len(t)))
<1> DEFINE n == Len(t)
           u == SubSeq(t, k + 1, n)
<1>1. n \in Nat /\ k \in Nat /\ k <= n /\ \A i \in 1..n : t[i] \in A
  BY LenProperties
<1>2. \A i \in (k + 1)..n : t[i] \in A
  BY <1>1
<1> HIDE DEF n
<1>3. /\ u \in Seq(A) /\ Len(u) = IF k + 1 <= n THEN n - (k + 1) + 1 ELSE 0
      /\ \A i \in 1 .. n - (k + 1) + 1 : u[i] = t[(k + 1) + i - 1]
  BY <1>1, <1>2, SubSeqProperties
<1>4. Len(u) = n - k /\ \A i \in 1..(n - k) : u[i] = t[k + i]
  BY <1>1, <1>3
<1> HIDE DEF u
<1>5. Range(u) = {u[i] : i \in 1..(n - k)} /\ Range(t) = {t[i] : i \in 1..n}
  BY <1>3, <1>4, RangeEquality DEF n
<1>6. ASSUME NEW i \in 1..n PROVE i \in 1..k \/ \E j \in 1..(n - k) : t[i] = u[j]
  <2>1. CASE i > k
    <3>1. i - k \in 1..(n - k) /\ k + (i - k) = i
      BY <2>1, <1>1
    <3> QED BY <3>1, <1>4
  <2> QED BY <2>1, <1>1
<1>7. ASSUME NEW j \in 1..(n - k) PROVE \E i \in 1..n : t[i] = u[j]
  <2>1. k + j \in 1..n
    BY <1>1
  <2> QED BY <2>1, <1>4
<1>8. 1..k \subseteq 1..n
  BY <1>1
<1>9. Range(t) = {t[i] : i \in 1..k} \cup Range(u)
  BY <1>5, <1>6, <1>7, <1>8
<1> QED BY <1>3, <1>4, <1>9 DEF u, n

LEMMA CutIs ==
  ASSUME NEW ms \in Seq(Message), NEW o \in Overflows(ms)
  PROVE  CutAt(ms, o) \in 0..Len(ms)
<1> DEFINE users == {b \in o..(Len(ms) - 1) : ms[b+1].role = "user"}
<1>1. Len(ms) \in Nat /\ Window \in Nat
  BY LenProperties, AgentTurnAssumption
<1>2. o \in Nat
  BY <1>1 DEF Overflows
<1>3. users \subseteq Nat
  BY <1>1, <1>2
<1>4. users # {} => Min(users) \in o..(Len(ms) - 1)
  <2> HIDE DEF users
  <2>1. users # {} => Min(users) \in users
    BY <1>3, LeastOf
  <2> QED BY <2>1 DEF users
<1>5. CutAt(ms, o) = LET cut == IF users = {} THEN o ELSE Min(users)
                     IN  IF o = 0 \/ cut >= Len(ms) THEN 0 ELSE cut
  BY DEF CutAt
<1> HIDE DEF users
<1> QED BY <1>1, <1>2, <1>4, <1>5

LEMMA ArchiveKeeps ==
  ASSUME NEW s \in Session, NEW o \in Overflows(s.messages)
  PROVE  Archive(s, o) \in Session /\ Keeps(s, Archive(s, o))
<1> DEFINE ms == s.messages
           cut == CutAt(ms, o)
           old == [k \in 1..cut |-> ms[k].turn]
           entries == s.archive \o old
           kept == IF Len(entries) <= ArchiveMax THEN entries
                   ELSE <<Lost>> \o SubSeq(entries, Len(entries) - ArchiveMax + 2, Len(entries))
           rest == SubSeq(ms, cut + 1, Len(ms))
           a == Archive(s, o)
<1>1. /\ ms \in Seq(Message) /\ s.archive \in Seq(Turns) /\ s.summary \subseteq Turns
      /\ cut \in 0..Len(ms) /\ Len(ms) \in Nat
  BY CutIs, LenProperties DEF Session
<1>2. a = [s EXCEPT !.messages = rest, !.archive = kept]
  BY Zenon DEF Archive
<1>3. a.messages = rest /\ a.archive = kept /\ a.summary = s.summary
  BY <1>2 DEF Session
<1> HIDE DEF cut
<1>4. rest \in Seq(Message) /\ Range(ms) = {ms[k] : k \in 1..cut} \cup Range(rest)
  BY <1>1, Suffix
<1>5. old \in Seq(Turns) /\ Range(old) = {ms[k].turn : k \in 1..cut}
  <2>1. \A k \in 1..cut : ms[k].turn \in Turns
    <3>1. \A k \in 1..cut : k \in 1..Len(ms)
      BY <1>1
    <3>2. \A k \in 1..Len(ms) : ms[k] \in Message
      BY <1>1, LenProperties
    <3> QED BY <3>1, <3>2 DEF Message, Turns
  <2>2. old \in Seq(Turns)
    BY <2>1, <1>1
  <2> QED BY <2>2 DEF Range
<1> HIDE DEF old
<1>6. entries \in Seq(Turns) /\ Range(entries) = Range(s.archive) \cup Range(old)
  BY <1>1, <1>5, ConcatProperties, RangeConcatenation
<1> HIDE DEF entries
<1>7. kept \in Seq(Turns) /\ (Range(kept) = Range(entries) \/ Lost \in Range(kept))
  <2>1. CASE Len(entries) <= ArchiveMax
    BY <2>1, <1>6
  <2>2. CASE ~(Len(entries) <= ArchiveMax)
    <3> DEFINE k == Len(entries) - ArchiveMax + 1
               u == SubSeq(entries, k + 1, Len(entries))
    <3>1. k \in 0..Len(entries) /\ k + 1 = Len(entries) - ArchiveMax + 2
      BY <2>2, <1>6, LenProperties, AgentTurnAssumption
    <3>2. u \in Seq(Turns)
      BY <3>1, <1>6, Suffix
    <3> DEFINE one == <<Lost>>
    <3>3. one \in Seq(Turns) /\ Lost \in Range(one)
      BY DEF Turns, Range
    <3>4. kept = one \o u
      BY <2>2, <3>1
    <3> HIDE DEF u, kept, one
    <3>5. one \o u \in Seq(Turns)
      BY <3>2, <3>3, ConcatProperties
    <3>6. Range(one \o u) = Range(one) \cup Range(u)
      BY <3>2, <3>3, RangeConcatenation
    <3> QED BY <3>3, <3>4, <3>5, <3>6
  <2> QED BY <2>1, <2>2
<1> HIDE DEF kept, rest
<1>8. a \in Session
  BY <1>2, <1>4, <1>7 DEF Session
<1>9. /\ Known(s) = {m.turn : m \in Range(ms)} \cup Range(s.archive) \cup s.summary
      /\ Known(a) = {m.turn : m \in Range(rest)} \cup Range(kept) \cup s.summary
  BY <1>3, <1>8, KnownIs
<1> QED BY <1>4, <1>5, <1>6, <1>7, <1>8, <1>9 DEF Keeps

LEMMA ConsolidationsKeep ==
  ASSUME NEW s \in Session, NEW c \in Consolidations(s)
  PROVE  c \in Session /\ Keeps(s, c)
<1>1. CASE c = s
  BY <1>1 DEF Keeps
<1>2. CASE c = [s EXCEPT !.archive = <<>>, !.summary = @ \cup Range(s.archive)]
  <2>1. /\ c.messages = s.messages /\ c.summary = s.summary \cup Range(s.archive)
        /\ c.archive = <<>>
    BY <1>2 DEF Session
  <2>2. <<>> \in Seq(Turns) /\ Range(s.archive) \subseteq Turns /\ s.summary \subseteq Turns
    BY EmptySeq, RangeOfSeq DEF Session
  <2>3. c \in Session
    BY <1>2, <2>2 DEF Session
  <2> QED BY <2>1, <2>3, KnownIs DEF Keeps
<1> QED BY <1>1, <1>2 DEF Consolidations

\* A turn begins with all that its session knows.
LEMMA BeginKeeps ==
  ASSUME NEW s \in Session, NEW turn \in Requests, NEW b \in Begin(s, turn)
  PROVE  b \in Session /\ Keeps(s, b)
<1> DEFINE mended == [s EXCEPT !.messages = Repair(@)]
           asked == Say(mended, <<User(turn)>>)
<1>1. /\ mended.messages = Repair(s.messages)
      /\ mended.archive = s.archive /\ mended.summary = s.summary
  BY DEF Session
<1>2. /\ Repair(s.messages) \in Seq(Message)
      /\ Range(s.messages) \subseteq Range(Repair(s.messages))
  BY RepairKeeps DEF Session
<1>3. mended \in Session
  BY <1>2 DEF Session
<1>4. Keeps(s, mended)
  BY <1>1, <1>2, <1>3, KnownIs DEF Keeps
<1>5. <<User(turn)>> \in Seq(Message)
  <2>1. IsFiniteSet({})
    BY FS_EmptySet
  <2>2. User(turn) \in Message
    BY <2>1 DEF User, Message
  <2> QED BY <2>2
<1>6. PICK o \in Overflows(asked.messages) : b \in Consolidations(Archive(asked, o))
  BY Zenon DEF Begin
<1> HIDE DEF mended
<1>7. asked \in Session /\ Keeps(mended, asked)
  BY <1>3, <1>5, SayKeeps
<1> HIDE DEF asked
<1>8. Archive(asked, o) \in Session /\ Keeps(asked, Archive(asked, o))
  BY <1>6, <1>7, ArchiveKeeps
<1>9. b \in Session /\ Keeps(Archive(asked, o), b)
  BY <1>6, <1>8, ConsolidationsKeep
<1> QED BY <1>4, <1>7, <1>8, <1>9, KeepsIsTransitive

\* The file keeps all of it unless it is full.
LEMMA PersistedKeeps ==
  ASSUME NEW s \in Session
  PROVE  /\ Persisted(s) \in Session
         /\ Persisted(s) = s \/ Len(Persisted(s).messages) = MaxPersisted
<1> DEFINE ms == s.messages
           k == Len(ms) - MaxPersisted
           last == SubSeq(ms, k + 1, Len(ms))
<1>1. ms \in Seq(Message) /\ Len(ms) \in Nat /\ MaxPersisted \in Nat
  BY LenProperties, AgentTurnAssumption DEF Session
<1>2. CASE Len(ms) <= MaxPersisted
  BY <1>2 DEF Persisted, Session
<1>3. CASE ~(Len(ms) <= MaxPersisted)
  <2>1. k \in 0..Len(ms)
    BY <1>1, <1>3
  <2>2. last \in Seq(Message) /\ Len(last) = Len(ms) - k
    BY <1>1, <2>1, Suffix
  <2>3. Persisted(s) = [s EXCEPT !.messages = last]
    BY <1>3 DEF Persisted
  <2> HIDE DEF last
  <2>4. Persisted(s).messages = last /\ Persisted(s) \in Session
    BY <2>2, <2>3 DEF Session
  <2> QED BY <1>1, <2>2, <2>4
<1> QED BY <1>2, <1>3

-------------------------------------------------------------------------------
(* The memory of the sessions: types, and who is at work on which.           *)

MemoryTypes ==
    /\ files \in [SessionIds -> Session \cup {Absent, Torn}]
    /\ tmp \in [SessionIds -> Session \cup {Absent, Torn}]
    /\ session \in [Requests -> Session]
    /\ step \in [Requests -> Nat]

Serving == Inside \ {"open", "release"}

IdsAreUsed ==
    /\ \A r \in Requests : {want[r], sid[r]} \subseteq used \cup {NoId}
    /\ \A s \in SessionIds \ used : files[s] = Absent
    /\ \A r \in Requests : pc[r] \in Serving => sid[r] # NoId
    /\ \A r \in Requests : pc[r] = "acquireown" => want[r] = NoId /\ sid[r] # NoId

\* A request that has found the session it asked for.
Serves(r, s) == pc[r] \in Serving /\ sid[r] = s /\ want[r] = s

\* Such a request knows all its file knows, unless the file will be full, and what
\* it puts in the place of the file is its own.
Holds(r, s) ==
    Serves(r, s) /\ ~Made(s) =>
        /\ files[s] \notin {Absent, Torn} =>
              \/ Keeps(files[s], session[r])
              \/ pc[r] \in {"write", "replace"} /\ Len(session[r].messages) = MaxPersisted
        /\ pc[r] = "replace" => tmp[s] = session[r]

MemoryInv ==
    /\ LockInv /\ MemoryTypes /\ IdsAreUsed
    /\ \A r \in Requests, s \in SessionIds : Holds(r, s)

RequestStep(r) ==
    \/ Submit(r) \/ Acquire(r) \/ AcquireTimeout(r) \/ OpenSession(r)
    \/ CreateSession(r) \/ LockOwn(r) \/ CloseEarly(r) \/ StartWorker(r)
    \/ BeginTurn(r) \/ Answer(r) \/ CallTools(r) \/ AskFails(r)
    \/ CloseTurn(r) \/ SaveBegin(r) \/ SaveWrite(r) \/ SaveReplace(r)
    \/ SaveFails(r) \/ Release(r)

\* Of the requests that are at work on a session nobody has made there is one.
LEMMA ServesAlone ==
  ASSUME LockInv, NEW s \in SessionIds, ~Made(s),
         NEW r \in Requests, Serves(r, s),
         NEW q \in Requests, pc[q] \in Serving, sid[q] = s
  PROVE  q = r
<1>1. want[q] = s
  BY DEF Made, Serving, Inside
<1>2. {pc[r], pc[q]} \subseteq Inside /\ SessionOf(r) = s /\ SessionOf(q) = s /\ s # NoId
  BY <1>1, ChatSessionAssumption DEF Serves, Serving, SessionOf
<1>3. \A e \in Requests : pc[e] \in Inside /\ SessionOf(e) = s => holder[registry[s]] = e
  BY <1>2, InsideHolds
<1> QED BY <1>2, <1>3

\* A step of one request leaves the others alone, and keeps its own session.
LEMMA StepMoves ==
  ASSUME MemoryInv, NEW q \in Requests, RequestStep(q)
  PROVE  /\ \A x \in Requests : x # q =>
               pc'[x] = pc[x] /\ want'[x] = want[x] /\ sid'[x] = sid[x] /\ session'[x] = session[x]
         /\ sid[q] # NoId => sid'[q] = sid[q] /\ want'[q] = want[q]
         /\ pc'[q] = "end" /\ sid[q] # NoId => pc[q] \in Inside
         /\ pc'[q] \in Serving /\ pc[q] \notin Serving => OpenSession(q) \/ sid'[q] # want'[q]
<1>0. /\ LockTypes /\ Sessions /\ MemoryTypes /\ IdsAreUsed /\ NoId \notin SessionIds
      /\ sid[q] \in SessionIds \cup {NoId} /\ want[q] \in SessionIds \cup {NoId}
  BY ChatSessionAssumption DEF MemoryInv, LockInv, LockTypes
<1>1. CASE Submit(q)
  <2>1. PICK label \in {"open", "acquire"}, s \in used \cup {NoId} :
          pc' = [pc EXCEPT ![q] = label] /\ want' = [want EXCEPT ![q] = s]
    BY <1>1 DEF Submit, GoTo
  <2>2. pc[q] = "new" /\ sid[q] = NoId /\ UNCHANGED <<sid, session>>
    BY <1>0, <1>1 DEF Submit, Sessions
  <2> QED BY <1>0, <2>1, <2>2 DEF LockTypes, Serving, Inside
<1>2. CASE Acquire(q) \/ AcquireTimeout(q) \/ LockOwn(q)
  BY <1>0, <1>2 DEF Acquire, AcquireTimeout, LockOwn, GoTo, LockTypes, Sessions, IdsAreUsed,
                    Serving, Inside
<1>3. CASE OpenSession(q)
  BY <1>0, <1>3 DEF OpenSession, GoTo, LockTypes, Sessions, MemoryTypes, Serving, Inside
<1>4. CASE CreateSession(q)
  <2>1. PICK s \in SessionIds \ used : sid' = [sid EXCEPT ![q] = s]
    BY <1>4 DEF CreateSession
  <2>2. s # want[q] /\ sid[q] = NoId
    BY <1>0, <1>4, <2>1 DEF IdsAreUsed, CreateSession, Sessions
  <2> QED BY <1>0, <1>4, <2>1, <2>2
      DEF CreateSession, GoTo, LockTypes, MemoryTypes, Serving, Inside
<1>5. CASE CloseEarly(q) \/ Release(q)
  BY <1>0, <1>5 DEF CloseEarly, Release, GoTo, LockTypes, MemoryTypes, Serving, Inside
<1>6. CASE StartWorker(q) \/ AskFails(q) \/ SaveWrite(q) \/ SaveReplace(q) \/ SaveFails(q)
  BY <1>0, <1>6 DEF StartWorker, AskFails, SaveWrite, SaveReplace, SaveFails,
                    GoTo, LockTypes, MemoryTypes, Serving, Inside
<1>7. CASE BeginTurn(q) \/ Answer(q) \/ CloseTurn(q) \/ SaveBegin(q)
  BY <1>0, <1>7 DEF BeginTurn, Answer, CloseTurn, SaveBegin,
                    GoTo, LockTypes, MemoryTypes, Serving, Inside
<1>8. CASE CallTools(q)
  <2>1. /\ \E label \in {"save", "ask", "closing"} : pc' = [pc EXCEPT ![q] = label]
        /\ \E s : session' = [session EXCEPT ![q] = s]
    BY <1>8 DEF CallTools, GoTo
  <2>2. pc[q] = "ask" /\ UNCHANGED <<want, sid>>
    BY <1>8 DEF CallTools
  <2> QED BY <1>0, <2>1, <2>2 DEF LockTypes, MemoryTypes, Serving, Inside
<1> QED BY <1>1, <1>2, <1>3, <1>4, <1>5, <1>6, <1>7, <1>8 DEF RequestStep

\* A session that a request will serve, and nobody has made, was neither before,
\* unless the request has just read it.
LEMMA ServedBefore ==
  ASSUME MemoryInv, NEW q \in Requests, RequestStep(q),
         NEW r \in Requests, NEW s \in SessionIds, Serves(r, s)', ~Made(s)'
  PROVE  \/ Serves(r, s) /\ ~Made(s)
         \/ q = r /\ OpenSession(r) /\ want[r] = s
<1>1. LockInv /\ IdsAreUsed /\ s # NoId
  BY ChatSessionAssumption DEF MemoryInv
<1>2. pc'[r] \in Serving /\ sid'[r] = s /\ want'[r] = s
  BY DEF Serves
<1>3. CASE r # q \/ pc[r] \in Serving
  <2>1. Serves(r, s)
    BY <1>1, <1>2, <1>3, StepMoves DEF Serves, IdsAreUsed
  <2>2. ASSUME Made(s) PROVE FALSE
    <3>1. PICK x \in Requests : sid[x] = s /\ s # want[x] /\ (want[x] = NoId => pc[x] # "end")
      BY <2>2 DEF Made
    <3>2. sid'[x] = s /\ want'[x] = want[x]
      BY <1>1, <3>1, StepMoves
    <3>3. want[x] = NoId /\ pc'[x] = "end"
      BY <3>1, <3>2 DEF Made
    <3>4. x = q /\ pc[x] \in Inside /\ x # r
      BY <1>1, <2>1, <3>1, <3>3, StepMoves DEF Serves
    <3>5. SessionOf(x) = s /\ SessionOf(r) = s /\ pc[r] \in Inside
      BY <1>1, <2>1, <3>1, <3>3 DEF SessionOf, Serves, Serving
    <3>6. holder[registry[s]] = x /\ holder[registry[s]] = r
      BY <1>1, <3>4, <3>5, InsideHolds
    <3> QED BY <3>4, <3>6
  <2> QED BY <2>1, <2>2
<1>4. CASE r = q /\ pc[r] \notin Serving
  <2>1. OpenSession(r)
    BY <1>2, <1>4, StepMoves
  <2>2. want' = want
    BY <2>1 DEF OpenSession
  <2> QED BY <1>2, <1>4, <2>1, <2>2
<1> QED BY <1>3, <1>4

\* Who moves files.
LEMMA FilesMove ==
  ASSUME MemoryInv, NEW q \in Requests, RequestStep(q), NEW s \in SessionIds
  PROVE  /\ \/ files'[s] = files[s] \/ s \notin used
            \/ SaveReplace(q) /\ sid[q] = s
         /\ \/ tmp'[s] = tmp[s]
            \/ pc[q] \in Serving /\ sid[q] = s
<1>0. MemoryTypes
  BY DEF MemoryInv
<1>1. CASE CreateSession(q)
  BY <1>0, <1>1 DEF CreateSession, MemoryTypes
<1>2. CASE SaveReplace(q) \/ SaveBegin(q) \/ SaveWrite(q)
  BY <1>0, <1>2 DEF SaveReplace, SaveBegin, SaveWrite, MemoryTypes, Serving, Inside
<1>3. CASE UNCHANGED <<files, tmp>>
  BY <1>3
<1>4. CASE \/ Submit(q) \/ Acquire(q) \/ AcquireTimeout(q) \/ OpenSession(q)
           \/ LockOwn(q) \/ CloseEarly(q) \/ StartWorker(q)
           \/ BeginTurn(q) \/ Answer(q) \/ CallTools(q) \/ AskFails(q)
           \/ CloseTurn(q) \/ SaveFails(q) \/ Release(q)
  BY <1>3, <1>4 DEF Submit, Acquire, AcquireTimeout, OpenSession, LockOwn, CloseEarly,
       StartWorker, BeginTurn, Answer, CallTools, AskFails, CloseTurn, SaveFails, Release,
       diskVars
<1> QED BY <1>1, <1>2, <1>4 DEF RequestStep

\* What a request knows of its session is not disturbed by the steps of others.
LEMMA OthersHold ==
  ASSUME MemoryInv, NEW q \in Requests, RequestStep(q),
         NEW r \in Requests, r # q, NEW s \in SessionIds
  PROVE  Holds(r, s)'
<1> SUFFICES ASSUME Serves(r, s)', ~Made(s)'
             PROVE  Holds(r, s)'
  BY DEF Holds
<1>1. Serves(r, s) /\ ~Made(s)
  BY ServedBefore
<1>2. s \in used
  BY <1>1, ChatSessionAssumption DEF MemoryInv, IdsAreUsed, Serves
<1>3. ~(pc[q] \in Serving /\ sid[q] = s)
  BY <1>1, ServesAlone DEF MemoryInv
<1>4. ~SaveReplace(q) \/ sid[q] # s
  BY <1>3 DEF SaveReplace, Serving, Inside
<1>5. files'[s] = files[s] /\ tmp'[s] = tmp[s]
  BY <1>2, <1>3, <1>4, FilesMove
<1>6. pc'[r] = pc[r] /\ session'[r] = session[r]
  BY StepMoves
<1>7. Holds(r, s)
  BY DEF MemoryInv
<1> QED BY <1>1, <1>5, <1>6, <1>7 DEF Holds, Keeps

\* The session of a request in each of its steps.
LEMMA TurnMoves ==
  ASSUME MemoryInv, NEW r \in Requests,
         BeginTurn(r) \/ Answer(r) \/ CallTools(r) \/ CloseTurn(r)
  PROVE  /\ pc[r] \in Serving \ {"write", "replace"}
         /\ UNCHANGED <<files, tmp, used, want, sid>>
         /\ pc' = [pc EXCEPT ![r] = pc'[r]] /\ pc'[r] \in Serving \ {"write", "replace"}
         /\ \E s \in Session : Keeps(session[r], s) /\ session' = [session EXCEPT ![r] = s]
<1>0. /\ session[r] \in Session /\ step[r] \in Nat /\ pc \in [Requests -> Labels]
  BY DEF MemoryInv, MemoryTypes, LockInv, LockTypes
<1>1. CASE BeginTurn(r)
  <2>1. PICK s \in Begin(session[r], r) : session' = [session EXCEPT ![r] = s]
    BY <1>1 DEF BeginTurn
  <2>2. s \in Session /\ Keeps(session[r], s)
    BY <1>0, <2>1, BeginKeeps
  <2> QED BY <1>0, <1>1, <2>1, <2>2 DEF BeginTurn, GoTo, diskVars, Serving, Inside
<1>2. CASE Answer(r) \/ CloseTurn(r)
  <2>1. <<Assistant(r, {})>> \in Seq(Message)
    <3>1. IsFiniteSet({})
      BY FS_EmptySet
    <3>2. Assistant(r, {}) \in Message
      BY <3>1 DEF Assistant, Message
    <3> QED BY <3>2
  <2> DEFINE s == Say(session[r], <<Assistant(r, {})>>)
  <2>2. s \in Session /\ Keeps(session[r], s)
    BY <1>0, <2>1, SayKeeps
  <2>3. session' = [session EXCEPT ![r] = s]
    BY <1>2 DEF Answer, CloseTurn
  <2> HIDE DEF s
  <2> QED BY <1>0, <1>2, <2>2, <2>3 DEF Answer, CloseTurn, GoTo, diskVars, Serving, Inside
<1>3. CASE CallTools(r)
  <2>0. PICK n \in 1..2 : \E answered \in AnsweredCalls(r, step[r], n) :
          /\ session' = [session EXCEPT ![r] =
                Say(@, <<Assistant(r, CallIds(r, step[r], n))>> \o Results(r, answered))]
          /\ GoTo(r, IF answered # CallIds(r, step[r], n) THEN "save"
                     ELSE IF step[r] + 1 < MaxSteps THEN "ask" ELSE "closing")
    BY <1>3 DEF CallTools
  <2>1. PICK answered \in AnsweredCalls(r, step[r], n) :
          /\ session' = [session EXCEPT ![r] =
                Say(@, <<Assistant(r, CallIds(r, step[r], n))>> \o Results(r, answered))]
          /\ GoTo(r, IF answered # CallIds(r, step[r], n) THEN "save"
                     ELSE IF step[r] + 1 < MaxSteps THEN "ask" ELSE "closing")
    BY <2>0
  <2> DEFINE calls == CallIds(r, step[r], n)
             said == <<Assistant(r, calls)>> \o Results(r, answered)
             s == Say(session[r], said)
  <2>2. /\ calls \subseteq CallId /\ IsFiniteSet(calls)
        /\ answered \subseteq CallId /\ IsFiniteSet(answered)
    <3>1. PICK m \in 0..n : answered = CallIds(r, step[r], m)
      BY <2>1 DEF AnsweredCalls
    <3>2. m \in Nat /\ n \in Nat
      OBVIOUS
    <3> QED BY <1>0, <3>1, <3>2, CallIdsType
  <2>3. <<Assistant(r, calls)>> \in Seq(Message)
    <3>1. Assistant(r, calls) \in Message
      BY <2>2 DEF Assistant, Message
    <3> QED BY <3>1
  <2>4. said \in Seq(Message)
    BY <2>2, <2>3, ResultsType, ConcatProperties
  <2>5. session' = [session EXCEPT ![r] = s]
    BY <2>1
  <2> HIDE DEF said
  <2>6. s \in Session /\ Keeps(session[r], s)
    BY <1>0, <2>4, SayKeeps
  <2> HIDE DEF s, calls
  <2>7. \E label \in {"save", "ask", "closing"} : pc' = [pc EXCEPT ![r] = label]
    BY <2>1 DEF GoTo
  <2> QED BY <1>0, <1>3, <2>5, <2>6, <2>7 DEF CallTools, diskVars, Serving, Inside
<1> QED BY <1>1, <1>2, <1>3

LEMMA OwnHolds ==
  ASSUME MemoryInv, NEW r \in Requests, RequestStep(r), NEW s \in SessionIds
  PROVE  Holds(r, s)'
<1> SUFFICES ASSUME Serves(r, s)', ~Made(s)'
             PROVE  Holds(r, s)'
  BY DEF Holds
<1>0. /\ session \in [Requests -> Session] /\ pc \in [Requests -> Labels]
      /\ tmp \in [SessionIds -> Session \cup {Absent, Torn}] /\ s # NoId
      /\ pc'[r] \in Serving
  BY ChatSessionAssumption DEF MemoryInv, MemoryTypes, LockInv, LockTypes, Serves
<1>1. CASE OpenSession(r)
  <2>1. /\ session' = [session EXCEPT ![r] = files[want[r]]] /\ files' = files
        /\ want'[r] = want[r] /\ pc'[r] = "yielded"
    BY <1>0, <1>1 DEF OpenSession, GoTo, diskVars
  <2>2. want[r] = s
    BY <2>1 DEF Serves
  <2> QED BY <1>0, <2>1, <2>2 DEF Holds, Keeps
<1>2. ASSUME ~OpenSession(r) PROVE Holds(r, s)'
  <2>1. Serves(r, s) /\ ~Made(s) /\ Holds(r, s)
    BY <1>2, ServedBefore DEF MemoryInv
  <2>2. pc[r] \in Serving /\ sid[r] = s /\ want[r] = s
    BY <2>1 DEF Serves
  <2>3. CASE StartWorker(r)
    BY <1>0, <2>1, <2>3 DEF StartWorker, GoTo, diskVars, Holds, Keeps
  <2>4. CASE BeginTurn(r) \/ Answer(r) \/ CallTools(r) \/ CloseTurn(r)
    <3>1. PICK t \in Session : Keeps(session[r], t) /\ session' = [session EXCEPT ![r] = t]
      BY <2>4, TurnMoves
    <3>2. session'[r] = t
      BY <1>0, <3>1
    <3>3. /\ files' = files /\ pc[r] \notin {"write", "replace"}
          /\ pc'[r] \notin {"write", "replace"}
      BY <2>4, TurnMoves
    <3>4. files[s] \notin {Absent, Torn} => Keeps(files[s], t)
      BY <2>1, <3>1, <3>3, KeepsIsTransitive DEF Holds
    <3> QED BY <3>2, <3>3, <3>4 DEF Holds, Keeps
  <2>5. CASE SaveBegin(r)
    <3>1. /\ files' = files /\ pc[r] = "save" /\ pc'[r] = "write"
          /\ session'[r] = Persisted(session[r])
      BY <1>0, <2>5 DEF SaveBegin, GoTo
    <3>2. \/ Persisted(session[r]) = session[r]
          \/ Len(Persisted(session[r]).messages) = MaxPersisted
      BY <1>0, PersistedKeeps
    <3>3. files[s] \notin {Absent, Torn} => Keeps(files[s], session[r])
      BY <2>1, <3>1 DEF Holds
    <3> QED BY <3>1, <3>2, <3>3 DEF Holds, Keeps
  <2>6. CASE SaveWrite(r)
    <3>1. /\ files' = files /\ pc[r] = "write" /\ pc'[r] = "replace"
          /\ session'[r] = session[r] /\ tmp'[s] = session[r]
      BY <1>0, <2>2, <2>6 DEF SaveWrite, GoTo
    <3> QED BY <2>1, <3>1 DEF Holds, Keeps
  <2>7. CASE \/ CloseEarly(r) \/ SaveReplace(r) \/ SaveFails(r) \/ Release(r)
    BY <1>0, <2>7 DEF CloseEarly, SaveReplace, SaveFails, Release, GoTo, Serving, Inside
  <2>8. CASE AskFails(r)
    BY <1>0, <2>1, <2>8 DEF AskFails, GoTo, diskVars, Holds, Keeps
  <2>9. CASE Submit(r) \/ Acquire(r) \/ AcquireTimeout(r) \/ CreateSession(r) \/ LockOwn(r)
    BY <2>2, <2>9 DEF Submit, Acquire, AcquireTimeout, CreateSession, LockOwn, Serving, Inside
  <2> QED BY <1>2, <2>3, <2>4, <2>5, <2>6, <2>7, <2>8, <2>9 DEF RequestStep
<1> QED BY <1>1, <1>2

LEMMA NewSessionType == NewSession \in Session
  BY EmptySeq DEF NewSession, Session

LEMMA MemoryTypesStep ==
  ASSUME MemoryInv, NEW r \in Requests, RequestStep(r)
  PROVE  MemoryTypes'
<1>0. /\ MemoryTypes /\ session[r] \in Session /\ NewSession \in Session
      /\ \A x \in SessionIds : files[x] \in Session \cup {Absent, Torn}
      /\ sid[r] \in SessionIds \cup {NoId} /\ want[r] \in SessionIds \cup {NoId}
  BY NewSessionType DEF MemoryInv, MemoryTypes, LockInv, LockTypes
<1>1. CASE \/ Submit(r) \/ Acquire(r) \/ AcquireTimeout(r) \/ LockOwn(r)
           \/ StartWorker(r) \/ AskFails(r) \/ SaveFails(r)
  BY <1>0, <1>1 DEF Submit, Acquire, AcquireTimeout, LockOwn, StartWorker, AskFails, SaveFails,
                    diskVars, MemoryTypes
<1>2. CASE OpenSession(r)
  <2>1. files[want[r]] \in Session
    BY <1>0, <1>2 DEF OpenSession
  <2> QED BY <1>0, <1>2, <2>1 DEF OpenSession, diskVars, MemoryTypes
<1>3. CASE CreateSession(r) \/ CloseEarly(r) \/ Release(r)
  BY <1>0, <1>3 DEF CreateSession, CloseEarly, Release, diskVars, MemoryTypes
<1>4. CASE BeginTurn(r) \/ Answer(r) \/ CallTools(r) \/ CloseTurn(r)
  <2>1. step' \in [Requests -> Nat]
    BY <1>0, <1>4 DEF BeginTurn, Answer, CallTools, CloseTurn, MemoryTypes
  <2> QED BY <1>0, <1>4, <2>1, TurnMoves DEF MemoryTypes
<1>5. CASE SaveBegin(r)
  <2>1. Persisted(session[r]) \in Session
    BY <1>0, PersistedKeeps
  <2> QED BY <1>0, <1>5, <2>1 DEF SaveBegin, MemoryTypes
<1>6. CASE SaveWrite(r) \/ SaveReplace(r)
  BY <1>0, <1>6 DEF SaveWrite, SaveReplace, MemoryTypes
<1> QED BY <1>1, <1>2, <1>3, <1>4, <1>5, <1>6 DEF RequestStep

LEMMA IdsAreUsedStep ==
  ASSUME MemoryInv, NEW r \in Requests, RequestStep(r)
  PROVE  IdsAreUsed'
<1>0. /\ IdsAreUsed /\ LockTypes /\ Sessions /\ NoId \notin SessionIds
      /\ {want[r], sid[r]} \subseteq used \cup {NoId} /\ used \subseteq SessionIds
      /\ files \in [SessionIds -> Session \cup {Absent, Torn}]
  BY ChatSessionAssumption DEF MemoryInv, LockInv, IdsAreUsed, LockTypes, MemoryTypes
<1>1. CASE Submit(r)
  <2>1. PICK label \in {"open", "acquire"}, s \in used \cup {NoId} :
          pc' = [pc EXCEPT ![r] = label] /\ want' = [want EXCEPT ![r] = s]
    BY <1>1 DEF Submit, GoTo
  <2>2. UNCHANGED <<files, used, sid>>
    BY <1>1 DEF Submit, diskVars
  <2> QED BY <1>0, <2>1, <2>2 DEF IdsAreUsed, LockTypes, Serving, Inside
<1>2. CASE Acquire(r) \/ AcquireTimeout(r) \/ LockOwn(r)
  BY <1>0, <1>2 DEF Acquire, AcquireTimeout, LockOwn, GoTo, diskVars, IdsAreUsed, LockTypes,
                    Sessions, Serving, Inside
<1>3. CASE OpenSession(r)
  BY <1>0, <1>3 DEF OpenSession, GoTo, diskVars, IdsAreUsed, LockTypes, Serving, Inside
<1>4. CASE CreateSession(r)
  <2>1. PICK s \in SessionIds \ used :
          /\ sid' = [sid EXCEPT ![r] = s] /\ files' = [files EXCEPT ![s] = NewSession]
          /\ used' = used \cup {s}
    BY <1>4 DEF CreateSession
  <2>2. /\ \E label \in {"lockown", "yielded"} : pc' = [pc EXCEPT ![r] = label]
        /\ want' = want
    BY <1>4 DEF CreateSession, GoTo
  <2> QED BY <1>0, <2>1, <2>2 DEF IdsAreUsed, LockTypes, Serving, Inside
<1>5. CASE CloseEarly(r) \/ Release(r)
  BY <1>0, <1>5 DEF CloseEarly, Release, GoTo, diskVars, IdsAreUsed, LockTypes, Serving, Inside
<1>6. CASE \/ StartWorker(r) \/ AskFails(r) \/ SaveBegin(r) \/ SaveWrite(r) \/ SaveFails(r)
  BY <1>0, <1>6 DEF StartWorker, AskFails, SaveBegin, SaveWrite, SaveFails, GoTo, diskVars,
                    IdsAreUsed, LockTypes, Serving, Inside
<1>7. CASE BeginTurn(r) \/ Answer(r) \/ CallTools(r) \/ CloseTurn(r)
  <2>1. PICK label \in Serving \ {"write", "replace"} : pc' = [pc EXCEPT ![r] = label]
    BY <1>7, TurnMoves
  <2>2. pc[r] \in Serving /\ UNCHANGED <<files, used, want, sid>>
    BY <1>7, TurnMoves
  <2> QED BY <1>0, <2>1, <2>2 DEF IdsAreUsed, LockTypes, Serving, Inside
<1>8. CASE SaveReplace(r)
  <2>1. sid[r] \in used
    BY <1>0, <1>8 DEF SaveReplace, IdsAreUsed, Serving, Inside
  <2>2. \A s \in SessionIds \ used : files'[s] = files[s]
    BY <1>0, <1>8, <2>1 DEF SaveReplace
  <2> QED BY <1>0, <1>8, <2>2 DEF SaveReplace, GoTo, IdsAreUsed, LockTypes, Serving, Inside
<1> QED BY <1>1, <1>2, <1>3, <1>4, <1>5, <1>6, <1>7, <1>8 DEF RequestStep

LEMMA DeleteKeeps ==
  ASSUME MemoryInv, NEW x \in SessionIds, DeleteSession(x), LockInv'
  PROVE  MemoryInv'
<1>0. MemoryTypes /\ IdsAreUsed /\ \A r \in Requests, s \in SessionIds : Holds(r, s)
  BY DEF MemoryInv
<1>1. /\ files' = [files EXCEPT ![x] = Absent]
      /\ UNCHANGED <<tmp, used, pc, want, sid, session, step>>
  BY DEF DeleteSession
<1>2. MemoryTypes' /\ IdsAreUsed'
  BY <1>0, <1>1 DEF MemoryTypes, IdsAreUsed
<1>3. ASSUME NEW r \in Requests, NEW s \in SessionIds PROVE Holds(r, s)'
  <2>1. files'[s] = files[s] \/ files'[s] = Absent
    BY <1>0, <1>1 DEF MemoryTypes
  <2>2. (Serves(r, s)' <=> Serves(r, s)) /\ (Made(s)' <=> Made(s))
    BY <1>1 DEF Serves, Made
  <2> QED BY <1>0, <1>1, <2>1, <2>2 DEF Holds, Keeps
<1> QED BY <1>2, <1>3 DEF MemoryInv

LEMMA RestartKeeps ==
  ASSUME MemoryInv, Restart, LockInv'
  PROVE  MemoryInv'
<1>0. MemoryTypes /\ IdsAreUsed /\ NewSession \in Session
  BY NewSessionType DEF MemoryInv
<1>1. \A r \in Requests : pc'[r] \in {"new", "end"}
  BY DEF Restart
<1>2. MemoryTypes'
  BY <1>0 DEF Restart, diskVars, MemoryTypes
<1>3. IdsAreUsed'
  BY <1>0, <1>1 DEF Restart, diskVars, IdsAreUsed, Serving, Inside
<1>4. \A r \in Requests, s \in SessionIds : Holds(r, s)'
  BY <1>1 DEF Holds, Serves, Serving, Inside
<1> QED BY <1>2, <1>3, <1>4 DEF MemoryInv

LEMMA MemoryStep == MemoryInv /\ [Next]_vars => MemoryInv'
<1> SUFFICES ASSUME MemoryInv, [Next]_vars PROVE MemoryInv'
  OBVIOUS
<1>0. LockInv'
  BY LockStep DEF MemoryInv
<1>1. ASSUME NEW q \in Requests, RequestStep(q) PROVE MemoryInv'
  <2>1. \A r \in Requests, s \in SessionIds : Holds(r, s)'
    BY <1>1, OthersHold, OwnHolds
  <2> QED BY <1>0, <1>1, <2>1, MemoryTypesStep, IdsAreUsedStep DEF MemoryInv
<1>2. CASE UNCHANGED vars
  <2>1. MemoryTypes' /\ IdsAreUsed'
    BY <1>2 DEF MemoryInv, MemoryTypes, IdsAreUsed, vars, diskVars
  <2>2. \A r \in Requests, s \in SessionIds : Holds(r, s)'
    BY <1>2 DEF MemoryInv, Holds, Keeps, Serves, Made, vars, diskVars
  <2> QED BY <1>0, <2>1, <2>2 DEF MemoryInv
<1> QED BY <1>0, <1>1, <1>2, DeleteKeeps, RestartKeeps DEF Next, RequestStep

LEMMA MemoryBegins == Init => MemoryInv
<1> SUFFICES ASSUME Init PROVE MemoryInv
  OBVIOUS
<1>1. LockInv
  BY LockInit
<1>2. MemoryTypes
  BY NewSessionType DEF Init, MemoryTypes
<1>3. IdsAreUsed
  BY DEF Init, IdsAreUsed, Serving, Inside
<1>4. \A r \in Requests, s \in SessionIds : Holds(r, s)
  BY DEF Init, Holds, Serves, Serving, Inside
<1> QED BY <1>1, <1>2, <1>3, <1>4 DEF MemoryInv

\* No save takes a turn out of the memory of a session, however many requests ask,
\* wait, give up, delete and break off, and wherever the service is restarted: a
\* turn stays among the messages, in the archive or in the summary, until the
\* archive says that older entries were dropped or the file is full
\* (agent.py:272-345, sessions.py:63-84, facade.py:287-297).
THEOREM TurnsStay == Spec => TurnsAreKept
<1>1. Spec => []MemoryInv
  BY MemoryBegins, MemoryStep, PTL DEF Spec
<1>2. MemoryInv /\ [Next]_vars => [TurnsAreKeptStep]_vars
  <2> SUFFICES ASSUME MemoryInv, Next, NEW s \in SessionIds,
                      ~Made(s), files[s] \notin {Absent, Torn}, files'[s] # Absent
               PROVE  /\ files'[s] # Torn
                      /\ \/ Known(files[s]) \subseteq Known(files'[s])
                         \/ Lost \in Known(files'[s])
                         \/ Len(files'[s].messages) = MaxPersisted
    BY DEF TurnsAreKeptStep
  <2>0. s \in used /\ s # NoId /\ files \in [SessionIds -> Session \cup {Absent, Torn}]
    BY ChatSessionAssumption DEF MemoryInv, IdsAreUsed, MemoryTypes
  <2>1. CASE files'[s] = files[s]
    BY <2>1
  <2>2. ASSUME NEW r \in Requests, SaveReplace(r), sid[r] = s
        PROVE  /\ files'[s] # Torn
               /\ \/ Keeps(files[s], files'[s])
                  \/ Len(files'[s].messages) = MaxPersisted
    <3>1. pc[r] = "replace" /\ files'[s] = tmp[s]
      BY <2>0, <2>2 DEF SaveReplace
    <3>2. Serves(r, s)
      BY <2>2, <3>1 DEF Serves, Made, Serving, Inside
    <3>3. Holds(r, s) /\ session[r] \in Session
      BY DEF MemoryInv, MemoryTypes
    <3> QED BY <3>1, <3>2, <3>3, ChatSessionAssumption DEF Holds
  <2>3. ASSUME NEW r \in Requests, RequestStep(r)
        PROVE  files'[s] = files[s] \/ (SaveReplace(r) /\ sid[r] = s)
    BY <2>0, <2>3, FilesMove
  <2>4. ASSUME NEW x \in SessionIds, DeleteSession(x)
        PROVE  files'[s] = files[s]
    BY <2>0, <2>4 DEF DeleteSession
  <2>5. CASE Restart
    BY <2>1, <2>5 DEF Restart, diskVars
  <2> QED BY <2>1, <2>2, <2>3, <2>4, <2>5 DEF Next, RequestStep, Keeps
<1> QED BY <1>1, <1>2, PTL DEF Spec, TurnsAreKept

-------------------------------------------------------------------------------
(* Part 3: the histories the model services are sent.                        *)

\* own[i] are the calls that results after message i would answer, and got[i]
\* those of them that are answered by then.  A history may begin with results of
\* calls that have been cut off; what own and got say of these is a guess.
Link(ms, own, got, i) ==
    IF ms[i].role = "tool"
    THEN /\ own[i - 1] # {} /\ ms[i].calls \subseteq own[i - 1]
         /\ own[i] = own[i - 1] /\ got[i] = got[i - 1] \cup ms[i].calls
    ELSE /\ ms[i].role = "user" => ms[i].calls = {}
         /\ own[i] = ms[i].calls /\ got[i] = {}
         /\ \A k \in 0..(i - 1) : ms[i].calls \cap own[k] = {}

\* Results belong to the calls before them, and no call occurs twice.
Chain(ms, own, got, ids) ==
    /\ own[0] = got[0]
    /\ \A i \in 0..Len(ms) : got[i] \subseteq own[i] /\ own[i] \subseteq ids
    /\ \A i \in 1..Len(ms) : Link(ms, own, got, i)

\* Moreover, all calls are answered before other words follow.
Whole(ms, own, got, ids) ==
    /\ Chain(ms, own, got, ids)
    /\ \A i \in 0..(Len(ms) - 1) : ms[i + 1].role # "tool" => own[i] = got[i]

LEMMA ChainGrows ==
  ASSUME NEW ms, NEW own, NEW got, NEW ids, NEW more, ids \subseteq more
  PROVE  /\ Chain(ms, own, got, ids) => Chain(ms, own, got, more)
         /\ Whole(ms, own, got, ids) => Whole(ms, own, got, more)
BY DEF Chain, Whole

CallsOf(q) == UNION {q[k].calls : k \in 1..Len(q)}

\* o and g say of a history with the results q after it what own and got said
\* of the history.
WithResults(ms, own, got, ids, q, o, g) ==
    /\ Chain(ms \o q, o, g, ids)
    /\ Whole(ms, own, got, ids) => Whole(ms \o q, o, g, ids)
    /\ \A i \in 0..Len(ms \o q) : \E k \in 0..Len(ms) : o[i] = own[k]
    /\ o[Len(ms \o q)] = own[Len(ms)]
    /\ g[Len(ms \o q)] = got[Len(ms)] \cup CallsOf(q)

\* A history with results after it.
LEMMA ResultsFollow ==
  ASSUME NEW ms \in Seq(Message), NEW own, NEW got, NEW ids, Chain(ms, own, got, ids),
         NEW q \in Seq(Message),
         \A k \in 1..Len(q) : q[k].role = "tool" /\ q[k].calls \subseteq own[Len(ms)],
         q # <<>> => own[Len(ms)] # {}
  PROVE  \E o, g : WithResults(ms, own, got, ids, q, o, g)
<1> DEFINE n == Len(ms)
           m == Len(q)
           t == ms \o q
           so(j) == UNION {q[k].calls : k \in 1..j}
           o == [i \in 0..(n + m) |-> IF i <= n THEN own[i] ELSE own[n]]
           g == [i \in 0..(n + m) |-> IF i <= n THEN got[i] ELSE got[n] \cup so(i - n)]
<1>1. /\ n \in Nat /\ m \in Nat /\ Len(t) = n + m
      /\ \A i \in 1..(n + m) : t[i] = IF i <= n THEN ms[i] ELSE q[i - n]
  BY LenProperties, ConcatProperties
<1>2. /\ \A i \in 0..n : o[i] = own[i] /\ g[i] = got[i]
      /\ \A i \in (n + 1)..(n + m) : o[i] = own[n] /\ g[i] = got[n] \cup so(i - n)
  BY <1>1
<1>3. /\ own[0] = got[0]
      /\ \A i \in 0..n : got[i] \subseteq own[i] /\ own[i] \subseteq ids
      /\ \A i \in 1..n : Link(ms, own, got, i)
      /\ \A k \in 1..m : q[k].role = "tool" /\ q[k].calls \subseteq own[n]
      /\ m # 0 => own[n] # {}
  BY <1>1, EmptySeq DEF Chain
<1>4. \A j \in 0..m : so(j) \subseteq own[n]
  BY <1>3
<1>5. so(0) = {} /\ \A j \in 1..m : so(j) = so(j - 1) \cup q[j].calls
  <2>1. so(0) = {}
    OBVIOUS
  <2>2. ASSUME NEW j \in 1..m PROVE so(j) = so(j - 1) \cup q[j].calls
    <3>1. 1..j = 1..(j - 1) \cup {j}
      BY <1>1
    <3> QED BY <3>1
  <2> QED BY <2>1, <2>2
<1> HIDE DEF n, m, t, so, o, g
<1>6. o[0] = g[0]
  BY <1>1, <1>2, <1>3
<1>7. ASSUME NEW i \in 0..(n + m) PROVE g[i] \subseteq o[i] /\ o[i] \subseteq ids
  <2>1. CASE i <= n
    BY <1>1, <1>2, <1>3, <2>1
  <2>2. CASE ~(i <= n)
    <3>1. i \in (n + 1)..(n + m) /\ i - n \in 0..m /\ n \in 0..n
      BY <1>1, <2>2
    <3> QED BY <1>2, <1>3, <1>4, <3>1
  <2> QED BY <2>1, <2>2
<1>8. ASSUME NEW i \in 1..(n + m) PROVE Link(t, o, g, i)
  <2>1. CASE i <= n
    <3>1. i \in 1..n /\ i \in 0..n /\ i - 1 \in 0..n /\ t[i] = ms[i]
      BY <1>1, <2>1
    <3>2. \A k \in 0..(i - 1) : k \in 0..n
      BY <1>1, <2>1
    <3>3. Link(ms, own, got, i)
      BY <1>3, <3>1
    <3> QED BY <1>2, <3>1, <3>2, <3>3 DEF Link
  <2>2. CASE ~(i <= n)
    <3> DEFINE j == i - n
    <3>1. j \in 1..m /\ i \in (n + 1)..(n + m) /\ t[i] = q[j] /\ m # 0
      BY <1>1, <2>2
    <3>2. t[i].role = "tool" /\ t[i].calls \subseteq own[n] /\ own[n] # {}
      BY <1>3, <3>1
    <3>3. o[i] = own[n] /\ g[i] = got[n] \cup so(j)
      BY <1>2, <3>1
    <3>4. o[i - 1] = own[n] /\ g[i - 1] = got[n] \cup so(j - 1)
      <4>1. CASE i - 1 = n
        <5>1. n \in 0..n /\ j - 1 = 0
          BY <1>1, <4>1
        <5> QED BY <1>2, <1>5, <4>1, <5>1
      <4>2. CASE i - 1 # n
        <5>1. i - 1 \in (n + 1)..(n + m) /\ (i - 1) - n = j - 1
          BY <1>1, <2>2, <4>2
        <5> QED BY <1>2, <5>1
      <4> QED BY <4>1, <4>2
    <3>5. so(j) = so(j - 1) \cup q[j].calls
      BY <1>5, <3>1
    <3> HIDE DEF j
    <3>6. g[i] = g[i - 1] \cup t[i].calls
      BY <3>1, <3>3, <3>4, <3>5
    <3> QED BY <3>2, <3>3, <3>4, <3>6 DEF Link
  <2> QED BY <2>1, <2>2
<1>9. Chain(t, o, g, ids)
  BY <1>1, <1>6, <1>7, <1>8 DEF Chain
<1>10. Whole(ms, own, got, ids) => Whole(t, o, g, ids)
  <2> SUFFICES ASSUME Whole(ms, own, got, ids), NEW i \in 0..(Len(t) - 1), t[i + 1].role # "tool"
               PROVE  o[i] = g[i]
    BY <1>9 DEF Whole
  <2>1. CASE i < n
    <3>1. i \in 0..(n - 1) /\ i \in 0..n /\ t[i + 1] = ms[i + 1]
      BY <1>1, <2>1
    <3> QED BY <1>2, <3>1 DEF Whole, n
  <2>2. CASE ~(i < n)
    <3>1. (i + 1) - n \in 1..m /\ t[i + 1] = q[(i + 1) - n]
      BY <1>1, <2>2
    <3> QED BY <1>3, <3>1
  <2> QED BY <1>1, <2>1, <2>2
<1>11. \A i \in 0..Len(t) : \E k \in 0..n : o[i] = own[k]
  <2> SUFFICES ASSUME NEW i \in 0..Len(t) PROVE \E k \in 0..n : o[i] = own[k]
    OBVIOUS
  <2>1. CASE i <= n
    BY <1>1, <1>2, <2>1
  <2>2. CASE ~(i <= n)
    <3>1. i \in (n + 1)..(n + m) /\ n \in 0..n
      BY <1>1, <2>2
    <3> QED BY <1>2, <3>1
  <2> QED BY <2>1, <2>2
<1>12. o[Len(t)] = own[n] /\ g[Len(t)] = got[n] \cup so(m)
  <2>1. CASE m = 0
    <3>1. Len(t) = n /\ n \in 0..n
      BY <1>1, <2>1
    <3> QED BY <1>2, <1>5, <2>1, <3>1
  <2>2. CASE m # 0
    <3>1. Len(t) \in (n + 1)..(n + m) /\ Len(t) - n = m
      BY <1>1, <2>2
    <3> QED BY <1>2, <3>1
  <2> QED BY <2>1, <2>2
<1> QED BY <1>9, <1>10, <1>11, <1>12 DEF n, m, t, so, CallsOf, WithResults

\* o and g say of a history with the words m after it what own and got said of the
\* history.
WithWords(ms, own, got, ids, m, o, g) ==
    /\ Chain(ms \o <<m>>, o, g, ids)
    /\ Whole(ms, own, got, ids) /\ own[Len(ms)] = got[Len(ms)]
          => Whole(ms \o <<m>>, o, g, ids)
    /\ \A i \in 0..(Len(ms) + 1) : o[i] = m.calls \/ \E k \in 0..Len(ms) : o[i] = own[k]
    /\ o[Len(ms) + 1] = m.calls /\ g[Len(ms) + 1] = {}

\* A history with words after it, the calls of which are new.
LEMMA WordFollows ==
  ASSUME NEW ms \in Seq(Message), NEW own, NEW got, NEW ids, Chain(ms, own, got, ids),
         NEW m \in Message, m.role # "tool", m.role = "user" => m.calls = {},
         m.calls \subseteq ids, \A k \in 0..Len(ms) : m.calls \cap own[k] = {}
  PROVE  \E o, g : WithWords(ms, own, got, ids, m, o, g)
<1> DEFINE n == Len(ms)
           q == <<m>>
           t == ms \o q
           o == [i \in 0..(n + 1) |-> IF i <= n THEN own[i] ELSE m.calls]
           g == [i \in 0..(n + 1) |-> IF i <= n THEN got[i] ELSE {}]
<1>1. /\ n \in Nat /\ Len(t) = n + 1 /\ t[n + 1] = m
      /\ \A i \in 1..n : t[i] = ms[i]
  <2>1. q \in Seq(Message) /\ Len(q) = 1 /\ q[1] = m
    OBVIOUS
  <2> HIDE DEF q
  <2>2. /\ n \in Nat /\ Len(t) = n + 1
        /\ \A i \in 1..(n + 1) : t[i] = IF i <= n THEN ms[i] ELSE q[i - n]
    BY <2>1, LenProperties, ConcatProperties
  <2>3. n + 1 \in 1..(n + 1) /\ ~(n + 1 <= n) /\ (n + 1) - n = 1
    BY <2>2
  <2>4. t[n + 1] = q[1]
    BY <2>2, <2>3
  <2>5. \A i \in 1..n : i \in 1..(n + 1) /\ i <= n
    BY <2>2
  <2> QED BY <2>1, <2>2, <2>4, <2>5
<1>2. /\ \A i \in 0..n : o[i] = own[i] /\ g[i] = got[i]
      /\ o[n + 1] = m.calls /\ g[n + 1] = {}
  BY <1>1
<1>3. /\ own[0] = got[0]
      /\ \A i \in 0..n : got[i] \subseteq own[i] /\ own[i] \subseteq ids
      /\ \A i \in 1..n : Link(ms, own, got, i)
  BY DEF Chain
<1>4. \A k \in 0..n : m.calls \cap own[k] = {}
  OBVIOUS
<1>5. /\ \A i \in 0..(n + 1) : i \in 0..n \/ i = n + 1
      /\ \A i \in 1..(n + 1) : i \in 1..n \/ i = n + 1
      /\ \A i \in 1..n : i \in 0..n /\ i - 1 \in 0..n /\ \A k \in 0..(i - 1) : k \in 0..n
      /\ 0 \in 0..n /\ 0..n = 0..((n + 1) - 1)
  BY <1>1
<1> HIDE DEF n, t, o, g, q
<1>6. ASSUME NEW i \in 1..(n + 1) PROVE Link(t, o, g, i)
  <2>1. CASE i \in 1..n
    <3>1. Link(ms, own, got, i) /\ t[i] = ms[i]
      BY <1>1, <1>3, <2>1
    <3> QED BY <1>2, <1>5, <2>1, <3>1 DEF Link
  <2>2. CASE i = n + 1
    <3>1. \A k \in 0..(i - 1) : t[i].calls \cap o[k] = {}
      BY <1>1, <1>2, <1>4, <1>5, <2>2
    <3> QED BY <1>1, <1>2, <2>2, <3>1 DEF Link
  <2> QED BY <1>5, <2>1, <2>2
<1>7. Chain(t, o, g, ids)
  <2>1. o[0] = g[0]
    BY <1>2, <1>3, <1>5
  <2>2. \A i \in 0..(n + 1) : g[i] \subseteq o[i] /\ o[i] \subseteq ids
    BY <1>2, <1>3, <1>5
  <2> QED BY <1>1, <1>6, <2>1, <2>2 DEF Chain
<1>8. ASSUME Whole(ms, own, got, ids), own[n] = got[n]
      PROVE  Whole(t, o, g, ids)
  <2>1. ASSUME NEW i \in 0..n, t[i + 1].role # "tool" PROVE o[i] = g[i]
    <3>1. CASE i = n
      BY <1>2, <1>8, <2>1, <3>1
    <3>2. CASE i # n
      <4>1. i \in 0..(n - 1) /\ i + 1 \in 1..n
        BY <1>1, <3>2
      <4>2. ms[i + 1].role # "tool"
        BY <1>1, <2>1, <4>1
      <4> QED BY <1>2, <1>8, <4>1, <4>2 DEF Whole, n
    <3> QED BY <3>1, <3>2
  <2>2. Len(t) - 1 = n
    BY <1>1
  <2> QED BY <1>7, <2>1, <2>2 DEF Whole
<1>9. \A i \in 0..(n + 1) : o[i] = m.calls \/ \E k \in 0..n : o[i] = own[k]
  BY <1>2, <1>5
<1> QED BY <1>2, <1>7, <1>8, <1>9 DEF n, t, q, WithWords

\* o and g say of what is left of a history what own and got said of it.
Shortened(ms, own, got, ids, t, o, g) ==
    /\ Chain(t, o, g, ids)
    /\ Whole(ms, own, got, ids) => Whole(t, o, g, ids)
    /\ own[Len(ms)] = got[Len(ms)] => o[Len(t)] = g[Len(t)]

\* What is left of a history when the oldest messages are cut off; calls before
\* the cut count as answered.
LEMMA TailOf ==
  ASSUME NEW ms \in Seq(Message), NEW own, NEW got, NEW ids, Chain(ms, own, got, ids),
         NEW c \in 0..Len(ms), NEW t \in Seq(Message), Len(t) = Len(ms) - c,
         \A k \in 1..(Len(ms) - c) : t[k] = ms[c + k]
  PROVE  \E o, g : Shortened(ms, own, got, ids, t, o, g)
<1> DEFINE n == Len(ms)
           Words(k) == \E j \in 1..k : t[j].role # "tool"
           o == [k \in 0..(n - c) |-> own[c + k]]
           g == [k \in 0..(n - c) |-> IF Words(k) THEN got[c + k] ELSE own[c + k]]
<1>1. /\ n \in Nat /\ c \in Nat /\ c <= n /\ Len(t) = n - c
      /\ \A k \in 1..(n - c) : t[k] = ms[c + k]
  BY LenProperties
<1>2. \A k \in 0..(n - c) : o[k] = own[c + k] /\ g[k] = IF Words(k) THEN got[c + k] ELSE own[c + k]
  OBVIOUS
<1>3. /\ \A i \in 0..n : got[i] \subseteq own[i] /\ own[i] \subseteq ids
      /\ \A i \in 1..n : Link(ms, own, got, i)
  BY DEF Chain
<1>4. ~Words(0)
  OBVIOUS
<1>5. ASSUME NEW k \in 1..(n - c) PROVE Words(k) <=> Words(k - 1) \/ t[k].role # "tool"
  <2>1. 1..k = 1..(k - 1) \cup {k}
    BY <1>1
  <2> QED BY <2>1
<1>6. /\ \A k \in 0..(n - c) : c + k \in 0..n
      /\ \A k \in 1..(n - c) : /\ c + k \in 1..n /\ k \in 0..(n - c) /\ k - 1 \in 0..(n - c)
                               /\ c + (k - 1) = (c + k) - 1
                               /\ \A j \in 0..(k - 1) : j \in 0..(n - c) /\ c + j \in 0..((c + k) - 1)
      /\ 0 \in 0..(n - c)
  BY <1>1
<1> HIDE DEF n, o, g, Words
<1>7. o[0] = g[0]
  BY <1>2, <1>4, <1>6
<1>8. \A k \in 0..(n - c) : g[k] \subseteq o[k] /\ o[k] \subseteq ids
  BY <1>2, <1>3, <1>6
<1>9. ASSUME NEW k \in 1..(n - c) PROVE Link(t, o, g, k)
  <2>1. /\ Link(ms, own, got, c + k) /\ t[k] = ms[c + k]
        /\ o[k] = own[c + k] /\ o[k - 1] = own[(c + k) - 1]
    BY <1>1, <1>2, <1>3, <1>6
  <2>2. CASE t[k].role = "tool"
    <3>1. /\ own[(c + k) - 1] # {} /\ ms[c + k].calls \subseteq own[(c + k) - 1]
          /\ own[c + k] = own[(c + k) - 1] /\ got[c + k] = got[(c + k) - 1] \cup ms[c + k].calls
      BY <2>1, <2>2 DEF Link
    <3>2. Words(k) <=> Words(k - 1)
      BY <1>5, <2>2
    <3>3. /\ g[k] = IF Words(k) THEN got[c + k] ELSE own[c + k]
          /\ g[k - 1] = IF Words(k - 1) THEN got[(c + k) - 1] ELSE own[(c + k) - 1]
      BY <1>2, <1>6
    <3>4. g[k] = g[k - 1] \cup t[k].calls
      BY <2>1, <3>1, <3>2, <3>3
    <3> QED BY <2>1, <2>2, <3>1, <3>4 DEF Link
  <2>3. CASE t[k].role # "tool"
    <3>1. /\ ms[c + k].role = "user" => ms[c + k].calls = {}
          /\ own[c + k] = ms[c + k].calls /\ got[c + k] = {}
          /\ \A j \in 0..((c + k) - 1) : ms[c + k].calls \cap own[j] = {}
      BY <2>1, <2>3 DEF Link
    <3>2. g[k] = {}
      BY <1>2, <1>5, <1>6, <2>3, <3>1
    <3>3. \A j \in 0..(k - 1) : t[k].calls \cap o[j] = {}
      BY <1>2, <1>6, <2>1, <3>1
    <3> QED BY <2>1, <2>3, <3>1, <3>2, <3>3 DEF Link
  <2> QED BY <2>2, <2>3
<1>10. Chain(t, o, g, ids)
  BY <1>1, <1>7, <1>8, <1>9 DEF Chain
<1>11. ASSUME Whole(ms, own, got, ids) PROVE Whole(t, o, g, ids)
  <2>1. ASSUME NEW k \in 0..((n - c) - 1), t[k + 1].role # "tool" PROVE o[k] = g[k]
    <3>1. /\ k \in 0..(n - c) /\ k + 1 \in 1..(n - c) /\ c + k \in 0..(n - 1)
          /\ c + (k + 1) = (c + k) + 1
      BY <1>1
    <3>2. ms[(c + k) + 1].role # "tool"
      BY <1>1, <2>1, <3>1
    <3>3. own[c + k] = got[c + k]
      BY <1>11, <3>1, <3>2 DEF Whole, n
    <3> QED BY <1>2, <3>1, <3>3
  <2> QED BY <1>1, <1>10, <2>1 DEF Whole
<1>12. own[n] = got[n] => o[Len(t)] = g[Len(t)]
  <2>1. n - c \in 0..(n - c) /\ c + (n - c) = n
    BY <1>1
  <2> QED BY <1>1, <1>2, <2>1
<1> QED BY <1>10, <1>11, <1>12 DEF n, Shortened

\* The results of some calls are one for each.
LEMMA ResultsAre ==
  ASSUME NEW turn \in Requests, NEW ids \in SUBSET CallId, IsFiniteSet(ids)
  PROVE  LET q == Results(turn, ids)
         IN  /\ q \in Seq(Message)
             /\ \A k \in 1..Len(q) : q[k].role = "tool" /\ q[k].calls \subseteq ids
             /\ CallsOf(q) = ids
             /\ q # <<>> => ids # {}
<1> DEFINE n == Cardinality(ids)
           f == SetToSeq(ids)
           q == Results(turn, ids)
<1>1. n \in Nat /\ \E h \in [1..n -> ids] : IsInjective(h)
  <2>1. PICK k \in Nat : ExistsBijection(1..k, ids)
    BY FS_NatBijection
  <2>2. k = n
    BY <2>1, FS_CountingElements
  <2> QED BY <2>1, <2>2 DEF ExistsBijection, Bijection, Injection
<1>2. f \in [1..n -> ids] /\ IsInjective(f)
  BY <1>1 DEF SetToSeq
<1>3. q = [i \in 1..n |-> [role |-> "tool", turn |-> turn, calls |-> {f[i]}]]
  BY DEF Results, ToolResult
<1>4. \A x \in ids : \E i \in 1..n : f[i] = x
  <2> HIDE DEF f, n
  <2>1. f \in Injection(1..n, ids)
    BY <1>2 DEF Injection
  <2>2. Cardinality(1..n) = n
    BY <1>1, FS_Interval
  <2>3. f \in Surjection(1..n, ids)
    BY <2>1, <2>2, FS_Injection DEF n
  <2> QED BY <2>3 DEF Surjection
<1> HIDE DEF f
<1>5. q \in Seq(Message)
  BY ResultsType
<1>6. Len(q) = n
  <2> HIDE DEF q, n
  <2> QED BY <1>1, <1>3
<1> HIDE DEF n
<1>7. \A k \in 1..Len(q) : q[k].role = "tool" /\ q[k].calls = {f[k]} /\ f[k] \in ids
  <2> HIDE DEF q
  <2> QED BY <1>2, <1>3, <1>6
<1> HIDE DEF q
<1>8. CallsOf(q) = ids
  BY <1>4, <1>6, <1>7 DEF CallsOf
<1>9. q # <<>> => ids # {}
  <2> SUFFICES ASSUME q # <<>> PROVE ids # {}
    OBVIOUS
  <2>1. Len(q) # 0
    BY <1>5, EmptySeq
  <2>2. 1 \in 1..Len(q)
    BY <1>1, <1>6, <2>1
  <2> QED BY <1>7, <2>2
<1> QED BY <1>5, <1>7, <1>8, <1>9 DEF q

\* No result follows message j.
Ends(ms, j) == j = Len(ms) \/ ms[j + 1].role # "tool"

\* The results that follow a message with words.
LEMMA RunIs ==
  ASSUME NEW ms \in Seq(Message), NEW own, NEW got, NEW ids, Chain(ms, own, got, ids),
         NEW i \in 1..Len(ms), ms[i].role # "tool"
  PROVE  LET j == ResultsEnd(ms, i)
         IN  /\ j \in i..Len(ms) /\ Ends(ms, j)
             /\ \A k \in (i + 1)..j : ms[k].role = "tool"
             /\ own[j] = ms[i].calls /\ got[j] = Ids(ms, (i + 1)..j, "tool")
<1> DEFINE n == Len(ms)
           S == {j \in i..n : Ends(ms, j)}
           j == ResultsEnd(ms, i)
<1>1. n \in Nat /\ i \in Nat /\ 1 <= i /\ i <= n
  BY LenProperties
<1>2. n \in S /\ S \subseteq Nat
  BY <1>1 DEF Ends
<1>3. Min(S) \in S /\ \A k \in S : Min(S) <= k
  <2> HIDE DEF S
  <2> QED BY <1>2, LeastOf
<1>4. \E e \in i..n : /\ \A k \in (i + 1)..e : ms[k].role = "tool"
                      /\ e = n \/ ms[e + 1].role # "tool"
  <2> DEFINE e == Min(S)
  <2>1. e \in i..n /\ Ends(ms, e)
    BY <1>3
  <2>2. ASSUME NEW k \in (i + 1)..e, ms[k].role # "tool" PROVE FALSE
    <3>1. k - 1 \in i..n /\ (k - 1) + 1 = k /\ k - 1 < e
      BY <1>1, <2>1
    <3>2. k - 1 \in S
      BY <2>2, <3>1 DEF Ends
    <3> HIDE DEF S
    <3> QED BY <1>1, <1>3, <2>1, <3>1, <3>2
  <2> HIDE DEF e
  <2> QED BY <2>1, <2>2 DEF Ends
<1>5. /\ j \in i..n /\ Ends(ms, j)
      /\ \A k \in (i + 1)..j : ms[k].role = "tool"
  BY <1>4 DEF ResultsEnd, Ends
<1> HIDE DEF j
<1> DEFINE Is(k) == own[k] = ms[i].calls /\ got[k] = Ids(ms, (i + 1)..k, "tool")
           T == {d \in Nat : i + d <= j => Is(i + d)}
<1>6. \A k \in 1..n : Link(ms, own, got, k)
  BY DEF Chain
<1>7. 0 \in T
  <2>1. (i + 1)..(i + 0) = {}
    BY <1>1
  <2>2. Ids(ms, (i + 1)..(i + 0), "tool") = {}
    BY <2>1 DEF Ids
  <2>3. own[i] = ms[i].calls /\ got[i] = {} /\ i + 0 = i
    BY <1>1, <1>6 DEF Link
  <2> QED BY <2>2, <2>3
<1>8. ASSUME NEW d \in Nat, d \in T PROVE d + 1 \in T
  <2> SUFFICES ASSUME i + (d + 1) <= j PROVE Is(i + (d + 1))
    <3> HIDE DEF Is
    <3> QED OBVIOUS
  <2> DEFINE k == i + (d + 1)
  <2>1. /\ k \in (i + 1)..j /\ k \in 1..n /\ k - 1 = i + d /\ i + d <= j
        /\ (i + 1)..k = (i + 1)..(k - 1) \cup {k}
    BY <1>1, <1>5
  <2>2. Is(k - 1)
    <3> HIDE DEF Is
    <3> QED BY <1>8, <2>1
  <2>3. ms[k].role = "tool" /\ own[k] = own[k - 1] /\ got[k] = got[k - 1] \cup ms[k].calls
    BY <1>5, <1>6, <2>1 DEF Link
  <2> HIDE DEF k
  <2>4. Ids(ms, (i + 1)..k, "tool") = Ids(ms, (i + 1)..(k - 1), "tool") \cup ms[k].calls
    BY <2>1, <2>3 DEF Ids
  <2>5. Is(k)
    BY <2>2, <2>3, <2>4
  <2> QED BY <2>5 DEF k
<1>9. Is(j)
  <2>1. j - i \in T
    <3> HIDE DEF T
    <3>1. Nat \subseteq T
      BY <1>7, <1>8, NaturalInduction
    <3> QED BY <1>1, <1>5, <3>1
  <2>2. i + (j - i) = j
    BY <1>1, <1>5
  <2> HIDE DEF Is
  <2> QED BY <1>1, <1>5, <2>1, <2>2
<1> QED BY <1>5, <1>9 DEF j

\* Calls that are not answered belong to a message with calls, and only results
\* have followed it.
LEMMA OpenCallsAreAsked ==
  ASSUME NEW ms \in Seq(Message), NEW own, NEW got, NEW ids, Chain(ms, own, got, ids),
         NEW j \in 0..Len(ms), own[j] # got[j], Ends(ms, j)
  PROVE  \E i \in 1..j : Asks(ms[i]) /\ ResultsEnd(ms, i) = j
<1> DEFINE n == Len(ms)
           Asked(k) == \/ own[k] = got[k]
                       \/ \E i \in 1..k : Asks(ms[i]) /\ \A m \in (i + 1)..k : ms[m].role = "tool"
           T == {k \in Nat : k <= n => Asked(k)}
<1>1. n \in Nat /\ j \in Nat /\ j <= n /\ \A k \in 1..n : ms[k] \in Message
  BY LenProperties
<1>2. /\ own[0] = got[0] /\ \A k \in 0..n : got[k] \subseteq own[k]
      /\ \A k \in 1..n : Link(ms, own, got, k)
  BY DEF Chain
<1>3. 0 \in T
  BY <1>2
<1>4. ASSUME NEW k \in Nat, k \in T PROVE k + 1 \in T
  <2> SUFFICES ASSUME k + 1 <= n PROVE Asked(k + 1)
    <3> HIDE DEF Asked
    <3> QED OBVIOUS
  <2>1. /\ k + 1 \in 1..n /\ (k + 1) - 1 = k /\ k \in 0..n /\ k <= n
        /\ \A i \in 1..k : i \in 1..(k + 1) /\ (i + 1)..(k + 1) = (i + 1)..k \cup {k + 1}
        /\ k + 1 \in 1..(k + 1) /\ ((k + 1) + 1)..(k + 1) = {}
    BY <1>1
  <2>2. Asked(k)
    <3> HIDE DEF Asked
    <3> QED BY <1>4, <2>1
  <2>3. Link(ms, own, got, k + 1) /\ ms[k + 1] \in Message
    BY <1>1, <1>2, <2>1
  <2>4. CASE ms[k + 1].role = "tool"
    <3>1. CASE own[k] = got[k]
      BY <2>1, <2>3, <2>4, <3>1 DEF Link
    <3>2. CASE own[k] # got[k]
      <4>1. PICK i \in 1..k : Asks(ms[i]) /\ \A m \in (i + 1)..k : ms[m].role = "tool"
        BY <2>2, <3>2
      <4>2. \A m \in (i + 1)..(k + 1) : ms[m].role = "tool"
        BY <2>1, <2>4, <4>1
      <4> QED BY <2>1, <4>1, <4>2
    <3> QED BY <3>1, <3>2
  <2>5. CASE ms[k + 1].role # "tool"
    <3>1. own[k + 1] = ms[k + 1].calls /\ got[k + 1] = {}
          /\ (ms[k + 1].role = "user" => ms[k + 1].calls = {})
      BY <2>3, <2>5 DEF Link
    <3>2. ms[k + 1].calls # {} => Asks(ms[k + 1])
      BY <2>3, <2>5, <3>1 DEF Asks, Message
    <3> QED BY <2>1, <3>1, <3>2
  <2> QED BY <2>4, <2>5
<1>5. Asked(j)
  <2>1. j \in T
    <3> HIDE DEF T
    <3> QED BY <1>1, <1>3, <1>4, NaturalInduction
  <2> HIDE DEF Asked
  <2> QED BY <1>1, <2>1
<1>6. PICK i \in 1..j : Asks(ms[i]) /\ \A m \in (i + 1)..j : ms[m].role = "tool"
  BY <1>5
<1> DEFINE e == ResultsEnd(ms, i)
<1>7. /\ e \in i..n /\ Ends(ms, e) /\ \A m \in (i + 1)..e : ms[m].role = "tool"
  <2>1. i \in 1..n /\ ms[i].role # "tool"
    BY <1>1, <1>6 DEF Asks
  <2> QED BY <2>1, RunIs
<1> HIDE DEF e, n
<1>8. ~(e < j)
  <2> SUFFICES ASSUME e < j PROVE FALSE
    OBVIOUS
  <2>1. e + 1 \in (i + 1)..j /\ e # n
    BY <1>1, <1>7
  <2> QED BY <1>6, <1>7, <2>1 DEF Ends, n
<1>9. ~(j < e)
  <2> SUFFICES ASSUME j < e PROVE FALSE
    OBVIOUS
  <2>1. j + 1 \in (i + 1)..e /\ j # n
    BY <1>1, <1>7
  <2> QED BY <1>7, <2>1 DEF Ends, n
<1>10. e = j
  BY <1>1, <1>7, <1>8, <1>9
<1> QED BY <1>6, <1>10 DEF e

-------------------------------------------------------------------------------
(* What _repair_interrupted_turn makes of a history.                         *)

\* The calls that get a synthetic result are those without one.
LEMMA OpenCallsAreThese ==
  ASSUME NEW ms \in Seq(Message), NEW own, NEW got, NEW ids, Chain(ms, own, got, ids),
         NEW i \in 1..Len(ms), Asks(ms[i]), NEW j, j = ResultsEnd(ms, i)
  PROVE  ms[i].calls \ (Ids(ms, 1..j, "tool") \cup Ids(ms, 1..(i-1), "assistant"))
            = own[j] \ got[j]
<1>1. /\ ms[i].role # "tool"
      /\ Len(ms) \in Nat /\ i \in Nat /\ 1 <= i /\ i <= Len(ms)
  BY LenProperties DEF Asks
<1>2. j \in i..Len(ms) /\ own[j] = ms[i].calls /\ got[j] = Ids(ms, (i + 1)..j, "tool")
  BY <1>1, RunIs
<1>3. \A k \in 1..Len(ms) : Link(ms, own, got, k)
  BY DEF Chain
<1>4. \A k \in 0..(i - 1) : ms[i].calls \cap own[k] = {}
  BY <1>1, <1>3 DEF Link
<1>5. ASSUME NEW x \in ms[i].calls, x \in Ids(ms, 1..j, "tool") PROVE x \in got[j]
  <2>1. PICK k \in 1..j : ms[k].role = "tool" /\ x \in ms[k].calls
    BY <1>5 DEF Ids
  <2>2. CASE k < i
    <3>1. k \in 1..Len(ms) /\ k - 1 \in 0..(i - 1)
      BY <1>1, <2>2
    <3>2. x \in own[k - 1]
      BY <1>3, <2>1, <3>1 DEF Link
    <3> QED BY <1>4, <1>5, <3>1, <3>2
  <2>3. CASE ~(k < i)
    <3>1. k \in (i + 1)..j
      BY <1>1, <1>2, <2>1, <2>3
    <3> QED BY <1>2, <2>1, <3>1 DEF Ids
  <2> QED BY <2>2, <2>3
<1>6. ASSUME NEW x \in ms[i].calls, x \in Ids(ms, 1..(i-1), "assistant") PROVE FALSE
  <2>1. PICK k \in 1..(i - 1) : ms[k].role = "assistant" /\ x \in ms[k].calls
    BY <1>6 DEF Ids
  <2>2. k \in 1..Len(ms) /\ k \in 0..(i - 1)
    BY <1>1
  <2>3. own[k] = ms[k].calls
    BY <1>3, <2>1, <2>2 DEF Link
  <2> QED BY <1>4, <1>6, <2>1, <2>2, <2>3
<1>7. Ids(ms, (i + 1)..j, "tool") \subseteq Ids(ms, 1..j, "tool")
  <2>1. \A k \in (i + 1)..j : k \in 1..j
    BY <1>1, <1>2
  <2> QED BY <2>1 DEF Ids
<1> QED BY <1>2, <1>5, <1>6, <1>7

\* h has come of the first j messages of a history.
Stands(h, ids, own, j, answered) ==
    \E o, g :
        /\ Whole(h, o, g, ids)
        /\ o[Len(h)] = own[j] /\ g[Len(h)] = answered
        /\ \A i \in 0..Len(h) : \E k \in 0..j : o[i] = own[k]

\* What is answered once the results after message j are complete.
Mended(ms, own, got, j) == IF Ends(ms, j) THEN own[j] ELSE got[j]

LEMMA MessageFollows ==
  ASSUME NEW ms \in Seq(Message), NEW own, NEW got, NEW ids, Chain(ms, own, got, ids),
         NEW j \in 1..Len(ms), NEW h \in Seq(Message),
         Stands(h, ids, own, j - 1, Mended(ms, own, got, j - 1))
  PROVE  Stands(h \o <<ms[j]>>, ids, own, j, got[j])
<1>1. PICK o, g : /\ Whole(h, o, g, ids) /\ Chain(h, o, g, ids)
                  /\ o[Len(h)] = own[j - 1] /\ g[Len(h)] = Mended(ms, own, got, j - 1)
                  /\ \A i \in 0..Len(h) : \E k \in 0..(j - 1) : o[i] = own[k]
  BY DEF Stands, Whole
<1> DEFINE m == ms[j]
           q == <<m>>
<1>2. /\ Len(ms) \in Nat /\ j - 1 \in 0..(j - 1) /\ \A k \in 0..(j - 1) : k \in 0..j
      /\ j \in 0..j /\ (j - 1) + 1 = j /\ j - 1 # Len(ms) /\ j \in 0..Len(ms)
  BY LenProperties
<1>3. m \in Message /\ Link(ms, own, got, j) /\ own[j] \subseteq ids
  BY <1>2 DEF Chain
<1>4. q \in Seq(Message) /\ Len(q) = 1 /\ \A k \in 1..Len(q) : q[k] = m
  BY <1>3
<1>5. CallsOf(q) = m.calls
  BY <1>4 DEF CallsOf
<1>6. Len(h \o q) = Len(h) + 1
  <2> HIDE DEF q
  <2>1. h \in Seq(Message) /\ q \in Seq(Message)
    BY <1>4
  <2>2. Len(h \o q) = Len(h) + Len(q)
    BY ONLY <2>1, ConcatProperties
  <2> QED BY <1>4, <2>2
<1>7. Ends(ms, j - 1) <=> m.role # "tool"
  BY <1>2 DEF Ends
<1> HIDE DEF q
<1>8. CASE m.role = "tool"
  <2>1. /\ own[j - 1] # {} /\ m.calls \subseteq own[j - 1]
        /\ own[j] = own[j - 1] /\ got[j] = got[j - 1] \cup m.calls
        /\ g[Len(h)] = got[j - 1]
    BY <1>1, <1>3, <1>7, <1>8 DEF Link, Mended
  <2>2. \A k \in 1..Len(q) : q[k].role = "tool" /\ q[k].calls \subseteq o[Len(h)]
    BY <1>1, <1>4, <1>8, <2>1
  <2>3. PICK o2, g2 :
            /\ Whole(h \o q, o2, g2, ids)
            /\ \A i \in 0..Len(h \o q) : \E k \in 0..Len(h) : o2[i] = o[k]
            /\ o2[Len(h \o q)] = o[Len(h)]
            /\ g2[Len(h \o q)] = g[Len(h)] \cup CallsOf(q)
    <3>1. o[Len(h)] # {}
      BY <1>1, <2>1
    <3> HIDE DEF m
    <3>2. \E o2, g2 : WithResults(h, o, g, ids, q, o2, g2)
      <4>1. /\ h \in Seq(Message) /\ q \in Seq(Message) /\ Chain(h, o, g, ids)
            /\ \A k \in 1..Len(q) : q[k].role = "tool" /\ q[k].calls \subseteq o[Len(h)]
            /\ q # <<>> => o[Len(h)] # {}
        BY <1>1, <1>4, <2>2, <3>1
      <4> QED BY ONLY <4>1, ResultsFollow
    <3> QED BY <1>1, <3>2 DEF WithResults
  <2>4. o2[Len(h \o q)] = own[j] /\ g2[Len(h \o q)] = got[j]
    BY <1>1, <1>5, <2>1, <2>3
  <2>5. \A i \in 0..Len(h \o q) : \E k \in 0..j : o2[i] = own[k]
    BY <1>1, <1>2, <2>3
  <2> QED BY <2>3, <2>4, <2>5 DEF Stands, q
<1>9. CASE m.role # "tool"
  <2>1. /\ m.role = "user" => m.calls = {}
        /\ own[j] = m.calls /\ got[j] = {}
        /\ \A k \in 0..(j - 1) : m.calls \cap own[k] = {}
        /\ g[Len(h)] = own[j - 1]
    BY <1>1, <1>3, <1>7, <1>9 DEF Link, Mended
  <2>2. m.calls \subseteq ids /\ \A k \in 0..Len(h) : m.calls \cap o[k] = {}
    BY <1>1, <1>3, <2>1
  <2>3. PICK o2, g2 :
            /\ Whole(h \o q, o2, g2, ids)
            /\ \A i \in 0..(Len(h) + 1) : o2[i] = m.calls \/ \E k \in 0..Len(h) : o2[i] = o[k]
            /\ o2[Len(h) + 1] = m.calls /\ g2[Len(h) + 1] = {}
    <3> HIDE DEF m
    <3>1. \E o2, g2 : WithWords(h, o, g, ids, m, o2, g2)
      <4>1. /\ h \in Seq(Message) /\ Chain(h, o, g, ids) /\ m \in Message /\ m.role # "tool"
            /\ m.role = "user" => m.calls = {}
            /\ m.calls \subseteq ids /\ \A k \in 0..Len(h) : m.calls \cap o[k] = {}
        BY <1>1, <1>3, <1>9, <2>1, <2>2
      <4> QED BY ONLY <4>1, WordFollows
    <3> QED BY <1>1, <2>1, <3>1 DEF q, WithWords
  <2>4. \A i \in 0..(Len(h) + 1) : \E k \in 0..j : o2[i] = own[k]
    BY <1>1, <1>2, <2>1, <2>3
  <2> QED BY <1>6, <2>1, <2>3, <2>4 DEF Stands, q
<1> QED BY <1>8, <1>9

\* The synthetic results after message j.
Added(ms, j) ==
    LET Answered(i) == Ids(ms, 1..ResultsEnd(ms, i), "tool")
                       \cup Ids(ms, 1..(i-1), "assistant")
        Asker == {i \in 1..j : Asks(ms[i]) /\ ResultsEnd(ms, i) = j}
        Synthetic(i) == Results(ms[i].turn, ms[i].calls \ Answered(i))
    IN  IF Asker = {} THEN <<>> ELSE Synthetic(CHOOSE i \in Asker : TRUE)

LEMMA AddedFollow ==
  ASSUME NEW ms \in Seq(Message), NEW own, NEW got, NEW ids, Chain(ms, own, got, ids),
         NEW j \in 1..Len(ms), NEW h \in Seq(Message), Stands(h, ids, own, j, got[j])
  PROVE  /\ Added(ms, j) \in Seq(Message)
         /\ Stands(h \o Added(ms, j), ids, own, j, Mended(ms, own, got, j))
<1> DEFINE Asker == {i \in 1..j : Asks(ms[i]) /\ ResultsEnd(ms, i) = j}
           a == CHOOSE i \in Asker : TRUE
           open == ms[a].calls \ (Ids(ms, 1..ResultsEnd(ms, a), "tool")
                                  \cup Ids(ms, 1..(a-1), "assistant"))
           q == Added(ms, j)
<1>0. Len(ms) \in Nat /\ j \in 0..Len(ms) /\ \A i \in 1..j : i \in 1..Len(ms)
  BY LenProperties
<1>1. q = IF Asker = {} THEN <<>> ELSE Results(ms[a].turn, open)
  BY DEF Added
<1>2. got[j] \subseteq own[j]
  BY <1>0 DEF Chain
<1> HIDE DEF q, a
<1>3. CASE Asker = {}
  <2>1. q = <<>> /\ q \in Seq(Message) /\ h \o q = h
    <3>1. q = <<>>
      BY <1>1, <1>3
    <3> QED BY <3>1, EmptySeq, ConcatEmptySeq
  <2>2. Ends(ms, j) => own[j] = got[j]
    BY <1>0, <1>3, OpenCallsAreAsked
  <2> QED BY <2>1, <2>2 DEF Mended, q
<1>4. CASE Asker # {}
  <2>1. a \in 1..j /\ Asks(ms[a]) /\ ResultsEnd(ms, a) = j /\ a \in 1..Len(ms)
    BY <1>0, <1>4 DEF a
  <2>2. open = own[j] \ got[j]
    BY <2>1, OpenCallsAreThese
  <2>3. ms[a].role # "tool" /\ ms[a] \in Message
    BY <2>1 DEF Asks
  <2>4. Ends(ms, j) /\ own[j] = ms[a].calls
    BY <2>1, <2>3, RunIs
  <2>5. open \in SUBSET CallId /\ IsFiniteSet(open) /\ ms[a].turn \in Requests
    <3>1. ms[a].calls \in SUBSET CallId /\ IsFiniteSet(ms[a].calls) /\ ms[a].turn \in Requests
      BY <2>3 DEF Message
    <3> QED BY <3>1, FS_Subset
  <2> HIDE DEF open
  <2>6. q = Results(ms[a].turn, open)
    BY <1>1, <1>4
  <2>7. /\ q \in Seq(Message)
        /\ \A k \in 1..Len(q) : q[k].role = "tool" /\ q[k].calls \subseteq open
        /\ CallsOf(q) = open
        /\ q # <<>> => open # {}
    <3>1. ms[a].turn \in Requests /\ open \in SUBSET CallId /\ IsFiniteSet(open)
      BY <2>5
    <3> QED BY ONLY <2>6, <3>1, ResultsAre
  <2>8. PICK o, g : /\ Whole(h, o, g, ids) /\ Chain(h, o, g, ids)
                    /\ o[Len(h)] = own[j] /\ g[Len(h)] = got[j]
                    /\ \A i \in 0..Len(h) : \E k \in 0..j : o[i] = own[k]
    BY DEF Stands, Whole
  <2>9. /\ \A k \in 1..Len(q) : q[k].role = "tool" /\ q[k].calls \subseteq o[Len(h)]
        /\ q # <<>> => o[Len(h)] # {}
    BY <2>2, <2>7, <2>8
  <2>10. \E o2, g2 : WithResults(h, o, g, ids, q, o2, g2)
    <3>1. h \in Seq(Message) /\ q \in Seq(Message) /\ Chain(h, o, g, ids)
      BY <2>7, <2>8
    <3> QED BY ONLY <2>9, <3>1, ResultsFollow
  <2>11. got[j] \cup open = own[j]
    BY <1>2, <2>2
  <2>12. Stands(h \o q, ids, own, j, own[j])
    <3>1. PICK o2, g2 :
            /\ Whole(h \o q, o2, g2, ids)
            /\ \A i \in 0..Len(h \o q) : \E k \in 0..Len(h) : o2[i] = o[k]
            /\ o2[Len(h \o q)] = own[j]
            /\ g2[Len(h \o q)] = own[j]
      BY <2>7, <2>8, <2>10, <2>11 DEF WithResults
    <3>2. \A i \in 0..Len(h \o q) : \E k \in 0..j : o2[i] = own[k]
      BY <2>8, <3>1
    <3> QED BY <3>1, <3>2 DEF Stands
  <2> QED BY <2>4, <2>7, <2>12 DEF Mended, q
<1> QED BY <1>3, <1>4

\* h[j] is what the first j sequences make, one after the other.
Stages(h, seqs, n, A) ==
    /\ h[0] = <<>> /\ h[n] = FlattenSeq(seqs)
    /\ \A j \in 0..n : h[j] \in Seq(A)
    /\ \A j \in 1..n : h[j] = h[j - 1] \o seqs[j]

LEMMA FlattenIs ==
  ASSUME NEW A, NEW n \in Nat, NEW seqs \in [1..n -> Seq(A)]
  PROVE  \E h : Stages(h, seqs, n, A)
<1>0. Len(seqs) = n
  OBVIOUS
<1>1. CASE n = 0
  <2>1. seqs = <<>> /\ FlattenSeq(seqs) = <<>>
    BY <1>0, <1>1 DEF FlattenSeq
  <2> DEFINE h == [j \in 0..0 |-> <<>>]
  <2>2. h[0] = <<>> /\ <<>> \in Seq(A)
    BY EmptySeq
  <2> HIDE DEF h
  <2>3. \A j \in 0..n : j = 0
    BY <1>1
  <2>4. \A j \in 1..n : FALSE
    BY <1>1
  <2> QED BY <1>1, <2>1, <2>2, <2>3, <2>4 DEF Stages
<1>2. CASE n # 0
  <2> DEFINE f == CHOOSE g : Joins(g, seqs, n)
             h == [j \in 0..n |-> IF j = 0 THEN <<>> ELSE f[j]]
  <2>1. FlattenSeq(seqs) = f[n]
    BY <1>0, <1>2, Zenon DEF FlattenSeq, Joins
  <2>2. Joins(f, seqs, n)
    BY JoinsExist, Zenon
  <2> HIDE DEF f
  <2>3. \A j \in 1..n : f[j] = IF j = 1 THEN seqs[j] ELSE f[j-1] \o seqs[j]
    BY <2>2, Zenon DEF Joins
  <2>4. \A j \in 1..n : f[j] \in Seq(A)
    BY <2>2, JoinsKeep
  <2>5. h[0] = <<>> /\ \A j \in 1..n : h[j] = f[j]
    OBVIOUS
  <2> HIDE DEF h
  <2>6. \A j \in 0..n : h[j] \in Seq(A)
    <3>1. \A j \in 0..n : j = 0 \/ j \in 1..n
      OBVIOUS
    <3> QED BY <2>4, <2>5, <3>1, EmptySeq
  <2>7. ASSUME NEW j \in 1..n PROVE h[j] = h[j - 1] \o seqs[j]
    <3>1. CASE j = 1
      <4>1. h[j - 1] = <<>> /\ h[j] = seqs[j] /\ seqs[j] \in Seq(A)
        BY <2>3, <2>5, <3>1
      <4>2. <<>> \o seqs[j] = seqs[j]
        BY <4>1, ConcatEmptySeq
      <4> QED BY <4>1, <4>2
    <3>2. CASE j # 1
      <4>1. j - 1 \in 1..n
        BY <3>2
      <4> QED BY <2>3, <2>5, <3>2, <4>1
    <3> QED BY <3>1, <3>2
  <2>8. h[n] = FlattenSeq(seqs)
    BY <1>2, <2>1, <2>5
  <2> QED BY <2>5, <2>6, <2>7, <2>8 DEF Stages
<1> QED BY <1>1, <1>2

\* The history a turn begins with is complete.
LEMMA RepairIsWhole ==
  ASSUME NEW ms \in Seq(Message), NEW own, NEW got, NEW ids, Chain(ms, own, got, ids)
  PROVE  LET rs == Repair(ms)
         IN  /\ \E o, g : Whole(rs, o, g, ids) /\ o[Len(rs)] = g[Len(rs)]
             /\ rs \in Seq(Message) /\ Len(rs) >= Len(ms)
             /\ IF Len(ms) = 0 THEN rs = <<>> ELSE rs[1] = ms[1]
<1> DEFINE n == Len(ms)
           parts == [j \in 1..n |-> <<ms[j]>> \o Added(ms, j)]
<1>1. n \in Nat /\ \A j \in 1..n : ms[j] \in Message
  BY LenProperties
<1>2. Repair(ms) = FlattenSeq(parts)
  BY DEF Repair, Added
<1>3. ASSUME NEW j \in 1..n
      PROVE  Added(ms, j) \in Seq(Message)
  <2> DEFINE Asker == {i \in 1..j : Asks(ms[i]) /\ ResultsEnd(ms, i) = j}
             a == CHOOSE i \in Asker : TRUE
             open == ms[a].calls \ (Ids(ms, 1..ResultsEnd(ms, a), "tool")
                                    \cup Ids(ms, 1..(a-1), "assistant"))
  <2>1. Added(ms, j) = IF Asker = {} THEN <<>> ELSE Results(ms[a].turn, open)
    BY DEF Added
  <2>2. Asker # {} => a \in 1..n
    BY <1>1
  <2>3. Asker # {} => /\ ms[a].calls \in SUBSET CallId /\ IsFiniteSet(ms[a].calls)
                      /\ ms[a].turn \in Requests
    BY <1>1, <2>2 DEF Message
  <2>4. Asker # {} => open \in SUBSET CallId /\ IsFiniteSet(open)
    BY <2>3, FS_Subset
  <2> HIDE DEF Asker, a, open
  <2> QED BY <2>1, <2>3, <2>4, ResultsType, EmptySeq
<1>4. ASSUME NEW j \in 1..n
      PROVE  /\ <<ms[j]>> \in Seq(Message) /\ parts[j] = <<ms[j]>> \o Added(ms, j)
             /\ parts[j] \in Seq(Message)
  <2>1. <<ms[j]>> \in Seq(Message)
    BY <1>1
  <2> QED BY <1>3, <2>1, ConcatProperties
<1>5. parts \in [1..n -> Seq(Message)]
  BY <1>4
<1> HIDE DEF parts, n
<1>6. PICK h : /\ h[0] = <<>> /\ h[n] = FlattenSeq(parts)
               /\ \A j \in 0..n : h[j] \in Seq(Message)
               /\ \A j \in 1..n : h[j] = h[j - 1] \o parts[j]
  <2>1. \E h : Stages(h, parts, n, Message)
    BY <1>1, <1>5, FlattenIs
  <2> QED BY <2>1 DEF Stages
<1> DEFINE Good(j) == /\ Stands(h[j], ids, own, j, Mended(ms, own, got, j))
                      /\ Len(h[j]) >= j /\ (j > 0 => h[j][1] = ms[1])
           T == {j \in Nat : j <= n => Good(j)}
<1>7. 0 \in T
  <2> DEFINE o == [i \in 0..0 |-> own[0]]
  <2>1. o[0] = own[0] /\ \A i \in 0..0 : i = 0
    OBVIOUS
  <2> HIDE DEF o
  <2>2. own[0] = got[0] /\ got[0] \subseteq own[0] /\ own[0] \subseteq ids
    BY <1>1 DEF Chain, n
  <2>3. Len(<<>>) = 0
    OBVIOUS
  <2>4. Whole(<<>>, o, o, ids)
    BY <2>1, <2>2, <2>3 DEF Whole, Chain
  <2>5. Stands(<<>>, ids, own, 0, own[0])
    BY <2>1, <2>3, <2>4 DEF Stands
  <2>6. Mended(ms, own, got, 0) = own[0]
    BY <2>2 DEF Mended
  <2>7. Good(0)
    BY <1>6, <2>3, <2>5, <2>6
  <2> HIDE DEF Good
  <2> QED BY <2>7
<1>8. ASSUME NEW k \in Nat, k \in T PROVE k + 1 \in T
  <2> SUFFICES ASSUME k + 1 <= n PROVE Good(k + 1)
    <3> HIDE DEF Good
    <3> QED OBVIOUS
  <2> DEFINE j == k + 1
             q == <<ms[j]>>
             a == Added(ms, j)
             p == h[k]
  <2>1. j \in 1..n /\ j - 1 = k /\ k \in 0..n /\ j \in 0..n /\ k <= n /\ j > 0
    BY <1>1
  <2>2. Good(k)
    <3> HIDE DEF Good
    <3> QED BY <1>8, <2>1
  <2>3. /\ p \in Seq(Message) /\ q \in Seq(Message) /\ a \in Seq(Message)
        /\ h[j] = p \o (q \o a)
    <3> HIDE DEF a, p, q
    <3>1. p \in Seq(Message)
      BY <1>6, <2>1 DEF p
    <3>2. q \in Seq(Message) /\ parts[j] = q \o a /\ a \in Seq(Message)
      BY <1>3, <1>4, <2>1 DEF q, a
    <3>3. h[j] = p \o parts[j]
      BY <1>6, <2>1 DEF p
    <3> QED BY <3>1, <3>2, <3>3
  <2>4. Len(q) = 1 /\ q[1] = ms[j]
    OBVIOUS
  <2>5. Stands(p \o q, ids, own, j, got[j])
    <3>1. j \in 1..Len(ms) /\ Stands(p, ids, own, j - 1, Mended(ms, own, got, j - 1))
      BY <2>1, <2>2 DEF n
    <3> HIDE DEF p, j
    <3> QED BY <2>3, <3>1, MessageFollows
  <2> HIDE DEF p, q, a
  <2>6. /\ p \o q \in Seq(Message) /\ Len(p \o q) = Len(p) + 1 /\ Len(p) \in Nat
        /\ \A i \in 1..(Len(p) + 1) : (p \o q)[i] = IF i <= Len(p) THEN p[i] ELSE q[i - Len(p)]
    <3>1. /\ p \o q \in Seq(Message) /\ Len(p \o q) = Len(p) + Len(q) /\ Len(p) \in Nat
          /\ \A i \in 1..(Len(p) + Len(q)) : (p \o q)[i] = IF i <= Len(p) THEN p[i] ELSE q[i - Len(p)]
      BY <2>3, ConcatProperties, LenProperties
    <3> QED BY <2>4, <3>1
  <2>7. h[j] = (p \o q) \o a
    BY <2>3, ConcatAssociative
  <2>8. Stands((p \o q) \o a, ids, own, j, Mended(ms, own, got, j))
    BY <2>1, <2>5, <2>6, AddedFollow DEF a, n
  <2>9. Len(h[j]) >= j /\ h[j][1] = (p \o q)[1]
    <3> DEFINE u == p \o q
    <3>1. u \in Seq(Message) /\ Len(u) \in Nat /\ Len(u) >= 1
      BY <2>6
    <3> HIDE DEF u
    <3>2. /\ Len(u \o a) = Len(u) + Len(a) /\ Len(a) \in Nat
          /\ \A i \in 1..(Len(u) + Len(a)) : (u \o a)[i] = IF i <= Len(u) THEN u[i] ELSE a[i - Len(u)]
      BY <2>3, <3>1, ConcatProperties, LenProperties
    <3>3. (u \o a)[1] = u[1]
      BY <3>1, <3>2
    <3>4. Len(u) = Len(p) + 1 /\ Len(p) >= k
      BY <2>2, <2>6 DEF u, p
    <3> QED BY <2>1, <2>6, <2>7, <3>1, <3>2, <3>3, <3>4 DEF u
  <2>10. (p \o q)[1] = ms[1]
    <3>1. CASE k = 0
      <4>1. Len(p) = 0
        BY <1>6, <3>1 DEF p
      <4>2. 1 \in 1..(Len(p) + 1) /\ ~(1 <= Len(p)) /\ 1 - Len(p) = 1 /\ j = 1
        BY <3>1, <4>1 DEF j
      <4>3. (p \o q)[1] = q[1]
        BY <2>6, <4>2
      <4> QED BY <2>4, <4>2, <4>3
    <3>2. CASE k # 0
      <4>1. Len(p) >= k /\ p[1] = ms[1]
        BY <2>2, <3>2 DEF p
      <4>2. 1 \in 1..(Len(p) + 1) /\ 1 <= Len(p)
        BY <2>6, <3>2, <4>1
      <4> QED BY <2>6, <4>1, <4>2
    <3> QED BY <3>1, <3>2
  <2> HIDE DEF j
  <2>11. Good(j)
    BY <2>1, <2>7, <2>8, <2>9, <2>10
  <2> QED BY <2>11 DEF j
<1>9. Good(n)
  <2>1. n \in T
    <3> HIDE DEF T
    <3> QED BY <1>1, <1>7, <1>8, NaturalInduction
  <2> HIDE DEF Good
  <2> QED BY <1>1, <2>1
<1>10. h[n] = Repair(ms) /\ h[n] \in Seq(Message) /\ Mended(ms, own, got, n) = own[n]
  BY <1>1, <1>2, <1>6 DEF Mended, Ends, n
<1>11. \E o, g : Whole(h[n], o, g, ids) /\ o[Len(h[n])] = g[Len(h[n])]
  BY <1>9, <1>10 DEF Stands
<1>12. Len(h[n]) >= n /\ (n > 0 => h[n][1] = ms[1])
  BY <1>9
<1>13. n = 0 => h[n] = <<>>
  BY <1>6
<1> QED BY <1>1, <1>10, <1>11, <1>12, <1>13 DEF n

-------------------------------------------------------------------------------
(* What anthropic_messages makes of a complete history.                      *)

Blocks == [role : {"user", "assistant"}, uses : SUBSET CallId, results : SUBSET CallId]

\* w[k] is made of the first k messages.
Wires(w, ms, n) == w = [k \in 0..n |-> IF k = 0 THEN <<>> ELSE AddBlock(w[k - 1], Block(ms[k]))]

LEMMA WiresExist ==
  ASSUME NEW ms, NEW n \in Nat
  PROVE  \E w : Wires(w, ms, n)
<1> DEFINE T == {m \in Nat : \E w : Wires(w, ms, m)}
<1>1. 0 \in T
  <2> DEFINE w == [k \in 0..0 |-> <<>>]
  <2>1. w = [k \in 0..0 |-> w[k]] /\ \A k \in 0..0 : k = 0 /\ w[k] = <<>>
    OBVIOUS
  <2> HIDE DEF w
  <2>2. w = [k \in 0..0 |-> IF k = 0 THEN <<>> ELSE AddBlock(w[k - 1], Block(ms[k]))]
    BY <2>1
  <2> QED BY <2>2 DEF Wires
<1>2. ASSUME NEW m \in Nat, m \in T PROVE m + 1 \in T
  <2>1. PICK w : Wires(w, ms, m)
    BY <1>2
  <2> DEFINE v == [k \in 0..(m + 1) |-> IF k = m + 1 THEN AddBlock(w[m], Block(ms[m + 1])) ELSE w[k]]
  <2>2. \A k \in 0..m : w[k] = IF k = 0 THEN <<>> ELSE AddBlock(w[k - 1], Block(ms[k]))
    BY <2>1, Zenon DEF Wires
  <2>3. ASSUME NEW k \in 0..(m + 1)
        PROVE  v[k] = IF k = 0 THEN <<>> ELSE AddBlock(v[k - 1], Block(ms[k]))
    <3>1. CASE k = m + 1
      <4>1. k # 0 /\ k - 1 = m /\ m \in 0..(m + 1) /\ m # m + 1
        BY <3>1
      <4>2. v[k - 1] = w[m] /\ v[k] = AddBlock(w[m], Block(ms[k]))
        BY <3>1, <4>1
      <4> QED BY <4>1, <4>2
    <3>2. CASE k # m + 1
      <4>1. k \in 0..m /\ v[k] = w[k] /\ (k # 0 => v[k - 1] = w[k - 1])
        BY <3>2
      <4> QED BY <2>2, <4>1
    <3> QED BY <3>1, <3>2
  <2>4. v = [k \in 0..(m + 1) |-> v[k]]
    OBVIOUS
  <2> HIDE DEF v
  <2>5. v = [k \in 0..(m + 1) |-> IF k = 0 THEN <<>> ELSE AddBlock(v[k - 1], Block(ms[k]))]
    BY <2>3, <2>4
  <2>6. Wires(v, ms, m + 1)
    BY <2>5 DEF Wires
  <2> QED BY <2>6
<1> HIDE DEF T
<1>3. n \in T
  BY <1>1, <1>2, NaturalInduction
<1> QED BY <1>3 DEF T

\* The calls of each block are answered in the next one, but for those of the last
\* answer of the model, of which some are open.
Fits(W, open) ==
    /\ W \in Seq(Blocks) /\ Len(W) >= 1 /\ W[1].role = "user"
    /\ \A i \in 1..Len(W) : W[i].role = "user" => W[i].uses = {}
    /\ \A i \in 1..(Len(W) - 1) :
          \/ W[i].uses \subseteq W[i + 1].results
          \/ /\ i + 1 = Len(W) /\ W[i + 1].role = "user"
             /\ W[i].uses \subseteq W[i + 1].results \cup open
    /\ W[Len(W)].role = "assistant" => W[Len(W)].uses \subseteq open

LEMMA BlockFits ==
  ASSUME NEW W, NEW open, Fits(W, open), NEW b \in Blocks, NEW open2,
         b.role = "user" => b.uses = {} /\ open \subseteq b.results \cup open2,
         b.role = "assistant" => open = {} /\ b.uses \subseteq open2
  PROVE  Fits(AddBlock(W, b), open2)
<1> DEFINE n == Len(W)
           V == AddBlock(W, b)
<1>1. /\ W \in Seq(Blocks) /\ n \in Nat /\ n >= 1 /\ \A i \in 1..n : W[i] \in Blocks
      /\ n \in 1..n /\ 1 \in 1..n
  BY LenProperties DEF Fits
<1>2. /\ W[1].role = "user"
      /\ \A i \in 1..n : W[i].role = "user" => W[i].uses = {}
      /\ \A i \in 1..(n - 1) :
            \/ W[i].uses \subseteq W[i + 1].results
            \/ /\ i + 1 = n /\ W[i + 1].role = "user"
               /\ W[i].uses \subseteq W[i + 1].results \cup open
      /\ W[n].role = "assistant" => W[n].uses \subseteq open
  BY DEF Fits
<1>3. Last(W) = W[n] /\ W # <<>>
  BY <1>1, EmptySeq DEF Last
<1>4. b.role \in {"user", "assistant"} /\ W[n].role \in {"user", "assistant"}
  BY <1>1 DEF Blocks
<1>5. CASE W[n].role = b.role
  <2> DEFINE c == Merged(W[n], b)
  <2>1. V = [W EXCEPT ![n] = c]
    BY <1>3, <1>5 DEF AddBlock
  <2>2. /\ c \in Blocks /\ c.role = b.role
        /\ c.uses = W[n].uses \cup b.uses /\ c.results = W[n].results \cup b.results
    BY <1>1, <1>5 DEF Blocks, Merged
  <2> HIDE DEF c
  <2>3. V \in Seq(Blocks) /\ Len(V) = n /\ V[n] = c /\ \A i \in 1..n : i # n => V[i] = W[i]
    <3> HIDE DEF V
    <3> QED BY <1>1, <2>1, <2>2, ExceptSeq
  <2> HIDE DEF V, n
  <2>4. V[1].role = "user"
    <3>1. 1 = n \/ 1 # n
      OBVIOUS
    <3> QED BY <1>1, <1>2, <1>5, <2>2, <2>3
  <2>5. \A i \in 1..n : V[i].role = "user" => V[i].uses = {}
    BY <1>1, <1>2, <1>5, <2>2, <2>3
  <2>6. ASSUME NEW i \in 1..(n - 1)
        PROVE  \/ V[i].uses \subseteq V[i + 1].results
               \/ /\ i + 1 = n /\ V[i + 1].role = "user"
                  /\ V[i].uses \subseteq V[i + 1].results \cup open2
    <3>1. i \in 1..n /\ i # n /\ i + 1 \in 1..n
      BY <1>1
    <3>2. V[i] = W[i]
      BY <2>3, <3>1
    <3>3. CASE i + 1 = n
      <4>1. V[i + 1].results = W[i + 1].results \cup b.results /\ V[i + 1].role = b.role
            /\ W[i + 1].role = b.role
        BY <1>5, <2>2, <2>3, <3>3
      <4>2. CASE W[i].uses \subseteq W[i + 1].results
        BY <3>2, <4>1, <4>2
      <4>3. CASE W[i + 1].role = "user" /\ W[i].uses \subseteq W[i + 1].results \cup open
        BY <3>2, <3>3, <4>1, <4>3
      <4> QED BY <1>2, <4>2, <4>3
    <3>4. CASE i + 1 # n
      <4>1. V[i + 1] = W[i + 1]
        BY <2>3, <3>1, <3>4
      <4> QED BY <1>2, <3>2, <3>4, <4>1
    <3> QED BY <3>3, <3>4
  <2>7. V[n].role = "assistant" => V[n].uses \subseteq open2
    BY <1>2, <1>5, <2>2, <2>3
  <2> QED BY <1>1, <2>3, <2>4, <2>5, <2>6, <2>7 DEF Fits, V
<1>6. CASE W[n].role # b.role
  <2>1. V = Append(W, b)
    BY <1>3, <1>6 DEF AddBlock
  <2>2. /\ V \in Seq(Blocks) /\ Len(V) = n + 1 /\ V[n + 1] = b
        /\ \A i \in 1..n : V[i] = W[i]
    <3> HIDE DEF V
    <3> QED BY <1>1, <2>1, AppendProperties
  <2> HIDE DEF V, n
  <2>3. \A i \in 1..(n + 1) : i \in 1..n \/ i = n + 1
    BY <1>1
  <2>4. V[1].role = "user"
    BY <1>1, <1>2, <2>2
  <2>5. \A i \in 1..(n + 1) : V[i].role = "user" => V[i].uses = {}
    BY <1>2, <2>2, <2>3
  <2>6. ASSUME NEW i \in 1..n
        PROVE  \/ V[i].uses \subseteq V[i + 1].results
               \/ /\ i + 1 = n + 1 /\ V[i + 1].role = "user"
                  /\ V[i].uses \subseteq V[i + 1].results \cup open2
    <3>1. CASE i = n
      <4>1. V[i] = W[n] /\ V[i + 1] = b
        BY <1>1, <2>2, <3>1
      <4>2. CASE b.role = "user"
        <5>1. W[n].role = "assistant" /\ W[n].uses \subseteq open
          BY <1>2, <1>4, <1>6, <4>2
        <5> QED BY <3>1, <4>1, <4>2, <5>1
      <4>3. CASE b.role = "assistant"
        <5>1. W[n].uses = {}
          BY <1>1, <1>2, <1>4, <1>6, <4>3
        <5> QED BY <4>1, <5>1
      <4> QED BY <1>4, <4>2, <4>3
    <3>2. CASE i # n
      <4>1. i \in 1..(n - 1) /\ i + 1 \in 1..n
        BY <1>1, <3>2
      <4>2. V[i] = W[i] /\ V[i + 1] = W[i + 1]
        BY <2>2, <4>1
      <4>3. CASE W[i].uses \subseteq W[i + 1].results
        BY <4>2, <4>3
      <4>4. CASE /\ i + 1 = n /\ W[i + 1].role = "user"
                 /\ W[i].uses \subseteq W[i + 1].results \cup open
        <5>1. b.role = "assistant" /\ open = {}
          BY <1>4, <1>6, <4>4
        <5> QED BY <4>2, <4>4, <5>1
      <4> QED BY <1>2, <4>1, <4>3, <4>4
    <3> QED BY <3>1, <3>2
  <2>7. V[n + 1].role = "assistant" => V[n + 1].uses \subseteq open2
    BY <2>2
  <2>8. (n + 1) - 1 = n /\ n + 1 >= 1
    BY <1>1
  <2> QED BY <2>2, <2>4, <2>5, <2>6, <2>7, <2>8 DEF Fits, V
<1> QED BY <1>5, <1>6

\* The blocks fit as long as the history is complete up to its last answer.
LEMMA WireFits ==
  ASSUME NEW ms \in Seq(Message), NEW own, NEW got, NEW ids, Whole(ms, own, got, ids),
         Len(ms) > 0, ms[1].role = "user"
  PROVE  Fits(Wire(ms), own[Len(ms)] \ got[Len(ms)])
<1> DEFINE n == Len(ms)
           w == CHOOSE v : Wires(v, ms, n)
<1>1. n \in Nat /\ n > 0 /\ \A k \in 1..n : ms[k] \in Message
  BY LenProperties
<1>2. Wire(ms) = w[n]
  BY Zenon DEF Wire, Wires
<1>3. Wires(w, ms, n)
  BY <1>1, WiresExist, Zenon
<1> HIDE DEF w
<1>4. \A k \in 0..n : w[k] = IF k = 0 THEN <<>> ELSE AddBlock(w[k - 1], Block(ms[k]))
  BY <1>3, Zenon DEF Wires
<1>5. ASSUME NEW k \in 1..n
      PROVE  /\ Block(ms[k]) \in Blocks
             /\ Block(ms[k]).role = IF ms[k].role = "assistant" THEN "assistant" ELSE "user"
             /\ Block(ms[k]).uses = IF ms[k].role = "assistant" THEN ms[k].calls ELSE {}
             /\ Block(ms[k]).results = IF ms[k].role = "tool" THEN ms[k].calls ELSE {}
  <2>1. ms[k].calls \subseteq CallId
    BY <1>1 DEF Message
  <2> QED BY <2>1 DEF Block, Blocks
<1>6. /\ \A i \in 1..n : Link(ms, own, got, i)
      /\ \A i \in 0..(n - 1) : ms[i + 1].role # "tool" => own[i] = got[i]
  BY DEF Whole, Chain
<1> DEFINE Open(k) == own[k] \ got[k]
           T == {k \in Nat : k + 1 <= n => Fits(w[k + 1], Open(k + 1))}
<1>7. 0 \in T
  <2> DEFINE b == Block(ms[1])
  <2>1. b \in Blocks /\ b.role = "user" /\ b.uses = {}
    BY <1>1, <1>5
  <2> HIDE DEF b
  <2>2. w[0] = <<>> /\ w[1] = AddBlock(<<>>, b)
    BY <1>1, <1>4 DEF b
  <2>3. AddBlock(<<>>, b) = <<b>>
    BY DEF AddBlock
  <2> DEFINE W == <<b>>
  <2>4. W \in Seq(Blocks) /\ Len(W) = 1 /\ W[1] = b
    BY <2>1
  <2> HIDE DEF W
  <2>5. /\ \A i \in 1..1 : i = 1
        /\ \A i \in 1..(1 - 1) : FALSE
    OBVIOUS
  <2>6. Fits(W, Open(1))
    <3>1. \A i \in 1..Len(W) : W[i].role = "user" => W[i].uses = {}
      BY <2>1, <2>4, <2>5
    <3>2. \A i \in 1..(Len(W) - 1) : FALSE
      BY <2>4
    <3> QED BY <2>1, <2>4, <3>1, <3>2 DEF Fits
  <2> QED BY <2>2, <2>3, <2>6 DEF W
<1>8. ASSUME NEW k \in Nat, k \in T PROVE k + 1 \in T
  <2> SUFFICES ASSUME (k + 1) + 1 <= n PROVE Fits(w[(k + 1) + 1], Open((k + 1) + 1))
    OBVIOUS
  <2> DEFINE j == (k + 1) + 1
             b == Block(ms[j])
  <2>1. /\ j \in 1..n /\ j \in 0..n /\ j # 0 /\ j - 1 = k + 1 /\ k + 1 <= n
        /\ j - 1 \in 0..(n - 1) /\ (j - 1) + 1 = j
    BY <1>1
  <2>2. Fits(w[j - 1], Open(j - 1))
    <3> HIDE DEF Open
    <3> QED BY <1>8, <2>1
  <2> HIDE DEF j
  <2>3. w[j] = AddBlock(w[j - 1], b)
    BY <1>4, <2>1
  <2>4. Link(ms, own, got, j) /\ (ms[j].role # "tool" => own[j - 1] = got[j - 1])
    BY <1>6, <2>1
  <2>5. /\ b \in Blocks
        /\ b.role = IF ms[j].role = "assistant" THEN "assistant" ELSE "user"
        /\ b.uses = IF ms[j].role = "assistant" THEN ms[j].calls ELSE {}
        /\ b.results = IF ms[j].role = "tool" THEN ms[j].calls ELSE {}
    BY <1>5, <2>1
  <2> HIDE DEF b
  <2>6. CASE ms[j].role = "tool"
    <3>1. Open(j - 1) \subseteq b.results \cup Open(j)
      BY <2>4, <2>5, <2>6 DEF Link
    <3>2. b.role = "user" /\ b.uses = {}
      BY <2>5, <2>6
    <3> HIDE DEF Open
    <3> QED BY <2>2, <2>3, <2>5, <3>1, <3>2, BlockFits DEF j
  <2>7. CASE ms[j].role # "tool"
    <3>1. Open(j - 1) = {} /\ Open(j) = ms[j].calls
      BY <2>4, <2>7 DEF Link
    <3>2. /\ b.role = "user" => b.uses = {}
          /\ b.role = "assistant" => b.uses = ms[j].calls
      BY <2>5
    <3> HIDE DEF Open
    <3> QED BY <2>2, <2>3, <2>5, <3>1, <3>2, BlockFits DEF j
  <2> QED BY <2>6, <2>7
<1>9. Fits(w[n], Open(n))
  <2>1. n - 1 \in T
    <3> HIDE DEF T
    <3>1. Nat \subseteq T
      BY <1>7, <1>8, NaturalInduction
    <3> QED BY <1>1, <3>1
  <2>2. (n - 1) + 1 = n
    BY <1>1
  <2> HIDE DEF Open
  <2> QED BY <1>1, <2>1, <2>2
<1> QED BY <1>2, <1>9 DEF n

\* A complete history is one the services accept.
LEMMA WholeIsValid ==
  ASSUME NEW ms \in Seq(Message), NEW own, NEW got, NEW ids, Whole(ms, own, got, ids),
         own[Len(ms)] = got[Len(ms)], Len(ms) > 0, ms[1].role = "user"
  PROVE  IsValid(ms)
<1> DEFINE n == Len(ms)
           W == Wire(ms)
<1>1. n \in Nat /\ \A k \in 1..n : ms[k] \in Message
  BY LenProperties
<1>2. Chain(ms, own, got, ids) /\ \A i \in 1..n : Link(ms, own, got, i)
  BY DEF Whole, Chain
<1>3. ASSUME NEW i \in 1..n, Asks(ms[i])
      PROVE  Ids(ms, (i+1)..ResultsEnd(ms, i), "tool") = ms[i].calls
  <2> DEFINE j == ResultsEnd(ms, i)
  <2>1. /\ j \in i..n /\ Ends(ms, j)
        /\ own[j] = ms[i].calls /\ got[j] = Ids(ms, (i + 1)..j, "tool")
    BY <1>2, <1>3, RunIs DEF Asks
  <2> HIDE DEF j
  <2>2. own[j] = got[j]
    <3>1. CASE j = n
      BY <3>1
    <3>2. CASE j # n
      <4>1. j \in 0..(n - 1) /\ ms[j + 1].role # "tool"
        BY <1>1, <2>1, <3>2 DEF Ends
      <4> QED BY <4>1 DEF Whole
    <3> QED BY <3>1, <3>2
  <2> QED BY <2>1, <2>2 DEF j
<1>4. ASSUME NEW i \in 1..n, ms[i].role = "tool"
      PROVE  i > 1 /\ (ms[i-1].role = "tool" \/ Asks(ms[i-1]))
  <2>1. i # 1 /\ i - 1 \in 1..n /\ i > 1
    BY <1>1, <1>4
  <2>2. own[i - 1] # {}
    BY <1>2, <1>4 DEF Link
  <2>3. CASE ms[i - 1].role # "tool"
    <3>1. Link(ms, own, got, i - 1) /\ ms[i - 1] \in Message
      BY <1>1, <1>2, <2>1
    <3> QED BY <2>1, <2>2, <2>3, <3>1 DEF Link, Asks, Message
  <2> QED BY <2>1, <2>3
<1>5. Fits(W, {})
  <2>1. own[Len(ms)] \ got[Len(ms)] = {}
    OBVIOUS
  <2> QED BY <2>1, WireFits
<1> HIDE DEF W
<1>6. ASSUME NEW i \in 1..Len(W), W[i].uses # {}
      PROVE  i < Len(W) /\ W[i].uses \subseteq W[i+1].results
  <2>1. Len(W) \in Nat /\ W[i] \in Blocks
    BY <1>5, LenProperties DEF Fits
  <2>2. i # Len(W)
    BY <1>5, <1>6, <2>1 DEF Fits, Blocks
  <2>3. i \in 1..(Len(W) - 1)
    BY <2>1, <2>2
  <2> QED BY <1>5, <2>1, <2>3 DEF Fits
<1>7. W[1].role = "user"
  BY <1>5 DEF Fits
<1> QED BY <1>3, <1>4, <1>6, <1>7 DEF IsValid, W

-------------------------------------------------------------------------------
(* What a turn does to a history.                                            *)

\* A file may begin anywhere only when it is full.
Opens(ms) == ms = <<>> \/ ms[1].role = "user" \/ Len(ms) >= Window

\* A history of calls with these ids that a turn can begin with, ...
Orderly(ms, ids) == Opens(ms) /\ \E own, got : Chain(ms, own, got, ids)

\* ... and one that a model service can be sent.
Complete(ms, ids) ==
    /\ Len(ms) > 0 /\ ms[1].role = "user"
    /\ \E own, got : Whole(ms, own, got, ids) /\ own[Len(ms)] = got[Len(ms)]

LEMMA HistoryGrows ==
  ASSUME NEW ms, NEW ids, NEW more, ids \subseteq more
  PROVE  /\ Orderly(ms, ids) => Orderly(ms, more)
         /\ Complete(ms, ids) => Complete(ms, more)
         /\ Complete(ms, ids) => Orderly(ms, more)
<1>1. Complete(ms, ids) => Orderly(ms, ids)
  BY DEF Complete, Orderly, Opens, Whole
<1>2. Orderly(ms, ids) => Orderly(ms, more)
  <2> SUFFICES ASSUME Orderly(ms, ids) PROVE Orderly(ms, more)
    OBVIOUS
  <2>1. PICK own, got : Chain(ms, own, got, ids)
    BY DEF Orderly
  <2>2. Chain(ms, own, got, more)
    BY <2>1, ChainGrows
  <2> QED BY <2>2 DEF Orderly
<1>3. Complete(ms, ids) => Complete(ms, more)
  <2> SUFFICES ASSUME Complete(ms, ids) PROVE Complete(ms, more)
    OBVIOUS
  <2>1. PICK own, got : Whole(ms, own, got, ids) /\ own[Len(ms)] = got[Len(ms)]
    BY DEF Complete
  <2>2. Whole(ms, own, got, more)
    BY <2>1, ChainGrows
  <2> QED BY <2>1, <2>2 DEF Complete
<1> QED BY <1>1, <1>2, <1>3

LEMMA NothingIsOrderly ==
  ASSUME NEW ids
  PROVE  Orderly(<<>>, ids)
<1> DEFINE o == [i \in 0..0 |-> {}]
<1>1. o[0] = {} /\ \A i \in 0..0 : i = 0
  OBVIOUS
<1> HIDE DEF o
<1>2. Len(<<>>) = 0
  OBVIOUS
<1>3. Chain(<<>>, o, o, ids)
  BY <1>1, <1>2 DEF Chain
<1> QED BY <1>3 DEF Orderly, Opens

LEMMA SuffixIs ==
  ASSUME NEW A, NEW t \in Seq(A), NEW k \in 0..Len(t)
  PROVE  LET u == SubSeq(t, k + 1, Len(t))
         IN  u \in Seq(A) /\ Len(u) = Len(t) - k /\ \A i \in 1..(Len(t) - k) : u[i] = t[k + i]
<1> DEFINE n == Len(t)
           u == SubSeq(t, k + 1, n)
<1>1. n \in Nat /\ k \in Nat /\ k <= n /\ \A i \in 1..n : t[i] \in A
  BY LenProperties
<1>2. \A i \in (k + 1)..n : t[i] \in A
  BY <1>1
<1> HIDE DEF n
<1>3. /\ u \in Seq(A) /\ Len(u) = IF k + 1 <= n THEN n - (k + 1) + 1 ELSE 0
      /\ \A i \in 1 .. n - (k + 1) + 1 : u[i] = t[(k + 1) + i - 1]
  BY <1>1, <1>2, SubSeqProperties
<1>4. Len(u) = n - k /\ \A i \in 1..(n - k) : u[i] = t[k + i]
  BY <1>1, <1>3
<1> QED BY <1>3, <1>4 DEF u, n

\* The rest of a complete history, from a user message on, is complete.
LEMMA RestIsComplete ==
  ASSUME NEW ms \in Seq(Message), NEW ids, NEW own, NEW got, Whole(ms, own, got, ids),
         own[Len(ms)] = got[Len(ms)], NEW c \in 0..(Len(ms) - 1), ms[c + 1].role = "user"
  PROVE  Complete(SubSeq(ms, c + 1, Len(ms)), ids)
<1> DEFINE t == SubSeq(ms, c + 1, Len(ms))
<1>1. Len(ms) \in Nat /\ c \in 0..Len(ms) /\ 1 \in 1..(Len(ms) - c)
  BY LenProperties
<1>2. /\ t \in Seq(Message) /\ Len(t) = Len(ms) - c
      /\ \A i \in 1..(Len(ms) - c) : t[i] = ms[c + i]
  BY <1>1, SuffixIs
<1> HIDE DEF t
<1>3. Chain(ms, own, got, ids)
  BY DEF Whole
<1>4. \E o, g : Shortened(ms, own, got, ids, t, o, g)
  BY <1>1, <1>2, <1>3, TailOf
<1>5. t[1].role = "user" /\ Len(t) > 0
  BY <1>1, <1>2
<1> QED BY <1>4, <1>5 DEF Complete, Shortened, t

\* What the file keeps can be begun with.
LEMMA PersistedIsOrderly ==
  ASSUME NEW s \in Session, NEW ids, Orderly(s.messages, ids)
  PROVE  Orderly(Persisted(s).messages, ids)
<1> DEFINE ms == s.messages
           k == Len(ms) - MaxPersisted
           t == SubSeq(ms, k + 1, Len(ms))
<1>1. /\ ms \in Seq(Message) /\ Len(ms) \in Nat
      /\ MaxPersisted \in Nat /\ Window \in Nat /\ MaxPersisted >= Window
  BY LenProperties, AgentTurnAssumption DEF Session
<1>2. CASE Len(ms) <= MaxPersisted
  <2>1. Persisted(s).messages = ms
    BY <1>2 DEF Persisted, Session
  <2> QED BY <2>1
<1>3. CASE ~(Len(ms) <= MaxPersisted)
  <2>1. k \in 0..Len(ms)
    BY <1>1, <1>3
  <2>2. Persisted(s).messages = t
    BY <1>3 DEF Persisted, Session
  <2>3. /\ t \in Seq(Message) /\ Len(t) = Len(ms) - k
        /\ \A i \in 1..(Len(ms) - k) : t[i] = ms[k + i]
    BY <1>1, <2>1, SuffixIs
  <2>4. Len(t) = MaxPersisted
    BY <1>1, <2>3
  <2> HIDE DEF t
  <2>5. PICK own, got : Chain(ms, own, got, ids)
    BY DEF Orderly
  <2> HIDE DEF k, ms
  <2>6. \E o, g : Shortened(ms, own, got, ids, t, o, g)
    BY <1>1, <2>1, <2>3, <2>5, TailOf
  <2>7. Opens(t)
    BY <1>1, <2>4 DEF Opens
  <2> QED BY <2>2, <2>6, <2>7 DEF Orderly, Shortened
<1> QED BY <1>2, <1>3

\* The window is cut at a user message, when the last message is one.
LEMMA CutIsAtUser ==
  ASSUME NEW ms \in Seq(Message), NEW o \in Overflows(ms), Len(ms) > 0,
         ms[Len(ms)].role = "user"
  PROVE  /\ CutAt(ms, o) \in 0..(Len(ms) - 1)
         /\ \/ CutAt(ms, o) = 0 /\ Len(ms) <= Window
            \/ ms[CutAt(ms, o) + 1].role = "user"
<1> DEFINE n == Len(ms)
           users == {b \in o..(n - 1) : ms[b+1].role = "user"}
<1>1. n \in Nat /\ n > 0 /\ Window \in Nat
  BY LenProperties, AgentTurnAssumption
<1>2. o \in Nat /\ o <= n - 1 /\ (o = 0 => n <= Window)
  BY <1>1 DEF Overflows
<1>3. n - 1 \in users
  <2>1. n - 1 \in o..(n - 1) /\ (n - 1) + 1 = n
    BY <1>1, <1>2
  <2> QED BY <2>1
<1>4. Min(users) \in users
  <2>1. users \subseteq Nat
    BY <1>1, <1>2
  <2> HIDE DEF users
  <2> QED BY <1>3, <2>1, LeastOf
<1>5. Min(users) \in o..(n - 1) /\ ms[Min(users) + 1].role = "user"
  <2> DEFINE m == Min(users)
  <2>1. m \in users
    BY <1>4
  <2> HIDE DEF m
  <2>2. m \in o..(n - 1) /\ ms[m + 1].role = "user"
    BY <2>1
  <2> QED BY <2>2 DEF m
<1>6. CutAt(ms, o) = LET cut == IF users = {} THEN o ELSE Min(users)
                     IN  IF o = 0 \/ cut >= n THEN 0 ELSE cut
  BY DEF CutAt
<1> HIDE DEF users
<1>7. users # {}
  BY <1>3
<1>8. CutAt(ms, o) = IF o = 0 THEN 0 ELSE Min(users)
  BY <1>1, <1>2, <1>5, <1>6, <1>7
<1> QED BY <1>1, <1>2, <1>5, <1>8

LEMMA WordsType ==
  ASSUME NEW turn \in Requests
  PROVE  /\ User(turn) \in Message /\ User(turn).role = "user" /\ User(turn).calls = {}
         /\ Assistant(turn, {}) \in Message
         /\ <<User(turn)>> \in Seq(Message) /\ <<Assistant(turn, {})>> \in Seq(Message)
<1>1. IsFiniteSet({})
  BY FS_EmptySet
<1>2. User(turn) \in Message /\ User(turn).role = "user" /\ User(turn).calls = {}
  BY <1>1 DEF User, Message
<1>3. Assistant(turn, {}) \in Message
  BY <1>1 DEF Assistant, Message
<1> QED BY <1>2, <1>3

\* A complete history with one more message without calls.
LEMMA WordIsComplete ==
  ASSUME NEW ms \in Seq(Message), NEW ids, NEW own, NEW got, Whole(ms, own, got, ids),
         own[Len(ms)] = got[Len(ms)],
         NEW m \in Message, m.role # "tool", m.calls = {}
  PROVE  LET t == ms \o <<m>>
         IN  /\ \E o, g : Whole(t, o, g, ids) /\ o[Len(t)] = g[Len(t)]
             /\ t \in Seq(Message) /\ Len(t) = Len(ms) + 1 /\ t[Len(t)] = m
             /\ \A i \in 1..Len(ms) : t[i] = ms[i]
<1> DEFINE q == <<m>>
           t == ms \o q
<1>1. q \in Seq(Message) /\ Len(q) = 1 /\ q[1] = m
  OBVIOUS
<1> HIDE DEF q
<1>2. /\ t \in Seq(Message) /\ Len(t) = Len(ms) + Len(q) /\ Len(ms) \in Nat
      /\ \A i \in 1..(Len(ms) + Len(q)) : t[i] = IF i <= Len(ms) THEN ms[i] ELSE q[i - Len(ms)]
  <2>1. q \in Seq(Message) /\ ms \in Seq(Message)
    BY <1>1
  <2> QED BY ONLY <2>1, ConcatProperties, LenProperties
<1>3. Len(t) = Len(ms) + 1 /\ t[Len(t)] = m /\ \A i \in 1..Len(ms) : t[i] = ms[i]
  <2>1. Len(t) = Len(ms) + 1
    BY <1>1, <1>2
  <2>2. /\ Len(t) \in 1..(Len(ms) + Len(q)) /\ ~(Len(t) <= Len(ms)) /\ Len(t) - Len(ms) = 1
        /\ \A i \in 1..Len(ms) : i \in 1..(Len(ms) + Len(q)) /\ i <= Len(ms)
    BY <1>1, <1>2, <2>1
  <2>3. t[Len(t)] = q[1]
    BY <1>2, <2>2
  <2> HIDE DEF t
  <2> QED BY <1>1, <1>2, <2>1, <2>2, <2>3
<1>4. Chain(ms, own, got, ids)
  BY DEF Whole
<1>5. /\ m.role = "user" => m.calls = {}
      /\ m.calls \subseteq ids /\ \A k \in 0..Len(ms) : m.calls \cap own[k] = {}
  OBVIOUS
<1>6. PICK o, g : WithWords(ms, own, got, ids, m, o, g)
  BY <1>4, <1>5, WordFollows
<1>7. Whole(t, o, g, ids) /\ o[Len(t)] = g[Len(t)]
  <2>1. ms \o <<m>> = t
    BY DEF q
  <2> HIDE DEF t
  <2> QED BY <1>3, <1>6, <2>1 DEF WithWords
<1> QED BY <1>2, <1>3, <1>7 DEF q

\* The model says something to a complete history.
LEMMA AnswerIsComplete ==
  ASSUME NEW ms \in Seq(Message), NEW ids, Complete(ms, ids), NEW turn \in Requests
  PROVE  Complete(ms \o <<Assistant(turn, {})>>, ids)
<1> DEFINE m == Assistant(turn, {})
           t == ms \o <<m>>
<1>1. m \in Message /\ m.role # "tool" /\ m.calls = {}
  BY WordsType DEF Assistant
<1> HIDE DEF m
<1>2. PICK own, got : Whole(ms, own, got, ids) /\ own[Len(ms)] = got[Len(ms)]
  BY DEF Complete
<1>3. /\ \E o, g : Whole(t, o, g, ids) /\ o[Len(t)] = g[Len(t)]
      /\ Len(t) = Len(ms) + 1 /\ \A i \in 1..Len(ms) : t[i] = ms[i]
  BY <1>1, <1>2, WordIsComplete
<1> HIDE DEF t
<1>4. Len(t) > 0 /\ t[1].role = "user"
  BY <1>3, LenProperties DEF Complete
<1> QED BY <1>3, <1>4 DEF Complete, t, m

\* A turn begins with a history a model service can be sent.
LEMMA BeginIsComplete ==
  ASSUME NEW s \in Session, NEW ids, Orderly(s.messages, ids),
         NEW turn \in Requests, NEW b \in Begin(s, turn)
  PROVE  Complete(b.messages, ids)
<1> DEFINE ms == s.messages
           rs == Repair(ms)
           mended == [s EXCEPT !.messages = Repair(@)]
           asked == Say(mended, <<User(turn)>>)
           am == rs \o <<User(turn)>>
<1>1. ms \in Seq(Message) /\ Len(ms) \in Nat /\ Opens(ms)
  BY LenProperties DEF Session, Orderly
<1>2. PICK own, got : Chain(ms, own, got, ids)
  BY DEF Orderly
<1>3. /\ \E o, g : Whole(rs, o, g, ids) /\ o[Len(rs)] = g[Len(rs)]
      /\ rs \in Seq(Message) /\ Len(rs) >= Len(ms)
      /\ IF Len(ms) = 0 THEN rs = <<>> ELSE rs[1] = ms[1]
  BY <1>1, <1>2, RepairIsWhole
<1> HIDE DEF rs
<1>4. /\ \E o, g : Whole(am, o, g, ids) /\ o[Len(am)] = g[Len(am)]
      /\ am \in Seq(Message) /\ Len(am) = Len(rs) + 1 /\ am[Len(am)] = User(turn)
      /\ \A i \in 1..Len(rs) : am[i] = rs[i]
  <2> DEFINE u == User(turn)
  <2>1. u \in Message /\ u.role # "tool" /\ u.calls = {}
    BY WordsType
  <2> HIDE DEF u
  <2>2. PICK o, g : Whole(rs, o, g, ids) /\ o[Len(rs)] = g[Len(rs)]
    BY <1>3
  <2> QED BY <1>3, <2>1, <2>2, WordIsComplete DEF u
<1>5. mended \in Session /\ mended.messages = rs
  BY <1>3 DEF Session, rs
<1>6. asked \in Session /\ asked.messages = am
  <2> HIDE DEF mended
  <2>1. asked \in Session
    BY <1>5, WordsType, SayKeeps
  <2>2. asked.messages = mended.messages \o <<User(turn)>>
    BY <1>5 DEF Say, Session
  <2> QED BY <1>5, <2>1, <2>2
<1>7. PICK v \in Overflows(asked.messages) : b \in Consolidations(Archive(asked, v))
  BY Zenon DEF Begin
<1> HIDE DEF mended, asked
<1>8. PICK c \in 0..Len(am) :
          c = CutAt(am, v) /\ Archive(asked, v).messages = SubSeq(am, c + 1, Len(am))
  <2> DEFINE c == CutAt(am, v)
  <2>1. c \in 0..Len(am)
    BY <1>4, <1>6, <1>7, CutIs
  <2>2. Archive(asked, v).messages = SubSeq(am, c + 1, Len(am))
    BY <1>6 DEF Archive, Session
  <2> HIDE DEF c
  <2> QED BY <2>1, <2>2 DEF c
<1>9. b.messages = SubSeq(am, c + 1, Len(am))
  <2>1. Archive(asked, v) \in Session
    BY <1>6, <1>7, ArchiveKeeps
  <2>2. b.messages = Archive(asked, v).messages
    BY <1>7, <2>1 DEF Consolidations, Session
  <2> QED BY <1>8, <2>2
<1> HIDE DEF am
<1>10. Len(am) \in Nat /\ Len(am) > 0 /\ am[Len(am)].role = "user" /\ Len(rs) \in Nat
  BY <1>3, <1>4, LenProperties, WordsType
<1>11. /\ c \in 0..(Len(am) - 1)
       /\ (c = 0 /\ Len(am) <= Window) \/ am[c + 1].role = "user"
  BY <1>4, <1>6, <1>7, <1>8, <1>10, CutIsAtUser
<1>12. am[c + 1].role = "user"
  <2> SUFFICES ASSUME c = 0, Len(am) <= Window PROVE am[1].role = "user"
    BY <1>11
  <2>1. CASE Len(ms) = 0
    <3>1. Len(rs) = 0
      BY <1>3, <2>1
    <3> QED BY <1>4, <1>10, <3>1
  <2>2. CASE Len(ms) # 0
    <3>1. ~(Len(ms) >= Window) /\ 1 \in 1..Len(rs) /\ ms # <<>>
      BY <1>1, <1>3, <1>4, <1>10, <2>2, AgentTurnAssumption
    <3>2. ms[1].role = "user"
      BY <1>1, <3>1 DEF Opens
    <3> QED BY <1>3, <1>4, <2>2, <3>1, <3>2
  <2> QED BY <2>1, <2>2
<1>13. PICK o, g : Whole(am, o, g, ids) /\ o[Len(am)] = g[Len(am)]
  BY <1>4
<1>14. Complete(SubSeq(am, c + 1, Len(am)), ids)
  BY <1>4, <1>11, <1>12, <1>13, RestIsComplete
<1> QED BY <1>9, <1>14

\* The model calls tools: the history stays in order, and complete when all calls
\* are answered.
LEMMA CallsFollow ==
  ASSUME NEW ms \in Seq(Message), NEW ids, Complete(ms, ids), NEW turn \in Requests,
         NEW calls \in SUBSET CallId, IsFiniteSet(calls), calls \cap ids = {},
         NEW answered \in SUBSET calls
  PROVE  LET t == ms \o (<<Assistant(turn, calls)>> \o Results(turn, answered))
         IN  /\ Orderly(t, ids \cup calls)
             /\ answered = calls => Complete(t, ids \cup calls)
<1> DEFINE m == Assistant(turn, calls)
           p == <<m>>
           q == Results(turn, answered)
           u == ms \o p
           t == u \o q
           more == ids \cup calls
<1>1. m \in Message /\ m.role = "assistant" /\ m.calls = calls
  BY DEF Assistant, Message
<1>2. p \in Seq(Message) /\ Len(p) = 1
  BY <1>1
<1>3. answered \in SUBSET CallId /\ IsFiniteSet(answered)
  BY FS_Subset
<1>4. /\ q \in Seq(Message)
      /\ \A k \in 1..Len(q) : q[k].role = "tool" /\ q[k].calls \subseteq answered
      /\ CallsOf(q) = answered
      /\ q # <<>> => answered # {}
  BY <1>3, ResultsAre
<1> HIDE DEF p, q, m
<1>5. /\ u \in Seq(Message) /\ Len(u) = Len(ms) + 1 /\ Len(ms) \in Nat
      /\ \A i \in 1..Len(ms) : u[i] = ms[i]
  <2>1. /\ u \in Seq(Message) /\ Len(u) = Len(ms) + Len(p) /\ Len(ms) \in Nat
        /\ \A i \in 1..(Len(ms) + Len(p)) : u[i] = IF i <= Len(ms) THEN ms[i] ELSE p[i - Len(ms)]
    BY <1>2, ConcatProperties, LenProperties
  <2>2. \A i \in 1..Len(ms) : i \in 1..(Len(ms) + Len(p)) /\ i <= Len(ms)
    BY <1>2, <2>1
  <2> HIDE DEF u
  <2> QED BY <1>2, <2>1, <2>2
<1>6. ms \o (p \o q) = t
  BY <1>2, <1>4, ConcatAssociative
<1>7. PICK own, got : Whole(ms, own, got, ids) /\ own[Len(ms)] = got[Len(ms)]
  BY DEF Complete
<1>8. Whole(ms, own, got, more) /\ Chain(ms, own, got, more)
  <2>1. Whole(ms, own, got, more)
    BY <1>7, ChainGrows
  <2> QED BY <2>1 DEF Whole
<1>9. \A k \in 0..Len(ms) : m.calls \cap own[k] = {}
  BY <1>1, <1>7 DEF Whole, Chain
<1>10. PICK o, g : /\ Chain(u, o, g, more) /\ Whole(u, o, g, more)
                   /\ o[Len(u)] = calls /\ g[Len(u)] = {}
  <2>1. /\ m \in Message /\ m.role # "tool" /\ (m.role = "user" => m.calls = {})
        /\ m.calls \subseteq more
    BY <1>1
  <2>2. PICK o, g : WithWords(ms, own, got, more, m, o, g)
    <3> HIDE DEF more
    <3> QED BY <1>8, <1>9, <2>1, WordFollows
  <2>3. ms \o <<m>> = u
    BY DEF p
  <2> HIDE DEF u, more
  <2> QED BY <1>1, <1>5, <1>7, <1>8, <2>2, <2>3 DEF WithWords
<1> HIDE DEF u, more
<1>11. PICK o2, g2 : WithResults(u, o, g, more, q, o2, g2)
  <2>1. /\ \A k \in 1..Len(q) : q[k].role = "tool" /\ q[k].calls \subseteq o[Len(u)]
        /\ q # <<>> => o[Len(u)] # {}
    BY <1>4, <1>10
  <2>2. u \in Seq(Message) /\ q \in Seq(Message) /\ Chain(u, o, g, more)
    BY <1>4, <1>5, <1>10
  <2> QED BY ONLY <2>1, <2>2, ResultsFollow
<1>12. /\ Whole(t, o2, g2, more) /\ o2[Len(t)] = calls /\ g2[Len(t)] = answered
  BY <1>4, <1>10, <1>11 DEF WithResults
<1>13. Len(t) > 0 /\ t[1].role = "user"
  <2>1. Len(ms) > 0 /\ ms[1].role = "user"
    BY DEF Complete
  <2>2. /\ Len(t) = Len(u) + Len(q) /\ Len(q) \in Nat
        /\ \A i \in 1..(Len(u) + Len(q)) : t[i] = IF i <= Len(u) THEN u[i] ELSE q[i - Len(u)]
    <3>1. u \in Seq(Message) /\ q \in Seq(Message)
      BY <1>4, <1>5
    <3> QED BY ONLY <3>1, ConcatProperties, LenProperties
  <2>3. 1 \in 1..(Len(u) + Len(q)) /\ 1 <= Len(u) /\ 1 \in 1..Len(ms)
    BY <1>5, <2>1, <2>2
  <2> HIDE DEF t
  <2> QED BY <1>5, <2>1, <2>2, <2>3
<1> HIDE DEF t
<1>14. Orderly(t, more) /\ (answered = calls => Complete(t, more))
  BY <1>12, <1>13 DEF Orderly, Opens, Complete, Whole
<1> QED BY <1>6, <1>14 DEF more, p, q, m

-------------------------------------------------------------------------------
(* The histories of all sessions, for services that give their calls ids.    *)

Later == {"save", "write", "replace", "release", "end"}

\* The requests that will ask no more, the ids of their calls, and those of the
\* calls of a request that still asks.
Spent == {q \in Requests : pc[q] \in Later}
Past == Spent \X Nat \X Nat
Now(r) == Past \cup ({r} \X (0..(step[r] - 1)) \X Nat)

HistoryOf(r) ==
    IF pc[r] \in {"ask", "closing"} THEN Complete(session[r].messages, Now(r))
                                    ELSE Orderly(session[r].messages, Past)

FilesAreOrderly ==
    \A s \in SessionIds : \A f \in {files[s], tmp[s]} :
        f \notin {Absent, Torn} => Orderly(f.messages, Past)

HistoryInv ==
    /\ MemoryInv /\ FilesAreOrderly
    /\ \A r \in Requests : HistoryOf(r)

\* Calls that were in the past stay there.
LEMMA PastGrows ==
  ASSUME MemoryInv, NEW q \in Requests, RequestStep(q)
  PROVE  /\ Past \subseteq Past'
         /\ pc'[q] \in Later => {q} \X Nat \X Nat \subseteq Past'
         /\ \A x \in Requests : x # q => step'[x] = step[x]
         /\ \A x \in Requests : x # q => Now(x) \subseteq Now(x)'
<1>0. pc \in [Requests -> Labels] /\ step \in [Requests -> Nat]
  BY DEF MemoryInv, MemoryTypes, LockInv, LockTypes
<1>1. \A x \in Requests : x # q => pc'[x] = pc[x]
  BY StepMoves
<1>2. /\ pc[q] \in Later => pc'[q] \in Later
      /\ \A x \in Requests : x # q => step'[x] = step[x]
  <2>1. CASE pc[q] \in Later
    <3>1. SaveBegin(q) \/ SaveWrite(q) \/ SaveReplace(q) \/ SaveFails(q) \/ Release(q)
      BY <2>1 DEF RequestStep, Submit, Acquire, AcquireTimeout, OpenSession, CreateSession,
           LockOwn, CloseEarly, StartWorker, BeginTurn, Answer, CallTools, AskFails, CloseTurn,
           Later
    <3> QED BY <1>0, <3>1 DEF SaveBegin, SaveWrite, SaveReplace, SaveFails, Release, GoTo, Later
  <2>2. CASE CallTools(q) \/ Release(q)
    <3>1. \A x \in Requests : x # q => step'[x] = step[x]
      BY <1>0, <2>2 DEF CallTools, Release
    <3> QED BY <2>1, <3>1
  <2>3. CASE ~(CallTools(q) \/ Release(q))
    <3>1. step' = step
      BY <2>3 DEF RequestStep, Submit, Acquire, AcquireTimeout, OpenSession, CreateSession,
           LockOwn, CloseEarly, StartWorker, BeginTurn, Answer, AskFails, CloseTurn,
           SaveBegin, SaveWrite, SaveReplace, SaveFails
    <3> QED BY <2>1, <3>1
  <2> QED BY <2>2, <2>3, <2>1
<1>3. Spent \subseteq Spent' /\ (pc'[q] \in Later => q \in Spent')
  BY <1>1, <1>2 DEF Spent
<1>4. Past \subseteq Past' /\ (pc'[q] \in Later => {q} \X Nat \X Nat \subseteq Past')
  BY <1>3 DEF Past
<1>5. ASSUME NEW x \in Requests, x # q PROVE Now(x) \subseteq Now(x)'
  <2>1. step'[x] = step[x]
    BY <1>2, <1>5
  <2> QED BY <1>4, <2>1 DEF Now
<1> QED BY <1>2, <1>4, <1>5

LEMMA OthersHistory ==
  ASSUME HistoryInv, NEW q \in Requests, RequestStep(q), NEW r \in Requests, r # q
  PROVE  HistoryOf(r)'
<1>1. MemoryInv /\ HistoryOf(r)
  BY DEF HistoryInv
<1>2. pc'[r] = pc[r] /\ session'[r] = session[r]
  BY <1>1, StepMoves
<1>3. Past \subseteq Past' /\ Now(r) \subseteq Now(r)'
  BY <1>1, PastGrows
<1>4. /\ Complete(session[r].messages, Now(r)) => Complete(session[r].messages, Now(r)')
      /\ Orderly(session[r].messages, Past) => Orderly(session[r].messages, Past')
  BY <1>3, HistoryGrows
<1> QED BY <1>1, <1>2, <1>4 DEF HistoryOf

\* The ids of the calls of one answer are new.
LEMMA CallsAreNew ==
  ASSUME MemoryInv, GivesIds, NEW r \in Requests, pc[r] \notin Later, NEW n \in Nat
  PROVE  /\ CallIds(r, step[r], n) \subseteq {r} \X {step[r]} \X Nat
         /\ CallIds(r, step[r], n) \cap Now(r) = {}
<1>1. step[r] \in Nat /\ r \notin Spent
  BY DEF MemoryInv, MemoryTypes, Spent
<1>2. CallIds(r, step[r], n) \subseteq {r} \X {step[r]} \X Nat
  <2>1. \A k \in 1..n : <<r, step[r], k>> \in {r} \X {step[r]} \X Nat
    OBVIOUS
  <2> QED BY <2>1 DEF CallIds
<1>3. ({r} \X {step[r]} \X Nat) \cap Now(r) = {}
  <2> SUFFICES ASSUME NEW x \in {r} \X {step[r]} \X Nat, x \in Now(r) PROVE FALSE
    OBVIOUS
  <2>1. x[1] = r /\ x[2] = step[r]
    OBVIOUS
  <2>2. CASE x \in Past
    BY <1>1, <2>1, <2>2 DEF Past
  <2>3. CASE x \in {r} \X (0..(step[r] - 1)) \X Nat
    <3>1. x[2] \in 0..(step[r] - 1)
      BY <2>3
    <3> QED BY <1>1, <2>1, <3>1
  <2> QED BY <2>2, <2>3 DEF Now
<1> QED BY <1>2, <1>3

LEMMA OwnHistory ==
  ASSUME HistoryInv, GivesIds, NEW q \in Requests, RequestStep(q)
  PROVE  HistoryOf(q)'
<1>0. /\ MemoryInv /\ HistoryOf(q) /\ FilesAreOrderly
      /\ session \in [Requests -> Session] /\ session[q] \in Session
      /\ pc \in [Requests -> Labels] /\ step \in [Requests -> Nat] /\ step[q] \in Nat
      /\ want[q] \in SessionIds \cup {NoId}
  BY DEF HistoryInv, MemoryInv, MemoryTypes, LockInv, LockTypes
<1>1. Past \subseteq Past' /\ (pc'[q] \in Later => {q} \X Nat \X Nat \subseteq Past')
  BY <1>0, PastGrows
<1>2. pc'[q] \in Later => Now(q) \subseteq Past'
  <2>1. {q} \X (0..(step[q] - 1)) \X Nat \subseteq {q} \X Nat \X Nat
    BY <1>0
  <2> QED BY <1>1, <2>1 DEF Now
<1>3. \A ms : Orderly(ms, Past) => Orderly(ms, Past')
  BY <1>1, HistoryGrows
<1>4. CASE \/ Submit(q) \/ Acquire(q) \/ AcquireTimeout(q) \/ LockOwn(q) \/ StartWorker(q)
           \/ SaveWrite(q) \/ SaveReplace(q) \/ SaveFails(q)
  <2>1. session' = session /\ pc[q] \notin {"ask", "closing"} /\ pc'[q] \notin {"ask", "closing"}
    BY <1>0, <1>4 DEF Submit, Acquire, AcquireTimeout, LockOwn, StartWorker, SaveWrite,
                      SaveReplace, SaveFails, GoTo
  <2> QED BY <1>0, <1>3, <2>1 DEF HistoryOf
<1>5. CASE OpenSession(q)
  <2>1. /\ session'[q] = files[want[q]] /\ pc'[q] = "yielded"
        /\ want[q] \in SessionIds /\ files[want[q]] \notin {Absent, Torn}
    BY <1>0, <1>5 DEF OpenSession, GoTo
  <2>2. Orderly(files[want[q]].messages, Past)
    BY <1>0, <2>1 DEF FilesAreOrderly
  <2> QED BY <1>3, <2>1, <2>2 DEF HistoryOf
<1>6. CASE CreateSession(q) \/ CloseEarly(q) \/ Release(q)
  <2>1. session'[q].messages = <<>> /\ pc'[q] \notin {"ask", "closing"}
    BY <1>0, <1>6 DEF CreateSession, CloseEarly, Release, GoTo, NewSession
  <2> QED BY <2>1, NothingIsOrderly DEF HistoryOf
<1>7. CASE BeginTurn(q)
  <2>1. PICK b \in Begin(session[q], q) : session' = [session EXCEPT ![q] = b]
    BY <1>7 DEF BeginTurn
  <2>2. pc[q] = "begin" /\ pc'[q] = "ask" /\ session'[q] = b
    BY <1>0, <1>7, <2>1 DEF BeginTurn, GoTo
  <2>3. Orderly(session[q].messages, Past)
    BY <1>0, <2>2 DEF HistoryOf
  <2>4. Complete(b.messages, Past)
    BY <1>0, <2>3, BeginIsComplete
  <2>5. Past \subseteq Now(q)'
    BY <1>1 DEF Now
  <2>6. Complete(b.messages, Now(q)')
    BY <2>4, <2>5, HistoryGrows
  <2> QED BY <2>2, <2>6 DEF HistoryOf
<1>8. CASE Answer(q) \/ CloseTurn(q)
  <2> DEFINE ms == session[q].messages
             t == ms \o <<Assistant(q, {})>>
  <2>1. pc[q] \in {"ask", "closing"} /\ pc'[q] = "save" /\ session'[q].messages = t
    BY <1>0, <1>8 DEF Answer, CloseTurn, GoTo, Say, Session
  <2>2. ms \in Seq(Message) /\ Complete(ms, Now(q))
    BY <1>0, <2>1 DEF HistoryOf, Session
  <2>3. Complete(t, Now(q))
    <3> HIDE DEF ms
    <3> QED BY <2>2, AnswerIsComplete
  <2>4. Now(q) \subseteq Past'
    BY <1>2, <2>1 DEF Later
  <2>5. Orderly(t, Past')
    BY <2>3, <2>4, HistoryGrows
  <2> QED BY <2>1, <2>5 DEF HistoryOf
<1>9. CASE AskFails(q)
  <2>1. pc[q] = "ask" /\ pc'[q] = "save" /\ session' = session
    BY <1>0, <1>9 DEF AskFails, GoTo
  <2>2. Complete(session[q].messages, Now(q)) /\ Now(q) \subseteq Past'
    BY <1>0, <1>2, <2>1 DEF HistoryOf, Later
  <2>3. Orderly(session[q].messages, Past')
    BY <2>2, HistoryGrows
  <2> QED BY <2>1, <2>3 DEF HistoryOf
<1>10. CASE SaveBegin(q)
  <2>1. pc[q] = "save" /\ pc'[q] = "write" /\ session'[q] = Persisted(session[q])
    BY <1>0, <1>10 DEF SaveBegin, GoTo
  <2>2. Orderly(Persisted(session[q]).messages, Past)
    BY <1>0, <2>1, PersistedIsOrderly DEF HistoryOf
  <2> QED BY <1>3, <2>1, <2>2 DEF HistoryOf
<1>11. CASE CallTools(q)
  <2> DEFINE ms == session[q].messages
  <2>1. /\ pc[q] = "ask" /\ step'[q] = step[q] + 1
        /\ ms \in Seq(Message) /\ Complete(ms, Now(q))
    BY <1>0, <1>11 DEF CallTools, HistoryOf, Session
  <2>2. PICK n \in 1..2 : \E a \in AnsweredCalls(q, step[q], n) :
          /\ session' = [session EXCEPT ![q] =
                Say(@, <<Assistant(q, CallIds(q, step[q], n))>> \o Results(q, a))]
          /\ GoTo(q, IF a # CallIds(q, step[q], n) THEN "save"
                     ELSE IF step[q] + 1 < MaxSteps THEN "ask" ELSE "closing")
    BY <1>11 DEF CallTools
  <2>3. PICK a \in AnsweredCalls(q, step[q], n) :
          /\ session' = [session EXCEPT ![q] =
                Say(@, <<Assistant(q, CallIds(q, step[q], n))>> \o Results(q, a))]
          /\ GoTo(q, IF a # CallIds(q, step[q], n) THEN "save"
                     ELSE IF step[q] + 1 < MaxSteps THEN "ask" ELSE "closing")
    BY <2>2
  <2> DEFINE cs == CallIds(q, step[q], n)
             u == ms \o (<<Assistant(q, cs)>> \o Results(q, a))
             more == Now(q) \cup cs
  <2>4. session'[q].messages = u
    BY <1>0, <2>3 DEF Say, Session
  <2>5. /\ pc'[q] \in {"save", "ask", "closing"}
        /\ pc'[q] # "save" => a = cs
    BY <1>0, <2>3 DEF GoTo
  <2>6. /\ cs \subseteq {q} \X {step[q]} \X Nat /\ cs \cap Now(q) = {}
        /\ cs \subseteq CallId /\ IsFiniteSet(cs)
    <3>1. n \in Nat /\ pc[q] \notin Later
      BY <2>1 DEF Later
    <3> QED BY <1>0, <3>1, CallsAreNew, CallIdsType
  <2>7. a \subseteq cs
    <3>1. PICK m \in 0..n : a = CallIds(q, step[q], m)
      BY <2>3 DEF AnsweredCalls
    <3>2. 1..m \subseteq 1..n
      OBVIOUS
    <3> QED BY <3>1, <3>2 DEF CallIds
  <2>8. Orderly(u, more) /\ (a = cs => Complete(u, more))
    <3> HIDE DEF ms, cs
    <3> QED BY <2>1, <2>6, <2>7, CallsFollow
  <2>9. {q} \X {step[q]} \X Nat \subseteq {q} \X Nat \X Nat
    BY <1>0
  <2> HIDE DEF cs
  <2>10. CASE pc'[q] = "save"
    <3>1. more \subseteq Past'
      BY <1>1, <1>2, <2>6, <2>9, <2>10 DEF Later
    <3>2. Orderly(u, Past')
      <4> HIDE DEF u, more
      <4> QED BY <2>8, <3>1, HistoryGrows
    <3> QED BY <2>4, <2>10, <3>2 DEF HistoryOf
  <2>11. CASE pc'[q] # "save"
    <3>1. more \subseteq Now(q)'
      <4>1. Now(q)' = Past' \cup ({q} \X (0..step[q]) \X Nat)
        <5>1. step'[q] - 1 = step[q]
          BY <1>0, <2>1
        <5> QED BY <5>1 DEF Now
      <4>2. /\ {q} \X (0..(step[q] - 1)) \X Nat \subseteq {q} \X (0..step[q]) \X Nat
            /\ {q} \X {step[q]} \X Nat \subseteq {q} \X (0..step[q]) \X Nat
        BY <1>0
      <4>3. Now(q) \subseteq Now(q)'
        BY <1>1, <4>1, <4>2 DEF Now
      <4> QED BY <2>6, <4>1, <4>2, <4>3
    <3>2. Complete(u, Now(q)')
      <4> HIDE DEF u, more
      <4> QED BY <2>5, <2>8, <2>11, <3>1, HistoryGrows
    <3> QED BY <2>4, <2>5, <2>11, <3>2 DEF HistoryOf
  <2> QED BY <2>10, <2>11
<1> QED BY <1>4, <1>5, <1>6, <1>7, <1>8, <1>9, <1>10, <1>11 DEF RequestStep

LEMMA FilesStayOrderly ==
  ASSUME HistoryInv, NEW q \in Requests, RequestStep(q)
  PROVE  FilesAreOrderly'
<1>0. /\ MemoryInv /\ HistoryOf(q) /\ FilesAreOrderly
      /\ files \in [SessionIds -> Session \cup {Absent, Torn}]
      /\ tmp \in [SessionIds -> Session \cup {Absent, Torn}]
  BY DEF HistoryInv, MemoryInv, MemoryTypes
<1>1. \A ms : Orderly(ms, Past) => Orderly(ms, Past')
  <2>1. Past \subseteq Past'
    BY <1>0, PastGrows
  <2> QED BY <2>1, HistoryGrows
<1>2. CASE CreateSession(q)
  <2>1. tmp' = tmp /\ \E s \in SessionIds : files' = [files EXCEPT ![s] = NewSession]
    BY <1>2 DEF CreateSession
  <2>2. Orderly(NewSession.messages, Past')
    BY NothingIsOrderly DEF NewSession
  <2> QED BY <1>0, <1>1, <2>1, <2>2 DEF FilesAreOrderly
<1>3. CASE SaveBegin(q)
  <2>1. files' = files /\ tmp' = [tmp EXCEPT ![sid[q]] = Torn]
    BY <1>3 DEF SaveBegin
  <2> QED BY <1>0, <1>1, <2>1 DEF FilesAreOrderly
<1>4. CASE SaveWrite(q)
  <2>1. files' = files /\ tmp' = [tmp EXCEPT ![sid[q]] = session[q]] /\ pc[q] = "write"
    BY <1>4 DEF SaveWrite
  <2>2. Orderly(session[q].messages, Past')
    BY <1>0, <1>1, <2>1 DEF HistoryOf
  <2> QED BY <1>0, <1>1, <2>1, <2>2 DEF FilesAreOrderly
<1>5. CASE SaveReplace(q)
  <2>1. /\ files' = [files EXCEPT ![sid[q]] = tmp[sid[q]]]
        /\ tmp' = [tmp EXCEPT ![sid[q]] = Absent]
    BY <1>5 DEF SaveReplace
  <2> QED BY <1>0, <1>1, <2>1 DEF FilesAreOrderly
<1>6. CASE UNCHANGED <<files, tmp>>
  BY <1>1, <1>6, <1>0 DEF FilesAreOrderly
<1>7. CASE \/ Submit(q) \/ Acquire(q) \/ AcquireTimeout(q) \/ OpenSession(q)
           \/ LockOwn(q) \/ CloseEarly(q) \/ StartWorker(q)
           \/ BeginTurn(q) \/ Answer(q) \/ CallTools(q) \/ AskFails(q)
           \/ CloseTurn(q) \/ SaveFails(q) \/ Release(q)
  BY <1>6, <1>7 DEF Submit, Acquire, AcquireTimeout, OpenSession, LockOwn, CloseEarly,
       StartWorker, BeginTurn, Answer, CallTools, AskFails, CloseTurn, SaveFails, Release,
       diskVars
<1> QED BY <1>2, <1>3, <1>4, <1>5, <1>7 DEF RequestStep

LEMMA HistoryStep == GivesIds /\ HistoryInv /\ [Next]_vars => HistoryInv'
<1> SUFFICES ASSUME GivesIds, HistoryInv, [Next]_vars PROVE HistoryInv'
  OBVIOUS
<1>0. MemoryInv' /\ MemoryInv /\ FilesAreOrderly /\ \A r \in Requests : HistoryOf(r)
  BY MemoryStep DEF HistoryInv
<1>1. ASSUME NEW q \in Requests, RequestStep(q) PROVE HistoryInv'
  <2>1. \A r \in Requests : HistoryOf(r)'
    BY <1>1, OthersHistory, OwnHistory
  <2> QED BY <1>0, <1>1, <2>1, FilesStayOrderly DEF HistoryInv
<1>2. ASSUME NEW s \in SessionIds, DeleteSession(s) PROVE HistoryInv'
  <2>1. files' = [files EXCEPT ![s] = Absent] /\ UNCHANGED <<tmp, pc, session, step>>
    BY <1>2 DEF DeleteSession
  <2>2. Past' = Past /\ \A r \in Requests : Now(r)' = Now(r)
    BY <2>1 DEF Past, Spent, Now
  <2>3. FilesAreOrderly'
    BY <1>0, <2>1, <2>2 DEF FilesAreOrderly, MemoryInv, MemoryTypes
  <2>4. \A r \in Requests : HistoryOf(r)'
    BY <1>0, <2>1, <2>2 DEF HistoryOf
  <2> QED BY <1>0, <2>3, <2>4 DEF HistoryInv
<1>3. CASE Restart
  <2>1. /\ UNCHANGED <<files, tmp>> /\ session' = [r \in Requests |-> NewSession]
        /\ pc' = [r \in Requests |-> IF pc[r] = "new" THEN "new" ELSE "end"]
    BY <1>3 DEF Restart, diskVars
  <2>2. Past \subseteq Past'
    <3>1. Spent \subseteq Spent'
      BY <2>1 DEF Spent, Later
    <3> QED BY <3>1 DEF Past
  <2>3. \A ms : Orderly(ms, Past) => Orderly(ms, Past')
    BY <2>2, HistoryGrows
  <2>4. FilesAreOrderly'
    BY <1>0, <2>1, <2>3 DEF FilesAreOrderly
  <2>5. \A r \in Requests : HistoryOf(r)'
    BY <2>1, NothingIsOrderly DEF HistoryOf, NewSession
  <2> QED BY <1>0, <2>4, <2>5 DEF HistoryInv
<1>4. CASE UNCHANGED vars
  <2>1. UNCHANGED <<files, tmp, pc, session, step>>
    BY <1>4 DEF vars, diskVars
  <2>2. Past' = Past /\ \A r \in Requests : Now(r)' = Now(r)
    BY <2>1 DEF Past, Spent, Now
  <2> QED BY <1>0, <2>1, <2>2 DEF HistoryInv, FilesAreOrderly, HistoryOf
<1> QED BY <1>1, <1>2, <1>3, <1>4 DEF Next, RequestStep

LEMMA HistoryBegins == Init => HistoryInv
<1> SUFFICES ASSUME Init PROVE HistoryInv
  OBVIOUS
<1>1. MemoryInv
  BY MemoryBegins
<1>2. Orderly(NewSession.messages, Past)
  BY NothingIsOrderly DEF NewSession
<1>3. FilesAreOrderly
  BY <1>2 DEF Init, FilesAreOrderly
<1>4. \A r \in Requests : HistoryOf(r)
  BY <1>2 DEF Init, HistoryOf
<1> QED BY <1>1, <1>3, <1>4 DEF HistoryInv

\* The history a worker sends to the model is one the service accepts, if the
\* service gives its calls ids, however turns break off, windows move and files
\* keep only the latest messages (agent.py:209-247, 272-316).
THEOREM RequestsAreValid == GivesIds => (Spec => []RequestIsValid)
<1> SUFFICES ASSUME GivesIds PROVE Spec => []RequestIsValid
  OBVIOUS
<1>1. HistoryInv /\ [Next]_vars => HistoryInv'
  BY HistoryStep
<1>2. HistoryInv => RequestIsValid
  <2> SUFFICES ASSUME HistoryInv, NEW r \in Requests, pc[r] \in {"ask", "closing"}
               PROVE  IsValid(session[r].messages)
    BY DEF RequestIsValid
  <2>1. session[r].messages \in Seq(Message) /\ Complete(session[r].messages, Now(r))
    BY DEF HistoryInv, HistoryOf, MemoryInv, MemoryTypes, Session
  <2> QED BY <2>1, WholeIsValid DEF Complete
<1> QED BY HistoryBegins, <1>1, <1>2, PTL DEF Spec
===============================================================================
