------------------------------ MODULE AgentTurn -------------------------------
(***************************************************************************)
(* The memory of one chat session and what AgentRunner (ai/agent.py) and   *)
(* SessionStore (ai/sessions.py) do to it: the protocol messages sent to   *)
(* the model, the archive of what has left the window, and the rolling     *)
(* summary.  A message stands for the turn it belongs to.                  *)
(***************************************************************************)
EXTENDS Naturals, Sequences, SequencesExt

CONSTANTS
    Window,        \* SHORT_TERM_WINDOW
    ArchiveMax,    \* ARCHIVE_MAX_ENTRIES
    MaxPersisted,  \* MAX_PERSISTED_MESSAGES
    GivesIds,      \* the model service gives its tool calls ids
    Lost           \* the archive entry that says older ones were dropped

ASSUME AgentTurnAssumption ==
    /\ Window \in Nat \ {0}
    /\ ArchiveMax \in Nat \ {0}
    /\ MaxPersisted \in Nat /\ MaxPersisted >= Window
    /\ GivesIds \in BOOLEAN

NewSession == [messages |-> <<>>, archive |-> <<>>, summary |-> {}]

User(turn) == [role |-> "user", turn |-> turn, calls |-> {}]
Assistant(turn, calls) == [role |-> "assistant", turn |-> turn, calls |-> calls]
ToolResult(turn, id) == [role |-> "tool", turn |-> turn, calls |-> {id}]

\* The ids of the calls in one answer of the model; without ids of its own they
\* are numbered within the answer.
CallIds(turn, step, n) == {IF GivesIds THEN <<turn, step, k>> ELSE k : k \in 1..n}

\* ToolRegistry.execute has an answer for unknown tools, bad arguments and tools
\* that raise; only a payload it cannot read breaks off the turn, after the calls
\* before it.
AnsweredCalls(turn, step, n) == {CallIds(turn, step, m) : m \in 0..n}

Results(turn, ids) == [i \in 1..Cardinality(ids) |->
                          ToolResult(turn, SetToSeq(ids)[i])]

Say(s, messages) == [s EXCEPT !.messages = @ \o messages]

Asks(m) == m.role = "assistant" /\ m.calls # {}

\* The last of the tool results that directly follow message i.
ResultsEnd(ms, i) ==
    CHOOSE j \in i..Len(ms) :
        /\ \A k \in (i+1)..j : ms[k].role = "tool"
        /\ j = Len(ms) \/ ms[j+1].role # "tool"

Ids(ms, I, role) == UNION {ms[k].calls : k \in {k \in I : ms[k].role = role}}

\* anthropic_messages: results go with the user's words, and neighbours of one
\* role are merged.
Block(m) == [role |-> IF m.role = "assistant" THEN "assistant" ELSE "user",
             uses |-> IF m.role = "assistant" THEN m.calls ELSE {},
             results |-> IF m.role = "tool" THEN m.calls ELSE {}]

Merged(a, b) == [a EXCEPT !.uses = @ \cup b.uses, !.results = @ \cup b.results]

AddBlock(w, b) ==
    IF w # <<>> /\ Last(w).role = b.role
    THEN [w EXCEPT ![Len(w)] = Merged(@, b)]
    ELSE Append(w, b)

Wire(ms) ==
    LET w[n \in 0..Len(ms)] == IF n = 0 THEN <<>> ELSE AddBlock(w[n - 1], Block(ms[n]))
    IN  w[Len(ms)]

\* A history the model services accept: the results that follow a message with
\* calls answer exactly these calls, no others are there, and the user begins.
IsValid(ms) ==
    /\ \A i \in 1..Len(ms) :
        /\ Asks(ms[i]) =>
             Ids(ms, (i+1)..ResultsEnd(ms, i), "tool") = ms[i].calls
        /\ ms[i].role = "tool" =>
             i > 1 /\ (ms[i-1].role = "tool" \/ Asks(ms[i-1]))
    /\ Wire(ms)[1].role = "user"
    /\ \A i \in 1..Len(Wire(ms)) :
           Wire(ms)[i].uses # {} =>
               i < Len(Wire(ms)) /\ Wire(ms)[i].uses \subseteq Wire(ms)[i+1].results

\* Mutant of Repair: an interrupted turn is left as it is.
RepairNothing(ms) == ms

\* _repair_interrupted_turn: after the results of message i, one for each of its
\* calls that no result so far answers.  The calls of earlier messages are all
\* answered by then.
Repair(ms) ==
    LET Answered(i) == Ids(ms, 1..ResultsEnd(ms, i), "tool")
                       \cup Ids(ms, 1..(i-1), "assistant")
        Asker(j) == {i \in 1..j : Asks(ms[i]) /\ ResultsEnd(ms, i) = j}
        Synthetic(i) == Results(ms[i].turn, ms[i].calls \ Answered(i))
    IN  FlattenSeq([j \in 1..Len(ms) |->
            <<ms[j]>> \o (IF Asker(j) = {} THEN <<>>
                          ELSE Synthetic(CHOOSE i \in Asker(j) : TRUE))])

\* How many of the oldest messages the window of messages and the budget of
\* characters can ask to archive; the budget always has room for the question,
\* which AiChatRequest and ContextBudget keep short.
Overflows(ms) ==
    (IF Len(ms) > Window THEN Len(ms) - Window ELSE 0)..(Len(ms) - 1)

\* The cut moves on to the next user message; with none it stays where it is,
\* and nothing is archived when that would be everything.
CutAt(ms, overflow) ==
    LET users == {b \in overflow..(Len(ms) - 1) : ms[b+1].role = "user"}
        cut == IF users = {} THEN overflow ELSE Min(users)
    IN  IF overflow = 0 \/ cut >= Len(ms) THEN 0 ELSE cut

\* _archive_overflow: entry by entry, and the oldest entries make way for a note.
Archive(s, overflow) ==
    LET cut == CutAt(s.messages, overflow)
        entries == s.archive \o [k \in 1..cut |-> s.messages[k].turn]
    IN  [s EXCEPT
            !.messages = SubSeq(@, cut + 1, Len(@)),
            !.archive = IF Len(entries) <= ArchiveMax THEN entries
                        ELSE <<Lost>> \o SubSeq(entries, Len(entries) - ArchiveMax + 2,
                                                Len(entries))]

\* Mutant of Consolidations: the archive is cleared before the model is asked.
ConsolidateFirst(s) ==
    {[s EXCEPT !.archive = <<>>],
     [s EXCEPT !.archive = <<>>, !.summary = @ \cup Range(s.archive)]}

\* _consolidate_archive: too small an archive waits, a failed or empty answer
\* keeps it, and a good one becomes the rolling summary.
Consolidations(s) ==
    {s, [s EXCEPT !.archive = <<>>, !.summary = @ \cup Range(s.archive)]}

\* AgentRunner.run up to its first question to the model.
Begin(s, turn) ==
    LET asked == Say([s EXCEPT !.messages = Repair(@)], <<User(turn)>>)
    IN  UNION {Consolidations(Archive(asked, o)) : o \in Overflows(asked.messages)}

\* What SessionStore.save keeps.
Persisted(s) ==
    [s EXCEPT !.messages =
        IF Len(@) <= MaxPersisted THEN @
        ELSE SubSeq(@, Len(@) - MaxPersisted + 1, Len(@))]

\* The turns a session still knows of.
Known(s) ==
    {s.messages[k].turn : k \in 1..Len(s.messages)} \cup Range(s.archive) \cup s.summary
===============================================================================
