--------------------------- MODULE SessionHistory ---------------------------
(***************************************************************************)
(* The multi-turn AI context the daemon keeps per window (verba-daemon,    *)
(* handler.rs): LlmGenerate reads a window's history when it starts and    *)
(* writes its turn back when its stream has ended, with LlmAppendContext,  *)
(* LlmSessionEnd, //new, SetConfig, LlmCancel and other requests between.  *)
(*                                                                         *)
(* Abstractions.                                                           *)
(*  - A window is its effective session key.  A message is its origin, the *)
(*    request it belongs to (prompts and replies) and its length (commits).*)
(*  - last_used is only ever compared, so the ticks are the order of use:  *)
(*    recency lists the windows that have an entry, the oldest first.      *)
(*  - generations[w] = 0 says that w has no generation; the source hands   *)
(*    out 1, 2, ...                                                        *)
(*  - A handler runs from one await to the next, and from one lock to the  *)
(*    next, in one step.  What it asks of the provider and the words of    *)
(*    its replies are left out, as are the commands that only read.        *)
(***************************************************************************)
EXTENDS Integers, Sequences, FiniteSets

CONSTANTS
    Windows,         \* effective session keys
    Requests,        \* the LlmGenerate requests that will be made
    Turns,           \* the values SetConfig gives ai_context_turns
    CommitLengths,   \* lengths of committed texts
    MaxSessions,     \* MAX_AI_SESSIONS, 256 in the code
    MaxGenerations,  \* MAX_HISTORY_GENERATIONS, 1024 in the code
    MaxMerge,        \* MAX_COMMIT_MERGE_CHARS, 500 in the code
    MaxSingle,       \* MAX_SINGLE_COMMIT_CHARS, 2000 in the code
    None

ASSUME HistoryAssumption ==
    /\ Turns \subseteq Nat
    /\ CommitLengths \subseteq Nat
    /\ MaxSessions \in Nat \ {0} /\ MaxGenerations \in Nat
    /\ MaxMerge \in Nat /\ MaxSingle \in Nat \ {0}
    /\ None \notin Requests
    /\ IsFiniteSet(Windows)

VARIABLES
    turns,            \* ai_context_turns
    history,          \* the messages of each window
    recency,          \* the windows with an entry, least recently used first
    generations,      \* history_generations
    nextGeneration,   \* HISTORY_GENERATION_TICK
    request,          \* the handler of each LlmGenerate
    appending         \* the LlmAppendContext between its two locks, or None

vars == <<turns, history, recency, generations, nextGeneration, request, appending>>

Kinds == {"text", "image", "new"}
Steps == {"unused", "registered", "prepared", "streaming", "answered",
          "remembered", "dropped"}
Handlers ==
    [step : Steps, window : Windows \cup {None}, kind : Kinds \cup {None},
     turns : Nat,          \* context_turns, captured when the handler starts
     generation : Nat,     \* request_generation, 0 for none
     cancelled : BOOLEAN,  \* its CancellationToken
     half : BOOLEAN,       \* the handler's cancelled: it left the stream early
     stale : BOOLEAN]      \* history variable: its window was reset or ended since

Unused == [step |-> "unused", window |-> None, kind |-> None, turns |-> 0,
           generation |-> 0, cancelled |-> FALSE, half |-> FALSE, stale |-> FALSE]

Messages == [origin : {"Prompt", "Reply", "Commit"}, of : Requests \cup {None},
             length : Nat]
Prompt(r) == [origin |-> "Prompt", of |-> r, length |-> 0]
Reply(r) == [origin |-> "Reply", of |-> r, length |-> 0]
CommitText(n) == [origin |-> "Commit", of |-> None, length |-> n]

Running(r) == request[r].step \notin {"unused", "remembered", "dropped"}
Goes(r, step) == request' = [request EXCEPT ![r].step = step]

\* a handler that has returned; a turn that was written keeps its origin
Ended(q, step) ==
    [Unused EXCEPT !.step = step,
                   !.window = IF step = "remembered" THEN q.window ELSE None,
                   !.half = step = "remembered" /\ q.half,
                   !.stale = step = "remembered" /\ q.stale]
Ends(r, step) == request' = [request EXCEPT ![r] = Ended(@, step)]

(***************************************************************************)
(* The history store.                                                      *)
(***************************************************************************)
\* fault: the newest messages are cut off, not the oldest
TrimNewest(msgs, max) == IF Len(msgs) > max THEN SubSeq(msgs, 1, max) ELSE msgs

Trim(msgs, max) ==
    IF Len(msgs) > max THEN SubSeq(msgs, Len(msgs) - max + 1, Len(msgs)) ELSE msgs

Present(w) == \E i \in DOMAIN recency : recency[i] = w
Place(w) == CHOOSE i \in DOMAIN recency : recency[i] = w
Other(w) ==
    IF Present(w)
    THEN SubSeq(recency, 1, Place(w) - 1) \o SubSeq(recency, Place(w) + 1, Len(recency))
    ELSE recency

Used(w) == Append(Other(w), w)

\* write a window's entry, then evict the least recently used of too many
Write(w, msgs) ==
    LET order == Used(w)
        evicts == Len(order) > MaxSessions
    IN  /\ recency' = IF evicts THEN Tail(order) ELSE order
        /\ history' = [v \in Windows |->
                        IF evicts /\ v = Head(order) THEN <<>>
                        ELSE IF v = w THEN msgs ELSE history[v]]

Allotted == {w \in Windows : generations[w] # 0}
EnsuredGeneration(w) ==
    IF generations[w] # 0 THEN generations[w]
    ELSE IF Cardinality(Allotted) >= MaxGenerations THEN 0
    ELSE nextGeneration

\* every request of w that holds a generation is now of the past
Outdate(w) ==
    [r \in Requests |->
        IF request[r].window = w /\ request[r].step \in {"streaming", "answered"}
        THEN [request[r] EXCEPT !.stale = TRUE]
        ELSE request[r]]

(***************************************************************************)
(* LlmGenerate.                                                            *)
(***************************************************************************)
Register(r, w, kind) ==
    /\ request[r].step = "unused"
    /\ request' = [request EXCEPT ![r] =
                    [Unused EXCEPT !.step = "registered", !.window = w, !.kind = kind]]
    /\ UNCHANGED <<turns, history, recency, generations, nextGeneration, appending>>

\* the Ok response cannot be written: the handler returns, its guard drops
OkFails(r) ==
    /\ request[r].step = "registered"
    /\ Ends(r, "dropped")
    /\ UNCHANGED <<turns, history, recency, generations, nextGeneration, appending>>

ReadConfig(r) ==
    /\ request[r].step = "registered"
    /\ request' = [request EXCEPT ![r].step = "prepared", ![r].turns = turns]
    /\ UNCHANGED <<turns, history, recency, generations, nextGeneration, appending>>

\* fault: the window keeps its generation when it is cleared
ResetKeepsGeneration(r) ==
    /\ request[r].step = "prepared" /\ request[r].kind = "new"
    /\ LET w == request[r].window
       IN  /\ history' = [history EXCEPT ![w] = <<>>]
           /\ recency' = Used(w)
           /\ request' = [Outdate(w) EXCEPT ![r] = Ended(@, "dropped")]
    /\ UNCHANGED <<turns, generations, nextGeneration, appending>>

\* //new: clear the window and move it to a fresh generation; no eviction here
HistoryReset(r) ==
    /\ request[r].step = "prepared" /\ request[r].kind = "new"
    /\ LET w == request[r].window
           next == IF generations[w] # 0 THEN nextGeneration ELSE nextGeneration + 1
       IN  /\ history' = [history EXCEPT ![w] = <<>>]
           /\ recency' = Used(w)
           /\ request' = [Outdate(w) EXCEPT ![r] = Ended(@, "dropped")]
           /\ IF EnsuredGeneration(w) = 0
              THEN UNCHANGED <<generations, nextGeneration>>
              ELSE /\ generations' = [generations EXCEPT ![w] = next]
                   /\ nextGeneration' = next + 1
    /\ UNCHANGED <<turns, appending>>

\* history_snapshot and history_ensure_generation, under both locks; an image
\* request and a request made with the context turned off take neither
Snapshot(r) ==
    /\ request[r].step = "prepared" /\ request[r].kind # "new"
    /\ LET w == request[r].window
           multi == request[r].kind = "text" /\ request[r].turns > 0
           mine == IF multi THEN EnsuredGeneration(w) ELSE 0
       IN  /\ request' = [request EXCEPT ![r].step = "streaming",
                                         ![r].generation = mine]
           /\ IF mine # 0 /\ generations[w] = 0
              THEN /\ generations' = [generations EXCEPT ![w] = mine]
                   /\ nextGeneration' = nextGeneration + 1
              ELSE UNCHANGED <<generations, nextGeneration>>
    /\ UNCHANGED <<turns, history, recency, appending>>

\* the provider cannot be reached, its stream breaks, or the frontend is gone
StreamFails(r) ==
    /\ request[r].step = "streaming"
    /\ Ends(r, "dropped")
    /\ UNCHANGED <<turns, history, recency, generations, nextGeneration, appending>>

\* LlmCancel has found the request: its token is triggered
Cancel(r) ==
    /\ Running(r) /\ ~request[r].cancelled
    /\ request' = [request EXCEPT ![r].cancelled = TRUE]
    /\ UNCHANGED <<turns, history, recency, generations, nextGeneration, appending>>

\* select! takes the token; a Final is sent all the same, with what there is
SeeCancel(r) ==
    /\ request[r].step = "streaming"
    /\ request[r].cancelled
    /\ request' = [request EXCEPT ![r].step = "answered", ![r].half = TRUE]
    /\ UNCHANGED <<turns, history, recency, generations, nextGeneration, appending>>

\* select! takes the end of the stream, whatever the token says; Final is sent
StreamEnds(r) ==
    /\ request[r].step = "streaming"
    /\ Goes(r, "answered")
    /\ UNCHANGED <<turns, history, recency, generations, nextGeneration, appending>>

TurnWith(r) ==
    Trim(history[request[r].window] \o <<Prompt(r), Reply(r)>>, 2 * request[r].turns)
OfItsGeneration(r) ==
    /\ request[r].generation # 0
    /\ generations[request[r].window] = request[r].generation

\* fault: the answer is written back whoever ended the stream
AppendHalf(r) == OfItsGeneration(r)

\* what history_append is called for, and does not refuse
Remembers(r) == OfItsGeneration(r) /\ ~request[r].half

HistoryAppend(r) ==
    /\ request[r].step = "answered"
    /\ \/ /\ Remembers(r)
          /\ Ends(r, "remembered")
          /\ Write(request[r].window, TurnWith(r))
       \/ /\ ~Remembers(r)
          /\ Ends(r, "dropped")
          /\ UNCHANGED <<history, recency>>
    /\ UNCHANGED <<turns, generations, nextGeneration, appending>>

(***************************************************************************)
(* LlmAppendContext, LlmSessionEnd, SetConfig, and the end of the daemon.  *)
(***************************************************************************)
\* the handler has read ai_context_turns and has not taken the history lock
AppendContext(w, n) ==
    /\ appending = None /\ turns > 0
    /\ appending' = [window |-> w, length |-> IF n > MaxSingle THEN MaxSingle ELSE n,
                     turns |-> turns]
    /\ UNCHANGED <<turns, history, recency, generations, nextGeneration, request>>

\* adjacent commits are merged up to MaxMerge characters
Merged(msgs, n) ==
    LET k == Len(msgs)
    IN  IF k > 0 /\ msgs[k].origin = "Commit" /\ msgs[k].length + n <= MaxMerge
        THEN [msgs EXCEPT ![k] = CommitText(msgs[k].length + n)]
        ELSE Append(msgs, CommitText(n))

HistoryAppendContext ==
    /\ appending # None
    /\ appending' = None
    /\ LET w == appending.window
       IN  IF appending.length = 0
           THEN UNCHANGED <<history, recency>>
           ELSE Write(w, Trim(Merged(history[w], appending.length), 2 * appending.turns))
    /\ UNCHANGED <<turns, generations, nextGeneration, request>>

\* the window was closed: its history and its generation go
HistorySessionEnd(w) ==
    /\ history' = [history EXCEPT ![w] = <<>>]
    /\ recency' = Other(w)
    /\ generations' = [generations EXCEPT ![w] = 0]
    /\ request' = Outdate(w)
    /\ UNCHANGED <<turns, nextGeneration, appending>>

SetConfig(t) ==
    /\ turns' = t
    /\ UNCHANGED <<history, recency, generations, nextGeneration, request, appending>>

\* nothing of this survives the daemon, the ticks included
Restart ==
    /\ history' = [w \in Windows |-> <<>>]
    /\ recency' = <<>>
    /\ generations' = [w \in Windows |-> 0]
    /\ nextGeneration' = 1
    /\ request' = [r \in Requests |->
                    IF Running(r) THEN Ended(request[r], "dropped")
                    ELSE request[r]]
    /\ appending' = None
    /\ UNCHANGED turns

Init ==
    /\ turns \in Turns
    /\ history = [w \in Windows |-> <<>>]
    /\ recency = <<>>
    /\ generations = [w \in Windows |-> 0]
    /\ nextGeneration = 1
    /\ request = [r \in Requests |-> Unused]
    /\ appending = None

Generate(r) ==
    \/ \E w \in Windows, kind \in Kinds : Register(r, w, kind)
    \/ OkFails(r)
    \/ ReadConfig(r)
    \/ HistoryReset(r)
    \/ Snapshot(r)
    \/ StreamFails(r)
    \/ Cancel(r)
    \/ SeeCancel(r)
    \/ StreamEnds(r)
    \/ HistoryAppend(r)

Next ==
    \/ \E r \in Requests : Generate(r)
    \/ \E w \in Windows, n \in CommitLengths : AppendContext(w, n)
    \/ HistoryAppendContext
    \/ \E w \in Windows : HistorySessionEnd(w)
    \/ \E t \in Turns : SetConfig(t)
    \/ Restart

Spec == Init /\ [][Next]_vars
-----------------------------------------------------------------------------
(***************************************************************************)
(* Properties.                                                             *)
(***************************************************************************)
\* Every variable keeps its type; a window is listed once, and only a window
\* that is listed has messages.
TypeOK ==
    /\ turns \in Nat
    /\ history \in [Windows -> Seq(Messages)]
    /\ recency \in Seq(Windows)
    /\ \A i, j \in DOMAIN recency : recency[i] = recency[j] => i = j
    /\ \A w \in Windows : history[w] # <<>> => Present(w)
    /\ generations \in [Windows -> Nat]
    /\ nextGeneration \in Nat \ {0}
    /\ request \in [Requests -> Handlers]
    /\ appending \in [window : Windows, length : Nat, turns : Nat \ {0}] \cup {None}

\* A window that was cleared by //new or closed does not come back: no message
\* of a request that was under way then is ever in a history, however late it
\* ends and whatever was evicted or started again meanwhile.
NoResurrection ==
    \A w \in Windows : \A i \in 1..Len(history[w]) :
        history[w][i].of # None => ~request[history[w][i].of].stale

PromptKeepsReply(msgs) ==
    \A i \in 1..Len(msgs) : msgs[i].origin = "Prompt" =>
        i < Len(msgs) /\ msgs[i + 1] = Reply(msgs[i].of)
ReplyKeepsPrompt(msgs) ==
    \A i \in 2..Len(msgs) : msgs[i].origin = "Reply" => msgs[i - 1] = Prompt(msgs[i].of)

\* Requests of one window that overlap do not tear each other's turns, nor do
\* commits: a prompt is followed by its own reply, a reply without its prompt is
\* the first message the trimming left.
TurnsWhole ==
    \A w \in Windows : PromptKeepsReply(history[w]) /\ ReplyKeepsPrompt(history[w])

\* Half an answer never becomes context, though a cancel may come at any moment.
AnswersComplete ==
    \A w \in Windows : \A i \in 1..Len(history[w]) :
        history[w][i].of # None => ~request[history[w][i].of].half

\* Commits between two turns are merged while they fit in one message.
CommitsMerged ==
    \A w \in Windows : \A i \in 1..(Len(history[w]) - 1) :
        history[w][i].origin = "Commit" /\ history[w][i + 1].origin = "Commit"
            => history[w][i].length + history[w][i + 1].length > MaxMerge

\* Both together: what a window gives the next request is a conversation, in
\* whatever order its requests end and its commits come in between.
ContextWellFormed == TurnsWhole /\ CommitsMerged

\* What is written is there: the window written is the last used, and never the
\* one evicted to make room for it.
Written(w) == recency'[Len(recency')] = w /\ history'[w] # <<>>
EvictionSparesWriter ==
    [][/\ \A r \in Requests :
            HistoryAppend(r) /\ Remembers(r) => Written(request[r].window)
       /\ HistoryAppendContext /\ appending.length > 0 => Written(appending.window)]_vars

=============================================================================
