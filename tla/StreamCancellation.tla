------------------------- MODULE StreamCancellation -------------------------
(***************************************************************************)
(* Starting and giving up an AI stream on Windows.  A frontend's UI thread *)
(* (text_service.rs) advances stream_epoch and spawns one worker thread    *)
(* per stream; the worker opens a connection of its own, asks the daemon,  *)
(* installs its token in stream_request_id, looks at the epoch once and    *)
(* then queues events that on_timer filters by epoch.  cancel_stream       *)
(* reaches the daemon (handler.rs) over the control connection.            *)
(*                                                                         *)
(* Abstractions.                                                           *)
(*  - A stream is one request, known beforehand to belong to a frontend.   *)
(*    Its packed token is the stream itself, its epoch is ticket[s].       *)
(*  - Every worker connection pings first and asks second, so the request  *)
(*    id is the same for all streams: cancels, the daemon's table of       *)
(*    (connection, id), is a set of streams, and a cancel sent over the    *)
(*    control connection never has an exact key.                           *)
(*  - awaiting[f] is what the composition machine knows of a stream: the   *)
(*    one it is Streaming for, or None; on_llm_* do nothing then.          *)
(*  - Chunks carry no text.  Candidate requests, which share the table,    *)
(*    and what the worker does before it asks (screenshot, OCR) are not    *)
(*    modelled; their failures are those of AskFails.                      *)
(***************************************************************************)
EXTENDS Integers, Sequences

CONSTANTS
    Frontends,   \* text services, one per host thread
    Streams,     \* the LLM requests that may be made
    Owner,       \* the frontend that makes each
    None,
    MaxEpoch,    \* model bound on each frontend's stream_epoch
    MaxChunks,   \* model bound on the chunks of each stream
    DaemonMayDie \* whether runs include the end of the daemon

ASSUME StreamAssumption ==
    /\ Owner \in [Streams -> Frontends]
    /\ None \notin Streams
    /\ MaxEpoch \in [Frontends -> Nat]
    /\ MaxChunks \in [Streams -> Nat]
    /\ DaemonMayDie \in BOOLEAN

VARIABLES
    epoch,       \* stream_epoch of each frontend
    slot,        \* stream_request_id: the stream whose token it holds, or None
    awaiting,    \* the stream the frontend's machine is Streaming for, or None
    call,        \* where the UI thread is in cancel_stream
    held,        \* the token cancel_stream has loaded
    chunks,      \* the queue on_timer drains
    ticket,      \* the epoch a stream was started with, 0 before
    worker,      \* where a stream's worker thread is
    handler,     \* where its handle_llm_generate is
    cancels,     \* the streams registered in the daemon
    cancelled,   \* the streams whose CancellationToken was triggered
    sent,        \* chunks sent so far
    wire         \* the frames on a stream's connection that are not read yet

ui == <<epoch, awaiting, call, held>>
threads == <<ticket, worker>>
daemon == <<handler, cancels, cancelled, sent, wire>>
vars == <<ui, slot, chunks, threads, daemon>>

Calls == {"idle", "loaded", "sending", "clearing"}
Works == {"unused", "asking", "installed", "reading", "late", "leaving", "done"}
Handlers == {"none", "opening", "streaming", "closing", "gone", "lost"}
Live == {"opening", "streaming", "closing"}
Kinds == {"Chunk", "Final", "Error"}
Ends == {"Final", "Error"}

Init ==
    /\ epoch = [f \in Frontends |-> 0]
    /\ slot = [f \in Frontends |-> None]
    /\ awaiting = [f \in Frontends |-> None]
    /\ call = [f \in Frontends |-> "idle"]
    /\ held = [f \in Frontends |-> None]
    /\ chunks = [f \in Frontends |-> <<>>]
    /\ ticket = [s \in Streams |-> 0]
    /\ worker = [s \in Streams |-> "unused"]
    /\ handler = [s \in Streams |-> "none"]
    /\ cancels = {}
    /\ cancelled = {}
    /\ sent = [s \in Streams |-> 0]
    /\ wire = [s \in Streams |-> <<>>]

(***************************************************************************)
(* What several steps share.                                               *)
(***************************************************************************)
\* Fault: a bare store(0).
ClearedAlways(f, s) == None

\* compare_exchange(token, 0): the slot loses this token and no other.
Cleared(f, s) == IF slot[f] = s THEN None ELSE slot[f]

\* Fault: the fallback takes a stream although there are several.
ResolvedAnyway(exact) ==
    IF exact \cap cancels # {} THEN exact \cap cancels
    ELSE {s \in cancels : s = CHOOSE t \in cancels : TRUE}

\* resolve_cancel: the exact key, else the only stream there is.
Resolved(exact) ==
    IF exact \cap cancels # {} THEN exact \cap cancels
    ELSE IF \E s \in Streams : cancels = {s} THEN cancels
    ELSE {}

LlmCancel(exact) ==
    /\ cancels' = cancels \ Resolved(exact)
    /\ cancelled' = cancelled \cup Resolved(exact)
    /\ UNCHANGED <<handler, sent, wire>>

Queue(s, kind) ==
    chunks' = [chunks EXCEPT ![Owner[s]] =
                  Append(@, [stream |-> s, kind |-> kind])]

\* The filter of on_timer.
Passes(f, e) == ticket[e.stream] = epoch[f]

(***************************************************************************)
(* The UI thread.                                                          *)
(***************************************************************************)
\* start_llm_with_system: the machine has just entered Streaming.
Start(s) ==
    LET f == Owner[s] IN
    /\ call[f] = "idle" /\ awaiting[f] = None
    /\ worker[s] = "unused" /\ epoch[f] < MaxEpoch[f]
    /\ epoch' = [epoch EXCEPT ![f] = @ + 1]
    /\ ticket' = [ticket EXCEPT ![s] = epoch[f] + 1]
    /\ worker' = [worker EXCEPT ![s] = "asking"]
    /\ awaiting' = [awaiting EXCEPT ![f] = s]
    /\ UNCHANGED <<call, held, slot, chunks, daemon>>

\* on_timer: what the filter lets pass goes to the machine.
OnTimer(f) ==
    /\ call[f] = "idle" /\ chunks[f] # <<>>
    /\ chunks' = [chunks EXCEPT ![f] = <<>>]
    /\ awaiting' = [awaiting EXCEPT ![f] =
          IF \E i \in 1..Len(chunks[f]) :
                 Passes(f, chunks[f][i]) /\ chunks[f][i].kind \in Ends
          THEN None ELSE @]
    /\ UNCHANGED <<epoch, call, held, slot, threads, daemon>>

\* toggle_ime and tsf_deactivate replace the machine and cancel nothing.
Reset(f) ==
    /\ call[f] = "idle" /\ awaiting[f] # None
    /\ awaiting' = [awaiting EXCEPT ![f] = None]
    /\ UNCHANGED <<epoch, call, held, slot, chunks, threads, daemon>>

\* cancel_stream, for Escape, a commit or an ended composition: the machine
\* has left Streaming before; the token is loaded first.
CancelLoads(f) ==
    /\ call[f] = "idle" /\ epoch[f] < MaxEpoch[f]
    /\ awaiting' = [awaiting EXCEPT ![f] = None]
    /\ held' = [held EXCEPT ![f] = slot[f]]
    /\ call' = [call EXCEPT ![f] = "loaded"]
    /\ UNCHANGED <<epoch, slot, chunks, threads, daemon>>

\* The generation is advanced; a token of another one is only cleared.
CancelBumps(f) ==
    /\ call[f] = "loaded"
    /\ epoch' = [epoch EXCEPT ![f] = @ + 1]
    /\ call' = [call EXCEPT ![f] =
          IF held[f] # None /\ ticket[held[f]] = epoch[f]
          THEN "sending" ELSE "clearing"]
    /\ UNCHANGED <<awaiting, held, slot, chunks, threads, daemon>>

\* cancel_with_retry: the daemon takes the cancel, or cannot be reached.
CancelSends(f) ==
    /\ call[f] = "sending"
    /\ call' = [call EXCEPT ![f] = "clearing"]
    /\ \/ LlmCancel({})
       \/ UNCHANGED daemon
    /\ UNCHANGED <<epoch, awaiting, held, slot, chunks, threads>>

CancelClears(f) ==
    /\ call[f] = "clearing"
    /\ slot' = [slot EXCEPT ![f] =
          IF held[f] = None THEN @ ELSE Cleared(f, held[f])]
    /\ held' = [held EXCEPT ![f] = None]
    /\ call' = [call EXCEPT ![f] = "idle"]
    /\ UNCHANGED <<epoch, awaiting, chunks, threads, daemon>>

(***************************************************************************)
(* The worker thread.                                                      *)
(***************************************************************************)
\* No daemon, no screenshot, or llm_start fails.
AskFails(s) ==
    /\ worker[s] = "asking" /\ handler[s] \in {"none", "lost"}
    /\ Queue(s, "Error")
    /\ worker' = [worker EXCEPT ![s] = "done"]
    /\ UNCHANGED <<ui, slot, ticket, daemon>>

\* llm_start has returned: install_stream_token, which never replaces a token
\* of the same or a later epoch.
InstallStreamToken(s) ==
    LET f == Owner[s] IN
    /\ worker[s] = "asking" /\ handler[s] # "none"
    /\ slot' = [slot EXCEPT ![f] =
          IF @ # None /\ ticket[@] >= ticket[s] THEN @ ELSE s]
    /\ worker' = [worker EXCEPT ![s] = "installed"]
    /\ UNCHANGED <<ui, chunks, ticket, daemon>>

CheckEpoch(s) ==
    /\ worker[s] = "installed"
    /\ worker' = [worker EXCEPT ![s] =
          IF epoch[Owner[s]] = ticket[s] THEN "reading" ELSE "late"]
    /\ UNCHANGED <<ui, slot, chunks, ticket, daemon>>

\* Given up while it was starting: the worker cancels over its connection.
CancelLate(s) ==
    /\ worker[s] = "late"
    /\ worker' = [worker EXCEPT ![s] = "leaving"]
    /\ IF handler[s] = "lost" THEN UNCHANGED daemon ELSE LlmCancel({s})
    /\ UNCHANGED <<ui, slot, chunks, ticket>>

\* next_event, until the stream's last event.
Read(s) ==
    /\ worker[s] = "reading" /\ wire[s] # <<>>
    /\ Queue(s, Head(wire[s]))
    /\ wire' = [wire EXCEPT ![s] = Tail(@)]
    /\ worker' = [worker EXCEPT ![s] =
          IF Head(wire[s]) \in Ends THEN "leaving" ELSE "reading"]
    /\ UNCHANGED <<ui, slot, ticket, handler, cancels, cancelled, sent>>

\* The connection broke; frames that were on it may be lost.
ReadBroken(s) ==
    /\ worker[s] = "reading" /\ handler[s] = "lost"
    /\ Queue(s, "Error")
    /\ worker' = [worker EXCEPT ![s] = "leaving"]
    /\ UNCHANGED <<ui, slot, ticket, daemon>>

\* The thread takes its own token out of the slot and ends.
Leave(s) ==
    LET f == Owner[s] IN
    /\ worker[s] = "leaving"
    /\ slot' = [slot EXCEPT ![f] = Cleared(f, s)]
    /\ worker' = [worker EXCEPT ![s] = "done"]
    /\ UNCHANGED <<ui, chunks, ticket, daemon>>

(***************************************************************************)
(* The daemon.                                                             *)
(***************************************************************************)
\* handle_llm_generate registers its token and answers Ok.
Register(s) ==
    /\ worker[s] = "asking" /\ handler[s] = "none"
    /\ handler' = [handler EXCEPT ![s] = "opening"]
    /\ cancels' = cancels \cup {s}
    /\ UNCHANGED <<ui, slot, chunks, threads, cancelled, sent, wire>>

\* The provider's stream opens; its token is not looked at before.
Opens(s) ==
    /\ handler[s] = "opening"
    /\ handler' = [handler EXCEPT ![s] = "streaming"]
    /\ UNCHANGED <<ui, slot, chunks, threads, cancels, cancelled, sent, wire>>

\* The handler sends its last event and is about to return.
Ending(s, kind) ==
    /\ handler' = [handler EXCEPT ![s] = "closing"]
    /\ wire' = [wire EXCEPT ![s] = Append(@, kind)]
    /\ UNCHANGED <<ui, slot, chunks, threads, cancels, cancelled, sent>>

\* A built-in command is answered at once, or the provider refuses.
Answers(s) == handler[s] = "opening" /\ \E kind \in Ends : Ending(s, kind)

SendsChunk(s) ==
    /\ handler[s] = "streaming" /\ sent[s] < MaxChunks[s]
    /\ sent' = [sent EXCEPT ![s] = @ + 1]
    /\ wire' = [wire EXCEPT ![s] = Append(@, "Chunk")]
    /\ UNCHANGED <<ui, slot, chunks, threads, handler, cancels, cancelled>>

\* The provider's stream ends or fails.
Ended(s) == handler[s] = "streaming" /\ \E kind \in Ends : Ending(s, kind)

\* Fault: a cancelled handler returns without telling the client.
SeesTokenSilently(s) ==
    /\ handler[s] = "streaming" /\ s \in cancelled
    /\ handler' = [handler EXCEPT ![s] = "closing"]
    /\ UNCHANGED <<ui, slot, chunks, threads, cancels, cancelled, sent, wire>>

\* select! takes the cancelled branch; Final is sent all the same.
SeesToken(s) ==
    handler[s] = "streaming" /\ s \in cancelled /\ Ending(s, "Final")

\* A chunk cannot be written because the worker has closed the connection.
WriteFails(s) ==
    /\ handler[s] = "streaming" /\ worker[s] = "done"
    /\ handler' = [handler EXCEPT ![s] = "closing"]
    /\ UNCHANGED <<ui, slot, chunks, threads, cancels, cancelled, sent, wire>>

\* Fault: a handler without the guard.
ReturnsUnguarded(s) ==
    /\ handler[s] = "closing"
    /\ handler' = [handler EXCEPT ![s] = "gone"]
    /\ UNCHANGED <<ui, slot, chunks, threads, cancels, cancelled, sent, wire>>

\* The handler returns; CancelGuard drops its entry.
Returns(s) ==
    /\ handler[s] = "closing"
    /\ handler' = [handler EXCEPT ![s] = "gone"]
    /\ cancels' = cancels \ {s}
    /\ UNCHANGED <<ui, slot, chunks, threads, cancelled, sent, wire>>

\* The daemon ends with everything it knew; the next one starts empty.
DaemonDies ==
    /\ DaemonMayDie
    /\ \E s \in Streams : handler[s] \in Live
    /\ handler' = [s \in Streams |->
                      IF handler[s] \in Live THEN "lost" ELSE handler[s]]
    /\ cancels' = {}
    /\ UNCHANGED <<ui, slot, chunks, threads, cancelled, sent, wire>>

UiStep(f) ==
    \/ OnTimer(f) \/ Reset(f)
    \/ CancelLoads(f) \/ CancelBumps(f) \/ CancelSends(f) \/ CancelClears(f)

WorkerStep(s) ==
    \/ AskFails(s) \/ InstallStreamToken(s) \/ CheckEpoch(s) \/ CancelLate(s)
    \/ Read(s) \/ ReadBroken(s) \/ Leave(s)

HandlerStep(s) ==
    \/ Register(s) \/ Opens(s) \/ Answers(s) \/ SendsChunk(s) \/ Ended(s)
    \/ SeesToken(s) \/ WriteFails(s) \/ Returns(s)

Next ==
    \/ \E f \in Frontends : UiStep(f)
    \/ \E s \in Streams : Start(s) \/ WorkerStep(s) \/ HandlerStep(s)
    \/ DaemonDies

Spec == Init /\ [][Next]_vars

\* Threads and tasks are scheduled, and opening the provider's stream ends
\* because the HTTP client limits connecting and reading.
Fairness ==
    \A s \in Streams :
        /\ WF_vars(WorkerStep(s))
        /\ WF_vars(Opens(s) \/ Answers(s))
        /\ WF_vars(SeesToken(s))

FairSpec == Spec /\ Fairness

(***************************************************************************)
(* Properties.                                                             *)
(***************************************************************************)
FrontendTypes ==
    /\ epoch \in [Frontends -> Nat]
    /\ slot \in [Frontends -> Streams \cup {None}]
    /\ awaiting \in [Frontends -> Streams \cup {None}]
    /\ call \in [Frontends -> Calls]
    /\ held \in [Frontends -> Streams \cup {None}]

StreamTypes ==
    /\ chunks \in [Frontends -> Seq([stream : Streams, kind : Kinds])]
    /\ ticket \in [Streams -> Nat]
    /\ worker \in [Streams -> Works]
    /\ handler \in [Streams -> Handlers]
    /\ cancels \subseteq Streams
    /\ cancelled \subseteq Streams
    /\ sent \in [Streams -> Nat]
    /\ wire \in [Streams -> Seq(Kinds)]

TokensKnown ==
    \A f \in Frontends, s \in Streams : s \in {slot[f], held[f], awaiting[f]} =>
        Owner[s] = f /\ ticket[s] \in 1..epoch[f]

\* Types, and whose token a slot and a cancel_stream under way may hold: one
\* of the same frontend, started no later than the present epoch.
TypeOK == FrontendTypes /\ StreamTypes /\ TokensKnown

\* While a machine is Streaming, the queue's filter lets pass the events of
\* the stream it waits for, every one of them, and no other stream's: not of
\* one that was cancelled, retried, or abandoned by a reset (P2-2).
OwnEventsOnly ==
    \A f \in Frontends : awaiting[f] # None =>
        \A i \in 1..Len(chunks[f]) :
            Passes(f, chunks[f][i]) <=> chunks[f][i].stream = awaiting[f]

\* An ending event is the last one of its stream in the queue: an Error after
\* a Final would turn a finished answer into a failed one (on_llm_error).
EndsOnce ==
    \A f \in Frontends : \A i, j \in 1..Len(chunks[f]) :
        i < j /\ chunks[f][i].stream = chunks[f][j].stream
            => chunks[f][i].kind \notin Ends

\* A stream of the present epoch that is being read can be cancelled: no late
\* install, no late clean-up of another worker and no earlier cancel has taken
\* its token out of the slot.
CurrentTicketKept ==
    \A s \in Streams :
        worker[s] = "reading" /\ ticket[s] = epoch[Owner[s]]
            => slot[Owner[s]] = s

\* The daemon's table holds exactly the handlers that run and were not
\* cancelled, on every way out of a handler (P2-8).
TableTracksHandlers ==
    cancels = {s \in Streams : handler[s] \in Live /\ s \notin cancelled}

\* A cancel whose own stream is still registered cancels no other one, however
\* many streams of other frontends carry the same id (V5).
CancelHitsItsOwn ==
    [][/\ \A f \in Frontends :
             call[f] = "sending" /\ call'[f] = "clearing" /\ held[f] \in cancels
                 => cancelled' \subseteq cancelled \cup {held[f]}
       /\ \A s \in Streams :
             worker[s] = "late" /\ worker'[s] = "leaving" /\ s \in cancels
                 => cancelled' = cancelled \cup {s}]_vars

\* A triggered token brings the worker home: the daemon answers with Final
\* even when it cancels, so the thread does not stay in its blocking read.
CancelledWorkerEnds ==
    \A s \in Streams : s \in cancelled ~> worker[s] = "done"

=============================================================================
