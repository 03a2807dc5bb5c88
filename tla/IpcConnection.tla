---------------------------- MODULE IpcConnection ----------------------------
(***************************************************************************)
(* One connection between a client (verba-ipc client.rs: VerbaClient) and *)
(* the daemon's server (server.rs: handle_connection), with the frames of  *)
(* codec.rs and the answers each handler writes (handler.rs: handle).      *)
(*                                                                         *)
(* The client writes a request and reads frames until it has its answer.   *)
(* The server reads frames, starts a task for each request, and writes     *)
(* what the tasks put in one queue.  A frame carries no mark of being a    *)
(* response or an event: both messages keep the id in field 1 and use the  *)
(* same field numbers, so each decodes as the other.                       *)
(***************************************************************************)
EXTENDS Naturals, Sequences, SequencesExt, FiniteSets

CONSTANTS Kinds,         \* the requests the client makes
          Large,         \* requests too large for the transport's buffer
          MaxCalls,      \* bound: calls made
          MaxChunks,     \* bound: events of a stream before its last
          OutCap,        \* capacity of the queue of outgoing frames
          PipeCap,       \* frames the transport holds
          ClientBuilds   \* FALSE: LlmClient::new may fail in ListModels

Plain == [ping |-> "Pong", get_config |-> "Config", set_config |-> "Ok",
          set_mode |-> "Ok", set_api_key |-> "Ok", rime_install_extra |-> "Ok",
          append |-> "Ok", session_end |-> "Ok", tts |-> "Audio",
          ocr |-> "Text", asr |-> "Text", list_models |-> "ModelList"]

Streams == {"generate", "candidates"}

ASSUME ConnectionAssumption ==
    /\ Kinds \subseteq DOMAIN Plain \cup Streams \cup {"rime"}
    /\ Large \subseteq Kinds
    /\ MaxCalls \in Nat /\ MaxChunks \in Nat
    /\ OutCap \in Nat \ {0} /\ PipeCap \in Nat \ {0}
    /\ ClientBuilds \in BOOLEAN

VARIABLES
    call,            \* the client's call: kind, id, number, where it is
    next_id,         \* ids are counted per connection
    pending_events,  \* events read while waiting for something else
    up,              \* bytes on the way to the server, in pieces
    reader,          \* the server's read loop
    tasks,           \* the handlers at work
    out,             \* the queue of outgoing frames
    down,            \* frames on the way to the client
    wire,            \* "open", "closed" by the server, "gone"
    results,         \* history: how each call ended, and by which frame
    served           \* history: the calls a handler was started for

clientVars == <<call, next_id, pending_events, results>>
serverVars == <<reader, tasks, out, served>>
connectionVars == <<clientVars, serverVars, up, down, wire>>

-----------------------------------------------------------------------------
(* Frames.                                                                 *)

Tag == [Pong |-> 2, Ok |-> 3, Error |-> 4, Text |-> 5, Config |-> 6,
        Audio |-> 7, ModelList |-> 8, Chunk |-> 2, Final |-> 3, Candidates |-> 5]

\* What Response::decode and StreamEvent::decode make of a field number.
AsResponse == <<"none", "Pong", "Ok", "Error", "Text", "Config", "Audio", "ModelList">>
AsEvent == <<"none", "Chunk", "Final", "Error", "Candidates", "none", "none", "none">>

\* done is a field of Candidates alone.
Frame(t, kind, done) == [id |-> t.id, tag |-> Tag[kind], done |-> done,
                         kind |-> kind, number |-> t.number]

Idle == [kind |-> "ping", id |-> 0, number |-> 0, at |-> "none"]

\* Every request is one frame; a large one arrives in two pieces.
Pieces(c) ==
    LET p(part) == [part |-> part, kind |-> c.kind, id |-> c.id, number |-> c.number]
    IN IF c.kind \in Large THEN <<p("head"), p("rest")>> ELSE <<p("whole")>>

ConnectionInit ==
    /\ call = Idle
    /\ next_id = 1
    /\ pending_events = <<>>
    /\ up = <<>> /\ down = <<>> /\ out = <<>>
    /\ reader = "start"
    /\ tasks = {}
    /\ wire = "gone"
    /\ results = <<>>
    /\ served = {}

-----------------------------------------------------------------------------
(* The client.                                                             *)

Write(kind, id) ==
    LET c == [kind |-> kind, id |-> id, number |-> Len(results) + 1,
              at |-> IF kind \in Large THEN "rest" ELSE "answer"]
    IN /\ Len(results) < MaxCalls
       /\ call' = c
       /\ up' = Append(up, Pieces(c)[1])

\* connect_verified: a new connection, whose first request is a ping.
ConnectVerified ==
    /\ wire = "gone"
    /\ Len(results) < MaxCalls
    /\ wire' = "open"
    /\ call' = [kind |-> "ping", id |-> 1, number |-> Len(results) + 1, at |-> "answer"]
    /\ up' = Pieces(call')
    /\ next_id' = 2
    /\ pending_events' = <<>>
    /\ down' = <<>> /\ out' = <<>>
    /\ reader' = "start" /\ tasks' = {}
    /\ UNCHANGED <<results, served>>

\* request and the calls with a loop of their own: new_id, write_request.
Call(kind) ==
    /\ wire = "open" /\ call.at = "none"
    /\ Write(kind, next_id)
    /\ next_id' = next_id + 1
    /\ UNCHANGED <<pending_events, results, serverVars, down, wire>>

\* write_all goes on when the transport has room again.
WriteRest ==
    /\ wire = "open" /\ call.at = "rest"
    /\ call' = [call EXCEPT !.at = "answer"]
    /\ up' = Append(up, Pieces(call)[2])
    /\ UNCHANGED <<next_id, pending_events, results, serverVars, down, wire>>

\* How a call ends: the caller of one that failed drops its client.
Return(verdict, from) ==
    /\ results' = Append(results, [kind |-> call.kind, id |-> call.id, verdict |-> verdict,
                                   from |-> from.number, frame |-> from.kind])
    /\ call' = Idle
    /\ wire' = IF verdict = "ok" /\ call.kind # "cancel" THEN wire ELSE "gone"

NoFrame == [number |-> 0, kind |-> "none"]

\* request, llm_list_models, rime_candidates, llm_cancel: whether a frame
\* is about this call.  The id of ListModels' answer is not looked at.
Mine(f) == f.id = call.id \/ call.kind = "list_models"

\* Fault: the responses are decoded first in rime_candidates.
IsAnswerResponseFirst(f) ==
    IF call.kind = "rime" THEN AsResponse[f.tag] = "Ok"
    ELSE IF call.kind = "cancel" THEN TRUE
    ELSE AsResponse[f.tag] = IF call.kind \in Streams THEN "Ok" ELSE Plain[call.kind]

\* The frame is the answer.  rime_candidates reads events first and waits
\* for the one with done; llm_cancel takes anything with the stream's id.
IsAnswer(f) ==
    IF call.kind = "rime" THEN AsEvent[f.tag] = "Candidates" /\ f.done
    ELSE IF call.kind = "cancel" THEN TRUE
    ELSE AsResponse[f.tag] = IF call.kind \in Streams THEN "Ok" ELSE Plain[call.kind]

\* rime_candidates goes on after what is neither candidates nor an error.
PassedOver(f) == call.kind = "rime" /\ AsEvent[f.tag] # "Error"

\* Calls that take a frame with another id for a protocol error.
Strict == Streams \cup {"append", "session_end"}

\* read_frame_blocking and what the waiting call makes of the frame.
ReadAnswer ==
    /\ wire # "gone" /\ call.at = "answer" /\ down # <<>>
    /\ LET f == Head(down) IN
       /\ down' = Tail(down)
       /\ \/ /\ ~Mine(f) /\ call.kind \in Strict
             /\ Return("error", f) /\ UNCHANGED pending_events
          \/ /\ ~Mine(f) /\ call.kind \notin Strict
             /\ pending_events' = IF call.kind = "rime" THEN Append(pending_events, f)
                                  ELSE pending_events
             /\ UNCHANGED <<call, results, wire>>
          \/ /\ Mine(f) /\ IsAnswer(f) /\ call.kind \in Streams
             /\ call' = [call EXCEPT !.at = "started"]
             /\ UNCHANGED <<pending_events, results, wire>>
          \/ /\ Mine(f) /\ IsAnswer(f) /\ call.kind \notin Streams
             /\ Return("ok", f) /\ UNCHANGED pending_events
          \/ /\ Mine(f) /\ ~IsAnswer(f) /\ PassedOver(f)
             /\ UNCHANGED <<call, pending_events, results, wire>>
          \/ /\ Mine(f) /\ ~IsAnswer(f) /\ ~PassedOver(f)
             /\ Return("error", f) /\ UNCHANGED pending_events
    /\ UNCHANGED <<next_id, serverVars, up>>

\* The last event of a stream, as the loops around next_event see it.
EndsStream(f) ==
    \/ AsEvent[f.tag] = "Error"
    \/ call.kind = "generate" /\ AsEvent[f.tag] = "Final"
    \/ call.kind = "candidates" /\ AsEvent[f.tag] = "Candidates" /\ f.done

TakeEvent(f) ==
    IF EndsStream(f)
    THEN Return(IF AsEvent[f.tag] = "Error" THEN "error" ELSE "ok", f)
    ELSE call' = [call EXCEPT !.at = "events"] /\ UNCHANGED <<results, wire>>

\* next_event: an event kept from before, or the next frame of this id.
NextEvent ==
    /\ wire # "gone" /\ call.at \in {"started", "events"}
    /\ \/ \E i \in DOMAIN pending_events :
             /\ pending_events[i].id = call.id
             /\ \A j \in 1..(i - 1) : pending_events[j].id # call.id
             /\ pending_events' = RemoveAt(pending_events, i)
             /\ TakeEvent(pending_events[i])
             /\ UNCHANGED down
       \/ /\ \A i \in DOMAIN pending_events : pending_events[i].id # call.id
          /\ down # <<>>
          /\ down' = Tail(down)
          /\ IF Head(down).id = call.id
             THEN TakeEvent(Head(down)) /\ UNCHANGED pending_events
             ELSE /\ pending_events' = Append(pending_events, Head(down))
                  /\ UNCHANGED <<call, results, wire>>
    /\ UNCHANGED <<next_id, serverVars, up>>

\* The workers of both front ends cancel a stream they no longer want as
\* soon as llm_start has returned; the request has the stream's id.
CancelOwnStream ==
    /\ wire = "open" /\ call.at = "started" /\ call.kind = "generate"
    /\ call' = [call EXCEPT !.kind = "cancel", !.at = "answer", !.number = Len(results) + 2]
    /\ Len(results) + 1 < MaxCalls
    /\ results' = Append(results, [kind |-> "generate", id |-> call.id, verdict |-> "ok",
                                   from |-> call.number, frame |-> "abandoned"])
    /\ up' = up \o Pieces(call')
    /\ UNCHANGED <<next_id, pending_events, serverVars, down, wire>>

\* EOF: everything the server had written has been read before.
ReadEof ==
    /\ wire = "closed" /\ call.at # "none" /\ down = <<>>
    /\ Return("closed", NoFrame)
    /\ UNCHANGED <<next_id, pending_events, serverVars, up, down>>

\* HANDSHAKE_TIMEOUT, on Unix; and a client dropped between two calls.
GivesUpHandshake ==
    /\ wire # "gone" /\ call.at = "answer" /\ call.kind = "ping" /\ call.id = 1
    /\ Return("timeout", NoFrame)
    /\ UNCHANGED <<next_id, pending_events, serverVars, up, down>>

DropClient ==
    /\ wire # "gone" /\ call.at = "none"
    /\ wire' = "gone"
    /\ UNCHANGED <<clientVars, serverVars, up, down>>

-----------------------------------------------------------------------------
(* The server.                                                             *)

\* handle_connection: a whole request has been read, its task is started
\* and counted in pending.
Accept(p) ==
    /\ reader' = "start"
    /\ served' = served \cup {p.number}
    /\ tasks' = tasks \cup {[number |-> p.number, kind |-> p.kind, id |-> p.id, sent |-> 0,
                              over |-> FALSE]}

\* read_frame_async: a piece of a frame.  Bytes that follow a header
\* nobody remembers are read as a length and what it announces.
Read ==
    /\ wire = "open" /\ reader # "done" /\ up # <<>>
    /\ LET p == Head(up) IN
       \/ /\ reader = "start" /\ p.part = "whole" /\ Accept(p)
       \/ /\ reader = "start" /\ p.part = "head" /\ reader' = "body"
          /\ UNCHANGED <<tasks, served>>
       \/ /\ reader = "body" /\ p.part = "rest" /\ Accept(p)
       \/ /\ reader = "lost" \/ (reader = "start" /\ p.part = "rest")
          /\ reader' \in {"lost", "done"}
          /\ UNCHANGED <<tasks, served>>
    /\ up' = Tail(up)
    /\ UNCHANGED <<clientVars, out, down, wire>>

\* Fault: the count of handlers at work only ever grows.
IdleTimeoutNeverOver ==
    /\ wire = "open" /\ reader # "done" /\ up = <<>>
    /\ reader' = IF served = {} THEN "done"
                 ELSE IF reader = "start" THEN "start" ELSE "lost"
    /\ UNCHANGED <<clientVars, tasks, out, served, up, down, wire>>

\* The 60 seconds of a read are over: the connection is given up unless a
\* handler is at work; what had been read of a frame is forgotten.
IdleTimeout ==
    /\ wire = "open" /\ reader # "done" /\ up = <<>>
    /\ reader' = IF tasks = {} THEN "done"
                 ELSE IF reader = "start" THEN "start" ELSE "lost"
    /\ UNCHANGED <<clientVars, tasks, out, served, up, down, wire>>

\* What a task writes next, and whether that was all.
Writes(t) ==
    LET w(kind, done, last) == [kind |-> kind, done |-> done, last |-> last] IN
    IF t.kind \in DOMAIN Plain
    THEN {w(Plain[t.kind], FALSE, TRUE)} \cup
         IF t.kind \in {"ping", "get_config", "set_mode", "append", "session_end"}
         THEN {} ELSE {w("Error", FALSE, TRUE)}
    ELSE IF t.kind = "cancel" THEN {w("Ok", FALSE, TRUE)}
    ELSE IF t.sent = 0
    THEN {w("Ok", FALSE, FALSE)} \cup
         IF t.kind = "rime" THEN {w("Error", FALSE, TRUE)} ELSE {}
    ELSE IF t.kind = "rime" THEN {w("Candidates", TRUE, TRUE)}
    ELSE LET chunk == IF t.kind = "generate" THEN "Chunk" ELSE "Candidates"
             end == w(IF t.kind = "generate" THEN "Final" ELSE "Candidates",
                      t.kind = "candidates", TRUE)
         IN {end, w("Error", FALSE, TRUE)} \cup
            IF t.sent <= MaxChunks THEN {w(chunk, FALSE, FALSE)} ELSE {}

\* Outbound: a send waits while the queue is full.
QueueHasRoom == Len(out) < OutCap

\* The handler puts its next frame into the queue.  A stream may end at any
\* point: by itself, or cancelled, by whom and when being the subject of
\* StreamCancellation.
HandlerWrites(t) ==
    /\ t \in tasks /\ ~t.over /\ wire # "gone"
    /\ QueueHasRoom
    /\ \E w \in Writes(t) :
          /\ out' = Append(out, Frame(t, w.kind, w.done))
          /\ tasks' = (tasks \ {t}) \cup {[t EXCEPT !.sent = @ + 1, !.over = w.last]}
    /\ UNCHANGED <<clientVars, reader, served, up, down, wire>>

\* The handler has returned: pending counts one less.
HandlerReturns(t) ==
    /\ t \in tasks /\ t.over /\ wire # "gone"
    /\ tasks' = tasks \ {t}
    /\ UNCHANGED <<clientVars, reader, out, served, up, down, wire>>

\* handle_list_models returns before it has answered: LlmClient::new failed.
HandlerSilent(t) ==
    /\ t \in tasks /\ t.kind = "list_models" /\ ~t.over /\ ~ClientBuilds /\ wire # "gone"
    /\ tasks' = (tasks \ {t}) \cup {[t EXCEPT !.over = TRUE]}
    /\ UNCHANGED <<clientVars, reader, out, served, up, down, wire>>

\* The writer task.
WriteFrame ==
    /\ wire = "open" /\ out # <<>> /\ Len(down) < PipeCap
    /\ down' = Append(down, Head(out))
    /\ out' = Tail(out)
    /\ UNCHANGED <<clientVars, reader, tasks, served, up, wire>>

\* Fault: the writer is not waited for.
CloseWireAtOnce ==
    /\ wire = "open" /\ reader = "done"
    /\ wire' = "closed"
    /\ UNCHANGED <<clientVars, serverVars, up, down>>

\* The read loop has ended, the senders are gone and the queue is empty:
\* the stream is dropped.
CloseWire ==
    /\ wire = "open" /\ reader = "done" /\ tasks = {} /\ out = <<>>
    /\ wire' = "closed"
    /\ UNCHANGED <<clientVars, serverVars, up, down>>

Handler(t) == HandlerWrites(t) \/ HandlerSilent(t) \/ HandlerReturns(t)

ServerStep == Read \/ IdleTimeout \/ WriteFrame \/ CloseWire

ConnectionNext ==
    \/ ConnectVerified
    \/ \E kind \in Kinds : Call(kind)
    \/ WriteRest \/ ReadAnswer \/ NextEvent \/ CancelOwnStream
    \/ ReadEof \/ GivesUpHandshake \/ DropClient
    \/ ServerStep
    \/ \E t \in tasks : Handler(t)

ConnectionSpec == ConnectionInit /\ [][ConnectionNext]_connectionVars

\* Threads go on, the read timer runs, and every provider's answer ends.
FairConnection ==
    /\ ConnectionSpec
    /\ WF_connectionVars(WriteRest) /\ WF_connectionVars(ReadAnswer)
    /\ WF_connectionVars(NextEvent) /\ WF_connectionVars(ReadEof)
    /\ WF_connectionVars(Read) /\ WF_connectionVars(IdleTimeout)
    /\ WF_connectionVars(WriteFrame) /\ WF_connectionVars(CloseWire)
    /\ \A n \in 1..MaxCalls : WF_connectionVars(\E t \in tasks : t.number = n /\ Handler(t))

-----------------------------------------------------------------------------
(* Properties.                                                             *)

\* A call ends with a frame its own handler wrote, and one that succeeds
\* with the message it waits for, though every frame decodes both as a
\* response and as an event (client.rs).  llm_cancel may end with any frame
\* of the stream it cancels.
OwnAnswer ==
    \A i \in DOMAIN results :
        LET r == results[i] IN
        /\ r.verdict \in {"ok", "error"} /\ r.kind # "cancel" => r.from = i
        /\ r.verdict = "error" => r.frame = "Error"
        /\ r.verdict = "ok" /\ r.kind \in DOMAIN Plain => r.frame = Plain[r.kind]
        /\ r.verdict = "ok" /\ r.kind = "rime" => r.frame = "Candidates"

\* A client that is told its connection closed may ask again: no handler
\* ever had the request (the candidate worker's silent retry, imk.rs; the
\* server writes out what its handlers sent before it closes, server.rs).
\* It takes handlers that answer: ListModels may not when ~ClientBuilds.
ClosedUnserved ==
    \A i \in DOMAIN results : results[i].verdict = "closed" => i \notin served

\* Every call returns, although reads have no time limit (client.rs): its
\* request is answered or its connection is closed, a frame cut in two by
\* the idle timer included (server.rs).
CallsReturn == call.at # "none" ~> call.at = "none"
=============================================================================
