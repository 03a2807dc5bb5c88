--------------------------- MODULE CommitForwarder ---------------------------
(***************************************************************************)
(* The background thread that sends committed text and the ends of windows *)
(* to the daemon (verba-ipc forwarder.rs), over connections made through   *)
(* DaemonEndpoint, against daemons that are killed and started again.      *)
(*                                                                         *)
(* An item is known by its number in the order of the calls push and       *)
(* push_end.  What a daemon remembers is the sequence of the items it      *)
(* applied (handler.rs: handle_llm_append_context, handle_llm_session_end; *)
(* SessionHistory has the memory itself); it is lost with the process.     *)
(***************************************************************************)
EXTENDS DaemonEndpoint

CONSTANTS MaxItems,     \* bound: items pushed
          MaxPending,   \* MAX_PENDING
          Old           \* daemons of an older version: they refuse both kinds

ASSUME ForwarderAssumption ==
    /\ MaxItems \in Nat
    /\ MaxPending \in Nat \ {0}
    /\ Old \subseteq Daemons

VARIABLES
    pushed,     \* number of items pushed
    chan,       \* the mpsc channel
    pending,    \* the worker's backlog
    worker,     \* where the worker thread is
    link,       \* the daemon of the worker's client
    asked,      \* the request in flight: "no", "written", "ok", "refused"
    applied,    \* what each daemon applied, in order
    settled     \* history: items acknowledged, refused, dropped

forwarderVars == <<pushed, chan, pending, worker, link, asked, applied, settled>>
vars == <<endpointVars, forwarderVars>>

Items == 1..MaxItems

ForwarderTypes ==
    /\ pushed \in 0..MaxItems
    /\ chan \in Seq(Items)
    /\ pending \in Seq(Items)
    /\ worker \in {"draining", "waiting", "connecting", "sending", "sleeping"}
    /\ link \in Daemons \cup {None}
    /\ asked \in {"no", "written", "ok", "refused"}
    /\ applied \in [Daemons -> Seq(Items)]
    /\ settled \in [{"acked", "refused", "dropped"} -> SUBSET Items]

TypeOK == EndpointTypes /\ ForwarderTypes

Init ==
    /\ EndpointInit
    /\ pushed = 0
    /\ chan = <<>>
    /\ pending = <<>>
    /\ worker = "draining"
    /\ link = None
    /\ asked = "no"
    /\ applied = [d \in Daemons |-> <<>>]
    /\ settled = [f \in {"acked", "refused", "dropped"} |-> {}]

-----------------------------------------------------------------------------
(* The UI thread.                                                          *)

\* push and push_end: one channel, one sender.  Blank text is not pushed.
Push ==
    /\ pushed < MaxItems
    /\ pushed' = pushed + 1
    /\ chan' = Append(chan, pushed + 1)
    /\ UNCHANGED <<endpointVars, pending, worker, link, asked, applied, settled>>

-----------------------------------------------------------------------------
(* The worker thread.                                                      *)

Elements(s) == {s[i] : i \in 1..Len(s)}

Surplus(s) == IF Len(s) > MaxPending THEN Len(s) - MaxPending ELSE 0

\* drain_and_cap, at the top of every round.
DrainAndCap ==
    LET all == pending \o chan
        n   == Surplus(all)
    IN /\ worker = "draining"
       /\ chan' = <<>>
       /\ pending' = SubSeq(all, n + 1, Len(all))
       /\ settled' = [settled EXCEPT !["dropped"] = @ \cup Elements(SubSeq(all, 1, n))]
       /\ worker' = IF all = <<>> THEN "waiting" ELSE "connecting"
       /\ UNCHANGED <<endpointVars, pushed, link, asked, applied>>

\* rx.recv: an idle worker takes one item.
Receive ==
    /\ worker = "waiting"
    /\ chan # <<>>
    /\ pending' = <<Head(chan)>>
    /\ chan' = Tail(chan)
    /\ worker' = "connecting"
    /\ UNCHANGED <<endpointVars, pushed, link, asked, applied, settled>>

\* flush: connect_verified.  No daemon is started from here.
FlushConnects(d) ==
    /\ worker = "connecting"
    /\ Reaches(d)
    /\ link' = d
    /\ worker' = "sending"
    /\ UNCHANGED <<endpointVars, pushed, chan, pending, asked, applied, settled>>

\* Nobody is reached; on Unix a daemon too slow to answer Pong counts as none.
FlushUnreached ==
    /\ worker = "connecting"
    /\ ~Reachable \/ platform = "unix"
    /\ worker' = "sleeping"
    /\ UNCHANGED <<endpointVars, pushed, chan, pending, link, asked, applied, settled>>

\* llm_append_context, llm_session_end: the request of the oldest item.
Request ==
    /\ worker = "sending"
    /\ pending # <<>>
    /\ asked = "no"
    /\ link # None
    /\ asked' = "written"
    /\ UNCHANGED <<endpointVars, pushed, chan, pending, worker, link, applied, settled>>

\* Fault: the newest item is kept in front.
HandleInFront(d) ==
    /\ link = d
    /\ asked = "written"
    /\ phase[d] = "serving"
    /\ asked' = IF d \in Old THEN "refused" ELSE "ok"
    /\ applied' = IF d \in Old THEN applied
                  ELSE [applied EXCEPT ![d] = <<Head(pending)>> \o @]
    /\ UNCHANGED <<endpointVars, pushed, chan, pending, worker, link, settled>>

\* The daemon's handler applies the item, or does not know its kind.
Handle(d) ==
    /\ link = d
    /\ asked = "written"
    /\ phase[d] = "serving"
    /\ asked' = IF d \in Old THEN "refused" ELSE "ok"
    /\ applied' = IF d \in Old THEN applied
                  ELSE [applied EXCEPT ![d] = Append(@, Head(pending))]
    /\ UNCHANGED <<endpointVars, pushed, chan, pending, worker, link, settled>>

\* Fault: the item is taken off the backlog when its turn is over, whatever
\* came back.
InterruptedPops ==
    /\ worker = "sending"
    /\ pending # <<>>
    /\ link = None
    /\ asked = "no"
    /\ pending' = Tail(pending)
    /\ worker' = "sleeping"
    /\ UNCHANGED <<endpointVars, pushed, chan, link, asked, applied, settled>>

\* Fault: a refusal is retried like any other error.
SettleRetries ==
    /\ worker = "sending"
    /\ asked \in {"ok", "refused"}
    /\ asked' = "no"
    /\ IF asked = "ok"
       THEN /\ settled' = [settled EXCEPT !["acked"] = @ \cup {Head(pending)}]
            /\ pending' = Tail(pending)
            /\ UNCHANGED <<link, worker>>
       ELSE /\ link' = None
            /\ worker' = "sleeping"
            /\ UNCHANGED <<pending, settled>>
    /\ UNCHANGED <<endpointVars, pushed, chan, applied>>

\* Ok, or an error that would come back for ever: the item is done with.
Settle ==
    /\ worker = "sending"
    /\ asked \in {"ok", "refused"}
    /\ LET fate == IF asked = "ok" THEN "acked" ELSE "refused"
       IN settled' = [settled EXCEPT ![fate] = @ \cup {Head(pending)}]
    /\ pending' = Tail(pending)
    /\ asked' = "no"
    /\ UNCHANGED <<endpointVars, pushed, chan, worker, link, applied>>

\* Any other error ends the round and keeps the rest.
Interrupted ==
    /\ worker = "sending"
    /\ pending # <<>>
    /\ link = None
    /\ asked = "no"
    /\ worker' = "sleeping"
    /\ UNCHANGED <<endpointVars, pushed, chan, pending, link, asked, applied, settled>>

\* Everything is sent: the client is dropped and the round starts again.
FlushEnds ==
    /\ worker = "sending"
    /\ pending = <<>>
    /\ link' = None
    /\ worker' = "draining"
    /\ UNCHANGED <<endpointVars, pushed, chan, pending, asked, applied, settled>>

\* RETRY_INTERVAL.
Wake ==
    /\ worker = "sleeping"
    /\ worker' = "draining"
    /\ UNCHANGED <<endpointVars, pushed, chan, pending, link, asked, applied, settled>>

\* A killed daemon takes the worker's connection and its memory with it; an
\* answer it has written may still be read.
Killed(d) ==
    /\ Crash(d)
    /\ link' = IF link = d THEN None ELSE link
    /\ asked' \in IF link = d THEN {"no"} \cup ({asked} \cap {"ok", "refused"})
                  ELSE {asked}
    /\ UNCHANGED <<pushed, chan, pending, worker, applied, settled>>

-----------------------------------------------------------------------------
Worker ==
    \/ DrainAndCap
    \/ Receive
    \/ \E d \in Daemons : FlushConnects(d)
    \/ FlushUnreached
    \/ Request
    \/ Settle
    \/ Interrupted
    \/ FlushEnds
    \/ Wake

Starting == \E d \in Daemons : StartStep(d) /\ UNCHANGED forwarderVars
Calling == \E c \in Callers : CallerStep(c) /\ UNCHANGED forwarderVars

Next ==
    \/ Push
    \/ Worker
    \/ \E d \in Daemons : Handle(d) \/ Killed(d)
    \/ Starting
    \/ Calling

Spec == Init /\ [][Next]_vars

\* The worker thread and the handlers run.  On Unix a handshake can time out
\* again and again, so connecting is strongly fair: a daemon that stays up
\* answers Pong in time once.
Fairness ==
    /\ WF_vars(Worker)
    /\ WF_vars(\E d \in Daemons : Handle(d))
    /\ SF_vars(\E d \in Daemons : FlushConnects(d))

FairSpec == Spec /\ Fairness
-----------------------------------------------------------------------------
(* Properties.                                                             *)

Waiting == Elements(chan) \cup Elements(pending)

\* No daemon applies an item twice or after a later one: the end of a window
\* comes after every commit pushed before it, so a window's text never comes
\* back to a daemon that was told the window is closed (forwarder.rs, the
\* order guarantee in the module comment).
AppliedInOrder ==
    \A d \in Daemons : \A i, j \in 1..Len(applied[d]) :
        i < j => applied[d][i] < applied[d][j]

\* An item that was pushed is waiting or has met exactly one fate, and an
\* item still waiting is newer than every item that has met one: retries
\* neither lose an item silently nor reorder the backlog, and what counts as
\* acknowledged was applied by a daemon.
Accounted ==
    /\ Waiting \cup settled["acked"] \cup settled["refused"] \cup settled["dropped"]
         = 1..pushed
    /\ settled["acked"] \cap settled["dropped"] = {}
    /\ settled["refused"] \cap settled["dropped"] = {}
    /\ settled["acked"] \cap settled["refused"] = {}
    /\ \A f \in DOMAIN settled : \A i \in settled[f], j \in Waiting : i < j
    /\ \A k \in settled["acked"] : \E d \in Daemons : k \in Elements(applied[d])

\* Once a daemon can be reached for good, everything pushed is settled: a
\* refused item does not block the ones behind it.
BacklogDrains ==
    \A k \in Items :
        <>[]Reachable => [](k <= pushed => <>(k \notin Waiting))

=============================================================================
