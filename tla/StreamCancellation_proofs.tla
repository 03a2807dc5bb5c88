---------------------- MODULE StreamCancellation_proofs ----------------------
(***************************************************************************)
(* Theorems about StreamCancellation for every number of frontends and     *)
(* streams, and for every bound.  Tickets holds the epochs together and is *)
(* inductive with the types; Table, Installed and Queued each follow the   *)
(* one piece of state that a safety property of the module is about.       *)
(***************************************************************************)
EXTENDS StreamCancellation, SequenceTheorems, TLAPS

\* A stream has its epoch from the moment it is started, no other stream of
\* its frontend has the same, and the stream a machine waits for is the
\* present one.
Tickets ==
    /\ \A s \in Streams : ticket[s] <= epoch[Owner[s]]
    /\ \A s \in Streams : worker[s] # "unused" => ticket[s] # 0
    /\ \A s, t \in Streams :
          Owner[s] = Owner[t] /\ ticket[s] = ticket[t] /\ ticket[s] # 0 => s = t
    /\ \A f \in Frontends :
          awaiting[f] # None => ticket[awaiting[f]] = epoch[f] /\ call[f] = "idle"
    /\ \A f \in Frontends : \A i \in 1..Len(chunks[f]) :
          Owner[chunks[f][i].stream] = f /\ ticket[chunks[f][i].stream] # 0

Base == TypeOK /\ Tickets

\* No token is triggered before its stream is registered.
Table ==
    /\ TableTracksHandlers
    /\ \A s \in Streams : handler[s] = "none" => s \notin cancelled

\* From its install on, a present stream's token is in the slot; what
\* cancel_stream holds when it has advanced the epoch is a thing of the past.
Installed ==
    /\ \A s \in Streams :
          worker[s] \in {"installed", "reading"} /\ ticket[s] = epoch[Owner[s]]
              => slot[Owner[s]] = s
    /\ \A f \in Frontends :
          call[f] \in {"sending", "clearing"} /\ held[f] # None
              => ticket[held[f]] # epoch[f]

\* Once its ending event is queued, a worker queues no more.
Queued ==
    /\ EndsOnce
    /\ \A f \in Frontends : \A i \in 1..Len(chunks[f]) :
          chunks[f][i].kind \in Ends =>
              worker[chunks[f][i].stream] \in {"leaving", "done"}

\* What appending an event does to a queue of events.
LEMMA AppendEvent ==
    ASSUME NEW S, NEW q \in Seq(S), NEW e \in S
    PROVE  /\ Append(q, e) \in Seq(S)
           /\ Len(Append(q, e)) = Len(q) + 1
           /\ Len(q) \in Nat
           /\ \A i \in 1..(Len(q) + 1) :
                 Append(q, e)[i] = IF i = Len(q) + 1 THEN e ELSE q[i]
BY AppendProperties, LenProperties

\* The effect of Queue on the queues of the frontends.
LEMMA QueueEffect ==
    ASSUME TypeOK, StreamAssumption, NEW s \in Streams, NEW kind \in Kinds,
           Queue(s, kind)
    PROVE  /\ chunks' \in [Frontends -> Seq([stream : Streams, kind : Kinds])]
           /\ \A f \in Frontends : \A i \in 1..Len(chunks'[f]) :
                 \/ /\ i \in 1..Len(chunks[f])
                    /\ chunks'[f][i] = chunks[f][i]
                 \/ /\ f = Owner[s] /\ i = Len(chunks[f]) + 1
                    /\ chunks'[f][i] = [stream |-> s, kind |-> kind]
           /\ \A f \in Frontends : Len(chunks[f]) \in Nat
<1> DEFINE E == [stream : Streams, kind : Kinds]
           e == [stream |-> s, kind |-> kind]
           q == chunks[Owner[s]]
<1>1. e \in E /\ Owner[s] \in Frontends /\ chunks \in [Frontends -> Seq(E)]
  BY DEF TypeOK, StreamTypes, StreamAssumption
<1>2. q \in Seq(E) /\ \A f \in Frontends : chunks[f] \in Seq(E)
  BY <1>1
<1>3. chunks' = [chunks EXCEPT ![Owner[s]] = Append(q, e)]
  BY <1>1 DEF Queue
<1> HIDE DEF E, e
<1>4. /\ Append(q, e) \in Seq(E)
      /\ Len(Append(q, e)) = Len(q) + 1
      /\ Len(q) \in Nat
      /\ \A i \in 1..(Len(q) + 1) :
            Append(q, e)[i] = IF i = Len(q) + 1 THEN e ELSE q[i]
  BY ONLY <1>1, <1>2, AppendEvent
<1>5. chunks' \in [Frontends -> Seq(E)]
  BY <1>1, <1>3, <1>4
<1>6. \A f \in Frontends : Len(chunks[f]) \in Nat
  BY <1>2, LenProperties
<1>7. ASSUME NEW f \in Frontends, NEW i \in 1..Len(chunks'[f])
      PROVE  \/ i \in 1..Len(chunks[f]) /\ chunks'[f][i] = chunks[f][i]
             \/ f = Owner[s] /\ i = Len(chunks[f]) + 1 /\ chunks'[f][i] = e
  <2>1. CASE f = Owner[s]
    <3>1. chunks'[f] = Append(q, e)
      BY <1>1, <1>3, <2>1
    <3> QED BY <1>4, <1>7, <2>1, <3>1
  <2>2. CASE f # Owner[s]
    BY <1>1, <1>3, <2>2
  <2> QED BY <2>1, <2>2
<1> QED BY <1>5, <1>6, <1>7 DEF E, e

\* The head and the tail of a connection's frames.
LEMMA WireFacts ==
    ASSUME TypeOK, NEW s \in Streams, wire[s] # <<>>
    PROVE  Head(wire[s]) \in Kinds /\ Tail(wire[s]) \in Seq(Kinds)
<1>1. wire[s] \in Seq(Kinds)
  BY DEF TypeOK, StreamTypes
<1> HIDE DEF Kinds
<1> QED BY ONLY <1>1, wire[s] # <<>>, HeadTailProperties

\* Frames appended to a connection.
LEMMA WireAppend ==
    ASSUME TypeOK, NEW s \in Streams, NEW kind \in Kinds
    PROVE  [wire EXCEPT ![s] = Append(@, kind)] \in [Streams -> Seq(Kinds)]
<1>1. wire \in [Streams -> Seq(Kinds)]
  BY DEF TypeOK, StreamTypes
<1> HIDE DEF Kinds
<1>2. wire[s] \in Seq(Kinds)
  BY ONLY <1>1, s \in Streams
<1>3. Append(wire[s], kind) \in Seq(Kinds)
  BY ONLY <1>2, kind \in Kinds, AppendProperties
<1> QED BY ONLY <1>1, <1>3, s \in Streams

\* The types and tickets hold initially.
LEMMA BaseInit == ASSUME StreamAssumption, Init PROVE Base
<1>1. \A S : <<>> \in Seq(S) /\ Len(<<>>) = 0
  BY EmptySeq
<1>2. chunks \in [Frontends -> Seq([stream : Streams, kind : Kinds])]
  BY <1>1 DEF Init
<1>3. wire \in [Streams -> Seq(Kinds)]
  BY <1>1 DEF Init
<1>4. TypeOK
  BY <1>2, <1>3 DEF Init, StreamAssumption, TypeOK, FrontendTypes, StreamTypes, TokensKnown,
    Calls, Works, Handlers
<1>5. Tickets
  BY <1>1 DEF Init, StreamAssumption, Tickets
<1> QED BY <1>4, <1>5 DEF Base

\* Queueing an event of a stream that was started keeps what Tickets says of
\* the queues, and their type.
LEMMA QueuedBase ==
    ASSUME StreamAssumption, Base, NEW s \in Streams, NEW kind \in Kinds,
           Queue(s, kind), worker[s] # "unused", ticket' = ticket
    PROVE  /\ chunks' \in [Frontends -> Seq([stream : Streams, kind : Kinds])]
           /\ \A f \in Frontends : \A i \in 1..Len(chunks'[f]) :
                 Owner[chunks'[f][i].stream] = f /\ ticket'[chunks'[f][i].stream] # 0
<1>1. TypeOK /\ ticket[s] # 0
  BY DEF Base, Tickets
<1>2. /\ chunks' \in [Frontends -> Seq([stream : Streams, kind : Kinds])]
      /\ \A f \in Frontends : \A i \in 1..Len(chunks'[f]) :
            \/ /\ i \in 1..Len(chunks[f])
               /\ chunks'[f][i] = chunks[f][i]
            \/ /\ f = Owner[s] /\ i = Len(chunks[f]) + 1
               /\ chunks'[f][i] = [stream |-> s, kind |-> kind]
  BY <1>1, QueueEffect
<1>3. \A f \in Frontends : \A i \in 1..Len(chunks[f]) :
          Owner[chunks[f][i].stream] = f /\ ticket[chunks[f][i].stream] # 0
  BY DEF Base, Tickets
<1>4. ASSUME NEW f \in Frontends, NEW i \in 1..Len(chunks'[f])
      PROVE  Owner[chunks'[f][i].stream] = f /\ ticket'[chunks'[f][i].stream] # 0
  <2>1. CASE i \in 1..Len(chunks[f]) /\ chunks'[f][i] = chunks[f][i]
    BY <1>3, <2>1
  <2>2. CASE f = Owner[s] /\ chunks'[f][i] = [stream |-> s, kind |-> kind]
    BY <1>1, <2>2
  <2> QED BY <1>2, <2>1, <2>2
<1> QED BY <1>2, <1>4

\* A step of the UI thread keeps the types and tickets.
LEMMA BaseUi ==
    ASSUME StreamAssumption, Base, NEW f \in Frontends, UiStep(f) PROVE Base'
<1>1. CASE OnTimer(f)
  <2>1. FrontendTypes'
    BY <1>1 DEF OnTimer, Base, TypeOK, FrontendTypes, Calls, ui, threads,
        daemon
  <2>2. StreamTypes'
    <3>1. \A S : <<>> \in Seq(S)
      BY EmptySeq
    <3>2. chunks' \in [Frontends -> Seq([stream : Streams, kind : Kinds])]
      BY <1>1, <3>1 DEF OnTimer, Base, TypeOK, StreamTypes
    <3> QED BY <1>1, <3>2 DEF OnTimer, Base, TypeOK, StreamTypes, threads, daemon
  <2>3. TokensKnown'
    BY <1>1 DEF OnTimer, Base, TypeOK, FrontendTypes, StreamTypes,
        TokensKnown, StreamAssumption, ui, threads, daemon
  <2>4. Tickets'
    <3>1. Len(<<>>) = 0
      BY EmptySeq
    <3>2. \A g \in Frontends : chunks'[g] \in {chunks[g], <<>>}
      BY <1>1 DEF OnTimer, Base, TypeOK, StreamTypes
    <3>3. \A g \in Frontends : awaiting'[g] \in {awaiting[g], None}
      BY <1>1 DEF OnTimer, Base, TypeOK, FrontendTypes
    <3>4. \A g \in Frontends : \A i \in 1..Len(chunks'[g]) :
              chunks'[g] = chunks[g] /\ i \in 1..Len(chunks[g])
      BY <3>1, <3>2
    <3>5. UNCHANGED <<epoch, call, ticket, worker>>
      BY <1>1 DEF OnTimer, threads
    <3>6. \A g \in Frontends : \A i \in 1..Len(chunks'[g]) :
              Owner[chunks'[g][i].stream] = g /\ ticket'[chunks'[g][i].stream] # 0
      BY <3>4, <3>5 DEF Base, Tickets
    <3>7. \A g \in Frontends : awaiting'[g] # None =>
              ticket'[awaiting'[g]] = epoch'[g] /\ call'[g] = "idle"
      BY <3>3, <3>5 DEF Base, Tickets
    <3> QED BY <3>5, <3>6, <3>7 DEF Base, Tickets
  <2> QED BY <2>1, <2>2, <2>3, <2>4 DEF Base, TypeOK
<1>2. CASE Reset(f)
  <2>1. FrontendTypes'
    BY <1>2 DEF Reset, Base, TypeOK, FrontendTypes, Calls, ui, threads, daemon
  <2>2. StreamTypes'
    BY <1>2 DEF Reset, Base, TypeOK, StreamTypes, Works, ui, threads, daemon
  <2>3. TokensKnown'
    BY <1>2 DEF Reset, Base, TypeOK, FrontendTypes, StreamTypes, TokensKnown,
        StreamAssumption, ui, threads, daemon
  <2>4. Tickets'
    BY <1>2 DEF Reset, Base, TypeOK, FrontendTypes, StreamTypes, TokensKnown,
        Tickets, StreamAssumption, ui, threads, daemon
  <2> QED BY <2>1, <2>2, <2>3, <2>4 DEF Base, TypeOK
<1>3. CASE CancelLoads(f)
  <2>1. FrontendTypes'
    BY <1>3 DEF CancelLoads, Base, TypeOK, FrontendTypes, Calls, ui, threads,
        daemon
  <2>2. StreamTypes'
    BY <1>3 DEF CancelLoads, Base, TypeOK, StreamTypes, Works, ui, threads,
        daemon
  <2>3. TokensKnown'
    BY <1>3 DEF CancelLoads, Base, TypeOK, FrontendTypes, StreamTypes,
        TokensKnown, StreamAssumption, ui, threads, daemon
  <2>4. Tickets'
    BY <1>3 DEF CancelLoads, Base, TypeOK, FrontendTypes, StreamTypes,
        TokensKnown, Tickets, StreamAssumption, ui, threads, daemon
  <2> QED BY <2>1, <2>2, <2>3, <2>4 DEF Base, TypeOK
<1>4. CASE CancelBumps(f)
  <2>1. FrontendTypes'
    BY <1>4 DEF CancelBumps, Base, TypeOK, FrontendTypes, Calls, ui, threads,
        daemon
  <2>2. StreamTypes'
    BY <1>4 DEF CancelBumps, Base, TypeOK, StreamTypes, Works, ui, threads,
        daemon
  <2>3. TokensKnown'
    BY <1>4 DEF CancelBumps, Base, TypeOK, FrontendTypes, StreamTypes,
        TokensKnown, StreamAssumption, ui, threads, daemon
  <2>4. Tickets'
    BY <1>4 DEF CancelBumps, Base, TypeOK, FrontendTypes, StreamTypes,
        TokensKnown, Tickets, StreamAssumption, ui, threads, daemon
  <2> QED BY <2>1, <2>2, <2>3, <2>4 DEF Base, TypeOK
<1>5. CASE CancelSends(f)
  <2>1. FrontendTypes'
    BY <1>5 DEF CancelSends, LlmCancel, Resolved, Base, TypeOK, FrontendTypes,
        Calls, ui, threads, daemon
  <2>2. StreamTypes'
    BY <1>5 DEF CancelSends, LlmCancel, Resolved, Base, TypeOK, StreamTypes,
        Works, ui, threads, daemon
  <2>3. TokensKnown'
    BY <1>5 DEF CancelSends, LlmCancel, Resolved, Base, TypeOK, FrontendTypes,
        StreamTypes, TokensKnown, StreamAssumption, ui, threads, daemon
  <2>4. Tickets'
    BY <1>5 DEF CancelSends, LlmCancel, Resolved, Base, TypeOK, FrontendTypes,
        StreamTypes, TokensKnown, Tickets, StreamAssumption, ui, threads,
        daemon
  <2> QED BY <2>1, <2>2, <2>3, <2>4 DEF Base, TypeOK
<1>6. CASE CancelClears(f)
  <2>1. FrontendTypes'
    BY <1>6 DEF CancelClears, Cleared, Base, TypeOK, FrontendTypes, Calls, ui,
        threads, daemon
  <2>2. StreamTypes'
    BY <1>6 DEF CancelClears, Cleared, Base, TypeOK, StreamTypes, Works, ui,
        threads, daemon
  <2>3. TokensKnown'
    BY <1>6 DEF CancelClears, Cleared, Base, TypeOK, FrontendTypes,
        StreamTypes, TokensKnown, StreamAssumption, ui, threads, daemon
  <2>4. Tickets'
    BY <1>6 DEF CancelClears, Cleared, Base, TypeOK, FrontendTypes,
        StreamTypes, TokensKnown, Tickets, StreamAssumption, ui, threads,
        daemon
  <2> QED BY <2>1, <2>2, <2>3, <2>4 DEF Base, TypeOK
<1> QED BY <1>1, <1>2, <1>3, <1>4, <1>5, <1>6 DEF UiStep

\* A start and a step of a worker keep them.
LEMMA BaseWorker ==
    ASSUME StreamAssumption, Base, NEW s \in Streams, Start(s) \/ WorkerStep(s)
    PROVE  Base'
<1>1. CASE Start(s)
  <2>1. FrontendTypes'
    BY <1>1 DEF Start, Base, TypeOK, FrontendTypes, Calls, ui, threads, daemon
  <2>2. StreamTypes'
    <3>1. ticket' \in [Streams -> Nat]
      BY <1>1 DEF Start, Base, TypeOK, FrontendTypes, StreamTypes, StreamAssumption
    <3> QED BY <1>1, <3>1 DEF Start, Base, TypeOK, StreamTypes, Works, daemon
  <2>3. TokensKnown'
    BY <1>1 DEF Start, Base, TypeOK, FrontendTypes, StreamTypes, TokensKnown,
        StreamAssumption, ui, threads, daemon
  <2>4. Tickets'
    <3>1. /\ \A t \in Streams : ticket'[t] =
                IF t = s THEN epoch[Owner[s]] + 1 ELSE ticket[t]
          /\ \A g \in Frontends : epoch'[g] =
                IF g = Owner[s] THEN epoch[g] + 1 ELSE epoch[g]
          /\ \A g \in Frontends : awaiting'[g] =
                IF g = Owner[s] THEN s ELSE awaiting[g]
          /\ \A t \in Streams : worker'[t] # "unused" => t = s \/ worker[t] # "unused"
          /\ call[Owner[s]] = "idle" /\ UNCHANGED <<call, chunks>>
      BY <1>1 DEF Start, Base, TypeOK, FrontendTypes, StreamTypes
    <3>2. /\ epoch \in [Frontends -> Nat] /\ ticket \in [Streams -> Nat]
          /\ awaiting \in [Frontends -> Streams \cup {None}]
          /\ Owner \in [Streams -> Frontends] /\ None \notin Streams
      BY DEF Base, TypeOK, FrontendTypes, StreamTypes, StreamAssumption
    <3>a. /\ \A t \in Streams : ticket[t] \in Nat /\ epoch[Owner[t]] \in Nat
                                 /\ ticket[t] <= epoch[Owner[t]]
          /\ \A t \in Streams : worker[t] # "unused" => ticket[t] # 0
          /\ \A t, u \in Streams :
                Owner[t] = Owner[u] /\ ticket[t] = ticket[u] /\ ticket[t] # 0 => t = u
      BY <3>2 DEF Base, Tickets
    <3>b. \A t \in Streams : ticket'[t] =
              IF t = s THEN epoch[Owner[s]] + 1 ELSE ticket[t]
      BY <3>1
    <3>c. \A t \in Streams : Owner[t] \in Frontends /\ epoch'[Owner[t]] =
              IF Owner[t] = Owner[s] THEN epoch[Owner[t]] + 1 ELSE epoch[Owner[t]]
      BY <3>1, <3>2
    <3>3. \A t \in Streams : ticket'[t] <= epoch'[Owner[t]]
      BY ONLY <3>a, <3>b, <3>c, s \in Streams
    <3>4. \A t \in Streams : worker'[t] # "unused" => ticket'[t] # 0
      BY <3>1, <3>a
    <3>5. \A t, u \in Streams :
              Owner[t] = Owner[u] /\ ticket'[t] = ticket'[u] /\ ticket'[t] # 0 => t = u
      <4> SUFFICES ASSUME NEW t \in Streams, NEW u \in Streams,
                          Owner[t] = Owner[u], ticket'[t] = ticket'[u], ticket'[t] # 0
                   PROVE  t = u
        OBVIOUS
      <4>1. CASE t = s /\ u # s
        <5>1. ticket[u] = epoch[Owner[u]] + 1
          BY ONLY <3>b, <4>1, Owner[t] = Owner[u], ticket'[t] = ticket'[u], t \in Streams,
              u \in Streams
        <5> QED BY ONLY <3>a, <5>1, u \in Streams
      <4>2. CASE t # s /\ u = s
        <5>1. ticket[t] = epoch[Owner[t]] + 1
          BY ONLY <3>b, <4>2, Owner[t] = Owner[u], ticket'[t] = ticket'[u], t \in Streams,
              u \in Streams
        <5> QED BY ONLY <3>a, <5>1, t \in Streams
      <4>3. CASE t # s /\ u # s
        <5>1. ticket[t] = ticket[u] /\ ticket[t] # 0
          BY ONLY <3>b, <4>3, ticket'[t] = ticket'[u], ticket'[t] # 0, t \in Streams,
              u \in Streams
        <5> QED BY ONLY <3>a, <5>1, Owner[t] = Owner[u], t \in Streams, u \in Streams
      <4> QED BY <4>1, <4>2, <4>3
    <3>6. ASSUME NEW g \in Frontends, awaiting'[g] # None
          PROVE  ticket'[awaiting'[g]] = epoch'[g] /\ call'[g] = "idle"
      <4>1. g # Owner[s] => awaiting[g] # s
        BY <3>1, <3>2, <3>6 DEF Base, TypeOK, TokensKnown
      <4> QED BY <3>1, <3>2, <3>6, <4>1 DEF Base, Tickets
    <3>7. \A g \in Frontends : \A i \in 1..Len(chunks'[g]) :
              Owner[chunks'[g][i].stream] = g /\ ticket'[chunks'[g][i].stream] # 0
      <4>1. \A g \in Frontends : \A i \in 1..Len(chunks[g]) :
                chunks[g][i].stream \in Streams
        <5> SUFFICES ASSUME NEW g \in Frontends, NEW i \in 1..Len(chunks[g])
                     PROVE  chunks[g][i].stream \in Streams
          OBVIOUS
        <5>1. chunks[g] \in Seq([stream : Streams, kind : Kinds])
          BY DEF Base, TypeOK, StreamTypes
        <5>2. chunks[g][i] \in [stream : Streams, kind : Kinds]
          BY <5>1, ElementOfSeq
        <5> QED BY <5>2
      <4> QED BY <3>1, <3>2, <4>1 DEF Base, Tickets
    <3> QED BY <3>3, <3>4, <3>5, <3>6, <3>7 DEF Tickets
  <2> QED BY <2>1, <2>2, <2>3, <2>4 DEF Base, TypeOK
<1>2. CASE AskFails(s)
  <2>1. FrontendTypes'
    BY <1>2 DEF AskFails, Base, TypeOK, FrontendTypes, Calls, ui, threads,
        daemon
  <2>2. StreamTypes'
    <3>1. "Error" \in Kinds /\ Queue(s, "Error") /\ worker[s] # "unused" /\ ticket' = ticket
      BY <1>2 DEF AskFails, Base, Kinds
    <3>2. chunks' \in [Frontends -> Seq([stream : Streams, kind : Kinds])]
      BY <3>1, QueuedBase
    <3> QED BY <1>2, <3>2 DEF AskFails, Base, TypeOK, StreamTypes, Works, daemon
  <2>3. TokensKnown'
    BY <1>2 DEF AskFails, Base, TypeOK, FrontendTypes, StreamTypes,
        TokensKnown, StreamAssumption, ui, threads, daemon
  <2>4. Tickets'
    <3>1. "Error" \in Kinds /\ Queue(s, "Error") /\ worker[s] # "unused" /\ ticket' = ticket
      BY <1>2 DEF AskFails, Base, Kinds
    <3>2. \A f \in Frontends : \A i \in 1..Len(chunks'[f]) :
              Owner[chunks'[f][i].stream] = f /\ ticket'[chunks'[f][i].stream] # 0
      BY <3>1, QueuedBase
    <3>3. UNCHANGED <<epoch, awaiting, call>>
          /\ \A t \in Streams : worker'[t] # "unused" => worker[t] # "unused"
      BY <1>2, <3>1 DEF AskFails, ui, Base, TypeOK, StreamTypes
    <3> QED BY <3>1, <3>2, <3>3 DEF Base, Tickets
  <2> QED BY <2>1, <2>2, <2>3, <2>4 DEF Base, TypeOK
<1>3. CASE InstallStreamToken(s)
  <2>1. FrontendTypes'
    BY <1>3 DEF InstallStreamToken, Base, TypeOK, FrontendTypes, Calls, ui,
        threads, daemon
  <2>2. StreamTypes'
    BY <1>3 DEF InstallStreamToken, Base, TypeOK, StreamTypes, Works, ui,
        threads, daemon
  <2>3. TokensKnown'
    <3>1. /\ \A g \in Frontends : slot'[g] = slot[g] \/ (g = Owner[s] /\ slot'[g] = s)
          /\ UNCHANGED <<epoch, awaiting, held, ticket>>
      BY <1>3 DEF InstallStreamToken, Base, TypeOK, FrontendTypes, ui
    <3>2. ticket[s] \in 1..epoch[Owner[s]]
      BY <1>3 DEF InstallStreamToken, Base, TypeOK, FrontendTypes, StreamTypes,
          Tickets, StreamAssumption
    <3> QED BY <3>1, <3>2 DEF Base, TypeOK, TokensKnown
  <2>4. Tickets'
    BY <1>3 DEF InstallStreamToken, Base, TypeOK, FrontendTypes, StreamTypes,
        TokensKnown, Tickets, StreamAssumption, ui, threads, daemon
  <2> QED BY <2>1, <2>2, <2>3, <2>4 DEF Base, TypeOK
<1>4. CASE CheckEpoch(s)
  <2>1. FrontendTypes'
    BY <1>4 DEF CheckEpoch, Base, TypeOK, FrontendTypes, Calls, ui, threads,
        daemon
  <2>2. StreamTypes'
    BY <1>4 DEF CheckEpoch, Base, TypeOK, StreamTypes, Works, ui, threads,
        daemon
  <2>3. TokensKnown'
    BY <1>4 DEF CheckEpoch, Base, TypeOK, FrontendTypes, StreamTypes,
        TokensKnown, StreamAssumption, ui, threads, daemon
  <2>4. Tickets'
    BY <1>4 DEF CheckEpoch, Base, TypeOK, FrontendTypes, StreamTypes,
        TokensKnown, Tickets, StreamAssumption, ui, threads, daemon
  <2> QED BY <2>1, <2>2, <2>3, <2>4 DEF Base, TypeOK
<1>5. CASE CancelLate(s)
  <2>1. FrontendTypes'
    BY <1>5 DEF CancelLate, LlmCancel, Resolved, Base, TypeOK, FrontendTypes,
        Calls, ui, threads, daemon
  <2>2. StreamTypes'
    BY <1>5 DEF CancelLate, LlmCancel, Resolved, Base, TypeOK, StreamTypes,
        Works, ui, threads, daemon
  <2>3. TokensKnown'
    BY <1>5 DEF CancelLate, LlmCancel, Resolved, Base, TypeOK, FrontendTypes,
        StreamTypes, TokensKnown, StreamAssumption, ui, threads, daemon
  <2>4. Tickets'
    BY <1>5 DEF CancelLate, LlmCancel, Resolved, Base, TypeOK, FrontendTypes,
        StreamTypes, TokensKnown, Tickets, StreamAssumption, ui, threads,
        daemon
  <2> QED BY <2>1, <2>2, <2>3, <2>4 DEF Base, TypeOK
<1>6. CASE Read(s)
  <2>1. FrontendTypes'
    BY <1>6 DEF Read, Base, TypeOK, FrontendTypes, Calls, ui, threads, daemon
  <2>2. StreamTypes'
    <3>1. Head(wire[s]) \in Kinds /\ Queue(s, Head(wire[s])) /\ worker[s] # "unused" /\ ticket' = ticket
      BY <1>6, WireFacts DEF Read, Base, Kinds
    <3>2. chunks' \in [Frontends -> Seq([stream : Streams, kind : Kinds])]
      BY <3>1, QueuedBase
    <3>3. wire' \in [Streams -> Seq(Kinds)]
      BY <1>6, WireFacts DEF Read, Base, TypeOK, StreamTypes
    <3> QED BY <1>6, <3>2, <3>3 DEF Read, Base, TypeOK, StreamTypes, Works
  <2>3. TokensKnown'
    BY <1>6 DEF Read, Base, TypeOK, FrontendTypes, StreamTypes, TokensKnown,
        StreamAssumption, ui, threads, daemon
  <2>4. Tickets'
    <3>1. Head(wire[s]) \in Kinds /\ Queue(s, Head(wire[s])) /\ worker[s] # "unused" /\ ticket' = ticket
      BY <1>6, WireFacts DEF Read, Base, Kinds
    <3>2. \A f \in Frontends : \A i \in 1..Len(chunks'[f]) :
              Owner[chunks'[f][i].stream] = f /\ ticket'[chunks'[f][i].stream] # 0
      BY <3>1, QueuedBase
    <3>3. UNCHANGED <<epoch, awaiting, call>>
          /\ \A t \in Streams : worker'[t] # "unused" => worker[t] # "unused"
      BY <1>6, <3>1 DEF Read, ui, Base, TypeOK, StreamTypes
    <3> QED BY <3>1, <3>2, <3>3 DEF Base, Tickets
  <2> QED BY <2>1, <2>2, <2>3, <2>4 DEF Base, TypeOK
<1>7. CASE ReadBroken(s)
  <2>1. FrontendTypes'
    BY <1>7 DEF ReadBroken, Base, TypeOK, FrontendTypes, Calls, ui, threads,
        daemon
  <2>2. StreamTypes'
    <3>1. "Error" \in Kinds /\ Queue(s, "Error") /\ worker[s] # "unused" /\ ticket' = ticket
      BY <1>7 DEF ReadBroken, Base, Kinds
    <3>2. chunks' \in [Frontends -> Seq([stream : Streams, kind : Kinds])]
      BY <3>1, QueuedBase
    <3> QED BY <1>7, <3>2 DEF ReadBroken, Base, TypeOK, StreamTypes, Works, daemon
  <2>3. TokensKnown'
    BY <1>7 DEF ReadBroken, Base, TypeOK, FrontendTypes, StreamTypes,
        TokensKnown, StreamAssumption, ui, threads, daemon
  <2>4. Tickets'
    <3>1. "Error" \in Kinds /\ Queue(s, "Error") /\ worker[s] # "unused" /\ ticket' = ticket
      BY <1>7 DEF ReadBroken, Base, Kinds
    <3>2. \A f \in Frontends : \A i \in 1..Len(chunks'[f]) :
              Owner[chunks'[f][i].stream] = f /\ ticket'[chunks'[f][i].stream] # 0
      BY <3>1, QueuedBase
    <3>3. UNCHANGED <<epoch, awaiting, call>>
          /\ \A t \in Streams : worker'[t] # "unused" => worker[t] # "unused"
      BY <1>7, <3>1 DEF ReadBroken, ui, Base, TypeOK, StreamTypes
    <3> QED BY <3>1, <3>2, <3>3 DEF Base, Tickets
  <2> QED BY <2>1, <2>2, <2>3, <2>4 DEF Base, TypeOK
<1>8. CASE Leave(s)
  <2>1. FrontendTypes'
    BY <1>8 DEF Leave, Cleared, Base, TypeOK, FrontendTypes, Calls, ui,
        threads, daemon
  <2>2. StreamTypes'
    BY <1>8 DEF Leave, Cleared, Base, TypeOK, StreamTypes, Works, ui, threads,
        daemon
  <2>3. TokensKnown'
    BY <1>8 DEF Leave, Cleared, Base, TypeOK, FrontendTypes, StreamTypes,
        TokensKnown, StreamAssumption, ui, threads, daemon
  <2>4. Tickets'
    BY <1>8 DEF Leave, Cleared, Base, TypeOK, FrontendTypes, StreamTypes,
        TokensKnown, Tickets, StreamAssumption, ui, threads, daemon
  <2> QED BY <2>1, <2>2, <2>3, <2>4 DEF Base, TypeOK
<1> QED BY <1>1, <1>2, <1>3, <1>4, <1>5, <1>6, <1>7, <1>8 DEF WorkerStep

\* A step of the daemon leaves the frontends and their threads alone.
LEMMA DaemonLeaves ==
    ASSUME NEW s \in Streams, HandlerStep(s) \/ DaemonDies
    PROVE  UNCHANGED <<ui, slot, chunks, threads>>
BY DEF HandlerStep, Register, Opens, Answers, SendsChunk, Ended, SeesToken,
    WriteFails, Returns, Ending, DaemonDies

\* A step of the daemon keeps the types and tickets.
LEMMA BaseDaemon ==
    ASSUME StreamAssumption, Base, NEW s \in Streams, HandlerStep(s) \/ DaemonDies
    PROVE  Base'
<1>1. UNCHANGED <<ui, slot, chunks, threads>>
  BY DaemonLeaves
<1>2. /\ handler' \in [Streams -> Handlers]
      /\ cancels' \subseteq Streams
      /\ cancelled' \subseteq Streams
      /\ sent' \in [Streams -> Nat]
      /\ wire' \in [Streams -> Seq(Kinds)]
  <2>1. CASE Register(s)
    BY <2>1 DEF Register, Base, TypeOK, StreamTypes, Handlers
  <2>2. CASE Opens(s)
    BY <2>2 DEF Opens, Base, TypeOK, StreamTypes, Handlers
  <2>3. CASE Answers(s)
    BY <2>3, WireAppend DEF Answers, Base, TypeOK, StreamTypes, Handlers,
        Ending, Ends, Kinds
  <2>4. CASE SendsChunk(s)
    BY <2>4, WireAppend DEF SendsChunk, Base, TypeOK, StreamTypes, Handlers,
        Kinds
  <2>5. CASE Ended(s)
    BY <2>5, WireAppend DEF Ended, Base, TypeOK, StreamTypes, Handlers,
        Ending, Ends, Kinds
  <2>6. CASE SeesToken(s)
    BY <2>6, WireAppend DEF SeesToken, Base, TypeOK, StreamTypes, Handlers,
        Ending, Kinds
  <2>7. CASE WriteFails(s)
    BY <2>7 DEF WriteFails, Base, TypeOK, StreamTypes, Handlers
  <2>8. CASE Returns(s)
    BY <2>8 DEF Returns, Base, TypeOK, StreamTypes, Handlers
  <2>9. CASE DaemonDies
    BY <2>9 DEF DaemonDies, Base, TypeOK, StreamTypes, Handlers
  <2> QED BY <2>1, <2>2, <2>3, <2>4, <2>5, <2>6, <2>7, <2>8, <2>9 DEF HandlerStep
<1>3. FrontendTypes'
  BY <1>1 DEF Base, TypeOK, FrontendTypes, ui
<1>4. StreamTypes'
  BY <1>1, <1>2 DEF Base, TypeOK, StreamTypes, threads
<1>5. TokensKnown'
  BY <1>1 DEF Base, TypeOK, TokensKnown, ui, threads
<1>6. Tickets'
  BY <1>1 DEF Base, Tickets, ui, threads
<1> QED BY <1>3, <1>4, <1>5, <1>6 DEF Base, TypeOK

\* The types and tickets hold in every state, for any interleaving of the UI
\* threads, the workers and the daemon.
THEOREM BaseInvariant == Spec => []Base
<1>1. Init => Base
  BY StreamAssumption, BaseInit
<1>2. Base /\ [Next]_vars => Base'
  <2> SUFFICES ASSUME Base, [Next]_vars PROVE Base'
    OBVIOUS
  <2>1. CASE UNCHANGED vars
    <3>1. FrontendTypes' /\ TokensKnown'
      BY <2>1 DEF Base, TypeOK, FrontendTypes, TokensKnown, vars, ui, threads
    <3>2. StreamTypes'
      BY <2>1 DEF Base, TypeOK, StreamTypes, vars, threads, daemon
    <3>3. Tickets'
      BY <2>1 DEF Base, Tickets, vars, ui, threads
    <3> QED BY <3>1, <3>2, <3>3 DEF Base, TypeOK
  <2>2. CASE \E f \in Frontends : UiStep(f)
    BY <2>2, StreamAssumption, BaseUi
  <2>3. CASE \E s \in Streams : Start(s) \/ WorkerStep(s)
    BY <2>3, StreamAssumption, BaseWorker
  <2>4. CASE \E s \in Streams : HandlerStep(s)
    BY <2>4, StreamAssumption, BaseDaemon
  <2>5. CASE DaemonDies
    <3>1. PICK s \in Streams : handler[s] \in Live
      BY <2>5 DEF DaemonDies
    <3> QED BY <2>5, <3>1, StreamAssumption, BaseDaemon
  <2> QED BY <2>1, <2>2, <2>3, <2>4, <2>5 DEF Next
<1> QED BY <1>1, <1>2, PTL DEF Spec

\* The slot, the cancel under way and the machine only ever name streams of
\* their own frontend that were started no later than the present epoch.
THEOREM TypeCorrect == Spec => []TypeOK
<1>1. Base => TypeOK
  BY DEF Base
<1> QED BY <1>1, BaseInvariant, PTL

\* The filter of on_timer is exact while a machine is Streaming, whatever was
\* cancelled, reset, retried or delayed before.
THEOREM OwnEvents == Spec => []OwnEventsOnly
<1>1. ASSUME Base PROVE OwnEventsOnly
  <2> SUFFICES ASSUME NEW f \in Frontends, awaiting[f] # None,
                      NEW i \in 1..Len(chunks[f])
               PROVE  Passes(f, chunks[f][i]) <=> chunks[f][i].stream = awaiting[f]
    BY DEF OwnEventsOnly
  <2> DEFINE s == chunks[f][i].stream
             t == awaiting[f]
  <2>1. s \in Streams
    <3>1. chunks[f] \in Seq([stream : Streams, kind : Kinds])
      BY <1>1 DEF Base, TypeOK, StreamTypes
    <3>2. chunks[f][i] \in [stream : Streams, kind : Kinds]
      BY <3>1, ElementOfSeq
    <3> QED BY <3>2
  <2>2. t \in Streams /\ Owner[t] = f /\ ticket[t] = epoch[f] /\ ticket[t] # 0
    BY <1>1 DEF Base, TypeOK, FrontendTypes, TokensKnown, Tickets
  <2>3. Owner[s] = f /\ ticket[s] # 0
    BY <1>1 DEF Base, Tickets
  <2>4. \A u, v \in Streams :
            Owner[u] = Owner[v] /\ ticket[u] = ticket[v] /\ ticket[u] # 0 => u = v
    BY <1>1 DEF Base, Tickets
  <2>5. Passes(f, chunks[f][i]) <=> ticket[s] = epoch[f]
    BY DEF Passes
  <2> HIDE DEF s, t
  <2>6. ticket[s] = epoch[f] <=> s = t
    BY ONLY <2>1, <2>2, <2>3, <2>4
  <2> QED BY <2>5, <2>6 DEF s, t
<1> QED BY <1>1, BaseInvariant, PTL

\* The table of the daemon is exact and no token is triggered early.
LEMMA TableInvariant == Spec => []Table
<1>1. Init => Table
  BY DEF Init, Table, TableTracksHandlers, Live
<1>2. Base /\ Table /\ [Next]_vars => Table'
  <2> SUFFICES ASSUME Base, Table, [Next]_vars PROVE Table'
    OBVIOUS
  <2> USE DEF Table, TableTracksHandlers, Live
  <2>0. /\ handler \in [Streams -> Handlers]
        /\ cancels \subseteq Streams /\ cancelled \subseteq Streams
    BY DEF Base, TypeOK, StreamTypes
  <2>a. ASSUME handler' = handler, NEW exact, LlmCancel(exact) PROVE Table'
    BY <2>0, <2>a DEF LlmCancel, Resolved
  <2>1. CASE UNCHANGED vars
    BY <2>1 DEF vars, daemon
  <2>2. ASSUME NEW f \in Frontends, UiStep(f) PROVE Table'
    <3>1. CASE CancelSends(f)
      BY <2>a, <3>1 DEF CancelSends, LlmCancel, daemon
    <3>2. CASE ~CancelSends(f)
      BY <2>2, <3>2 DEF UiStep, OnTimer, Reset, CancelLoads, CancelBumps,
          CancelClears, daemon
    <3> QED BY <3>1, <3>2
  <2>3. ASSUME NEW s \in Streams, Start(s) \/ WorkerStep(s) PROVE Table'
    <3>1. CASE CancelLate(s)
      BY <2>a, <3>1 DEF CancelLate, LlmCancel, daemon
    <3>2. CASE ~CancelLate(s)
      BY <2>3, <3>2 DEF WorkerStep, Start, AskFails, InstallStreamToken,
          CheckEpoch, Read, ReadBroken, Leave, daemon
    <3> QED BY <3>1, <3>2
  <2>4. ASSUME NEW s \in Streams, HandlerStep(s) PROVE Table'
    <3>1. CASE Register(s)
      BY <2>0, <3>1 DEF Register
    <3>2. CASE Opens(s) \/ WriteFails(s)
      BY <2>0, <3>2 DEF Opens, WriteFails
    <3>3. CASE Answers(s) \/ Ended(s) \/ SeesToken(s)
      BY <2>0, <3>3 DEF Answers, Ended, SeesToken, Ending
    <3>4. CASE SendsChunk(s)
      BY <3>4 DEF SendsChunk
    <3>5. CASE Returns(s)
      BY <2>0, <3>5 DEF Returns
    <3> QED BY <2>4, <3>1, <3>2, <3>3, <3>4, <3>5 DEF HandlerStep
  <2>5. CASE DaemonDies
    BY <2>0, <2>5 DEF DaemonDies
  <2> QED BY <2>1, <2>2, <2>3, <2>4, <2>5 DEF Next
<1> QED BY <1>1, <1>2, BaseInvariant, PTL DEF Spec

\* On every way out of a handler its entry in the table is gone, and none that
\* runs and was not cancelled lacks one.
THEOREM TableExact == Spec => []TableTracksHandlers
<1>1. Table => TableTracksHandlers
  BY DEF Table
<1> QED BY <1>1, TableInvariant, PTL

\* A cancel whose own stream is registered triggers no other token, for any
\* number of frontends and streams that share one request id.
THEOREM CancelIsExact == Spec => CancelHitsItsOwn
<1>1. Base /\ Table /\ [Next]_vars =>
        [/\ \A f \in Frontends :
               call[f] = "sending" /\ call'[f] = "clearing" /\ held[f] \in cancels
                   => cancelled' \subseteq cancelled \cup {held[f]}
         /\ \A s \in Streams :
               worker[s] = "late" /\ worker'[s] = "leaving" /\ s \in cancels
                   => cancelled' = cancelled \cup {s}]_vars
  <2> SUFFICES ASSUME Base, Table, Next
               PROVE  /\ \A f \in Frontends :
                            call[f] = "sending" /\ call'[f] = "clearing"
                                /\ held[f] \in cancels
                                => cancelled' \subseteq cancelled \cup {held[f]}
                      /\ \A s \in Streams :
                            worker[s] = "late" /\ worker'[s] = "leaving"
                                /\ s \in cancels
                                => cancelled' = cancelled \cup {s}
    OBVIOUS
  <2>0. /\ call \in [Frontends -> Calls] /\ worker \in [Streams -> Works]
        /\ cancels \subseteq Streams
    BY DEF Base, TypeOK, FrontendTypes, StreamTypes
  <2>1. ASSUME NEW f \in Frontends, call[f] = "sending", call'[f] = "clearing",
               held[f] \in cancels
        PROVE  cancelled' \subseteq cancelled \cup {held[f]}
    <3>1. CancelSends(f)
      BY <2>0, <2>1 DEF Next, UiStep, OnTimer, Reset, CancelLoads, CancelBumps,
          CancelSends, CancelClears, WorkerStep, Start, AskFails,
          InstallStreamToken, CheckEpoch, CancelLate, Read, ReadBroken, Leave,
          HandlerStep, Register, Opens, Answers, SendsChunk, Ended, SeesToken,
          WriteFails, Returns, Ending, DaemonDies, ui
    <3>2. CASE LlmCancel({})
      BY <2>1, <3>2 DEF LlmCancel, Resolved
    <3>3. CASE UNCHANGED daemon
      BY <3>3 DEF daemon
    <3> QED BY <3>1, <3>2, <3>3 DEF CancelSends
  <2>2. ASSUME NEW s \in Streams, worker[s] = "late", worker'[s] = "leaving",
               s \in cancels
        PROVE  cancelled' = cancelled \cup {s}
    <3>1. CancelLate(s)
      BY <2>0, <2>2 DEF Next, UiStep, OnTimer, Reset, CancelLoads, CancelBumps,
          CancelSends, CancelClears, WorkerStep, Start, AskFails,
          InstallStreamToken, CheckEpoch, CancelLate, Read, ReadBroken, Leave,
          HandlerStep, Register, Opens, Answers, SendsChunk, Ended, SeesToken,
          WriteFails, Returns, Ending, DaemonDies, threads
    <3>2. handler[s] # "lost"
      BY <2>2 DEF Table, TableTracksHandlers, Live
    <3>3. LlmCancel({s})
      BY <3>1, <3>2 DEF CancelLate
    <3> QED BY <2>2, <3>3 DEF LlmCancel, Resolved
  <2> QED BY <2>1, <2>2
<1> QED BY <1>1, BaseInvariant, TableInvariant, PTL DEF Spec, CancelHitsItsOwn

\* A present stream's token reaches the slot and stays there.
LEMMA InstalledInvariant == Spec => []Installed
<1>1. Init => Installed
  BY DEF Init, Installed
<1>2. Base /\ Installed /\ [Next]_vars => Installed'
  <2> SUFFICES ASSUME Base, Installed, [Next]_vars PROVE Installed'
    OBVIOUS
  <2>0. /\ slot \in [Frontends -> Streams \cup {None}]
        /\ held \in [Frontends -> Streams \cup {None}]
        /\ call \in [Frontends -> Calls] /\ epoch \in [Frontends -> Nat]
        /\ ticket \in [Streams -> Nat] /\ worker \in [Streams -> Works]
        /\ Owner \in [Streams -> Frontends] /\ None \notin Streams
    BY StreamAssumption DEF Base, TypeOK, FrontendTypes, StreamTypes
  <2>a. /\ \A s \in Streams : ticket[s] <= epoch[Owner[s]]
        /\ \A s \in Streams : worker[s] # "unused" => ticket[s] # 0
        /\ \A s, t \in Streams :
              Owner[s] = Owner[t] /\ ticket[s] = ticket[t] /\ ticket[s] # 0 => s = t
    BY DEF Base, Tickets
  <2>b. \A f \in Frontends, s \in Streams : s \in {slot[f], held[f]} =>
            Owner[s] = f /\ ticket[s] \in 1..epoch[f]
    BY DEF Base, TypeOK, TokensKnown
  <2> USE DEF Installed
  <2>1. CASE UNCHANGED vars
    BY <2>1 DEF vars, ui, threads
  <2>2. ASSUME NEW f \in Frontends, UiStep(f) PROVE Installed'
    <3>1. CASE OnTimer(f) \/ Reset(f)
      BY <3>1 DEF OnTimer, Reset, threads
    <3>2. CASE CancelLoads(f)
      BY <2>0, <3>2 DEF CancelLoads, threads
    <3>3. CASE CancelBumps(f)
      BY <2>0, <2>a, <2>b, <3>3 DEF CancelBumps, threads
    <3>4. CASE CancelSends(f)
      BY <2>0, <3>4 DEF CancelSends, threads
    <3>5. CASE CancelClears(f)
      BY <2>0, <3>5 DEF CancelClears, Cleared, threads
    <3> QED BY <2>2, <3>1, <3>2, <3>3, <3>4, <3>5 DEF UiStep
  <2>3. ASSUME NEW s \in Streams, Start(s) \/ WorkerStep(s) PROVE Installed'
    <3>1. CASE Start(s)
      BY <2>0, <2>a, <2>b, <3>1 DEF Start
    <3>2. CASE AskFails(s) \/ CancelLate(s) \/ Read(s) \/ ReadBroken(s)
      BY <2>0, <3>2 DEF AskFails, CancelLate, Read, ReadBroken, ui
    <3>3. CASE InstallStreamToken(s)
      BY <2>0, <2>a, <2>b, <3>3 DEF InstallStreamToken, ui
    <3>4. CASE CheckEpoch(s)
      BY <2>0, <3>4 DEF CheckEpoch, ui
    <3>5. CASE Leave(s)
      BY <2>0, <3>5 DEF Leave, Cleared, ui
    <3> QED BY <2>3, <3>1, <3>2, <3>3, <3>4, <3>5 DEF WorkerStep
  <2>4. ASSUME NEW s \in Streams, HandlerStep(s) \/ DaemonDies PROVE Installed'
    <3>1. UNCHANGED <<ui, slot, chunks, threads>>
      BY <2>4, DaemonLeaves
    <3> QED BY <3>1 DEF ui, threads
  <2>5. CASE DaemonDies
    BY <2>5 DEF DaemonDies, ui, threads
  <2> QED BY <2>1, <2>2, <2>3, <2>4, <2>5 DEF Next
<1> QED BY <1>1, <1>2, BaseInvariant, PTL DEF Spec

\* However starts, late installs, clean-ups and cancels interleave, the stream
\* of the present epoch can be cancelled while it is read.
THEOREM TicketKept == Spec => []CurrentTicketKept
<1>1. Installed => CurrentTicketKept
  BY DEF Installed, CurrentTicketKept
<1> QED BY <1>1, InstalledInvariant, PTL

\* Queueing an event of a worker that has queued no ending event yet.
LEMMA QueuedOnce ==
    ASSUME StreamAssumption, Base, Queued, NEW s \in Streams, NEW kind \in Kinds,
           Queue(s, kind), worker[s] \notin {"leaving", "done"},
           kind \in Ends => worker'[s] \in {"leaving", "done"},
           \A t \in Streams : t # s => worker'[t] = worker[t]
    PROVE  Queued'
<1> DEFINE E == [stream : Streams, kind : Kinds]
<1>1. \A f \in Frontends : \A i \in 1..Len(chunks[f]) : chunks[f][i] \in E
  <2> SUFFICES ASSUME NEW f \in Frontends, NEW i \in 1..Len(chunks[f])
               PROVE  chunks[f][i] \in E
    OBVIOUS
  <2>1. chunks[f] \in Seq(E)
    BY DEF Base, TypeOK, StreamTypes
  <2> HIDE DEF E
  <2> QED BY <2>1, ElementOfSeq
<1>2. /\ \A f \in Frontends : \A i \in 1..Len(chunks'[f]) :
            \/ /\ i \in 1..Len(chunks[f])
               /\ chunks'[f][i] = chunks[f][i]
            \/ /\ f = Owner[s] /\ i = Len(chunks[f]) + 1
               /\ chunks'[f][i] = [stream |-> s, kind |-> kind]
      /\ \A f \in Frontends : Len(chunks[f]) \in Nat
  BY QueueEffect DEF Base
<1>3. \A f \in Frontends : \A i \in 1..Len(chunks[f]) :
          chunks[f][i].kind \in Ends =>
              /\ worker[chunks[f][i].stream] \in {"leaving", "done"}
              /\ chunks[f][i].stream # s
  BY DEF Queued
<1>4. EndsOnce'
  <2> SUFFICES ASSUME NEW f \in Frontends,
                      NEW i \in 1..Len(chunks'[f]), NEW j \in 1..Len(chunks'[f]),
                      i < j, chunks'[f][i].stream = chunks'[f][j].stream
               PROVE  chunks'[f][i].kind \notin Ends
    BY DEF EndsOnce
  <2>0. /\ Len(chunks[f]) \in Nat
        /\ \/ i \in 1..Len(chunks[f]) /\ chunks'[f][i] = chunks[f][i]
           \/ i = Len(chunks[f]) + 1
        /\ \/ j \in 1..Len(chunks[f]) /\ chunks'[f][j] = chunks[f][j]
           \/ j = Len(chunks[f]) + 1 /\ chunks'[f][j].stream = s
    BY <1>2
  <2>1. CASE j \in 1..Len(chunks[f]) /\ chunks'[f][j] = chunks[f][j]
    <3>1. i \in 1..Len(chunks[f]) /\ chunks'[f][i] = chunks[f][i]
      BY <2>0, <2>1
    <3> QED BY <2>1, <3>1 DEF Queued, EndsOnce
  <2>2. CASE j = Len(chunks[f]) + 1 /\ chunks'[f][j].stream = s
    <3>1. i \in 1..Len(chunks[f]) /\ chunks'[f][i] = chunks[f][i]
      BY <2>0, <2>2
    <3> QED BY <1>3, <2>2, <3>1
  <2> QED BY <2>0, <2>1, <2>2
<1>5. ASSUME NEW f \in Frontends, NEW i \in 1..Len(chunks'[f]),
             chunks'[f][i].kind \in Ends
      PROVE  worker'[chunks'[f][i].stream] \in {"leaving", "done"}
  <2>1. CASE i \in 1..Len(chunks[f]) /\ chunks'[f][i] = chunks[f][i]
    <3>1. chunks[f][i].stream \in Streams
      BY <1>1, <2>1
    <3> QED BY <1>3, <1>5, <2>1, <3>1
  <2>2. CASE chunks'[f][i] = [stream |-> s, kind |-> kind]
    BY <1>5, <2>2
  <2> QED BY <1>2, <2>1, <2>2
<1> QED BY <1>4, <1>5 DEF Queued

\* No event follows an ending one of the same stream.
LEMMA QueuedInvariant == Spec => []Queued
<1>1. Init => Queued
  <2>1. \A S : <<>> \in Seq(S) /\ Len(<<>>) = 0
    BY EmptySeq
  <2> QED BY <2>1 DEF Init, Queued, EndsOnce
<1>2. Base /\ Queued /\ [Next]_vars => Queued'
  <2> SUFFICES ASSUME Base, Queued, [Next]_vars PROVE Queued'
    OBVIOUS
  <2>0. worker \in [Streams -> Works] /\ Owner \in [Streams -> Frontends]
    BY StreamAssumption DEF Base, TypeOK, StreamTypes
  <2>a. ASSUME chunks' = chunks,
               \A s \in Streams : worker[s] \in {"leaving", "done"} =>
                                      worker'[s] \in {"leaving", "done"}
        PROVE  Queued'
    <3>1. ASSUME NEW f \in Frontends, NEW i \in 1..Len(chunks[f])
          PROVE  chunks[f][i].stream \in Streams
      <4>1. chunks[f] \in Seq([stream : Streams, kind : Kinds])
        BY DEF Base, TypeOK, StreamTypes
      <4>2. chunks[f][i] \in [stream : Streams, kind : Kinds]
        BY <4>1, ElementOfSeq
      <4> QED BY <4>2
    <3> QED BY <2>a, <3>1 DEF Queued, EndsOnce
  <2>1. CASE UNCHANGED vars
    BY <2>a, <2>1 DEF vars, threads
  <2>2. ASSUME NEW f \in Frontends, UiStep(f) PROVE Queued'
    <3>1. CASE OnTimer(f)
      <4>1. Len(<<>>) = 0
        BY EmptySeq
      <4>2. \A g \in Frontends : chunks'[g] \in {chunks[g], <<>>}
        BY <3>1 DEF OnTimer, Base, TypeOK, StreamTypes
      <4>3. \A g \in Frontends : \A i \in 1..Len(chunks'[g]) :
                chunks'[g] = chunks[g] /\ i \in 1..Len(chunks[g])
        BY <4>1, <4>2
      <4>4. worker' = worker
        BY <3>1 DEF OnTimer, threads
      <4> QED BY <4>3, <4>4 DEF Queued, EndsOnce
    <3>2. CASE ~OnTimer(f)
      <4>1. chunks' = chunks /\ worker' = worker
        BY <2>2, <3>2 DEF UiStep, Reset, CancelLoads, CancelBumps, CancelSends,
            CancelClears, threads
      <4> QED BY <2>a, <4>1
    <3> QED BY <3>1, <3>2
  <2>3. ASSUME NEW s \in Streams, Start(s) \/ WorkerStep(s) PROVE Queued'
    <3>1. CASE AskFails(s)
      BY <2>0, <3>1, StreamAssumption, QueuedOnce DEF AskFails, Kinds
    <3>2. CASE Read(s)
      <4>1. Head(wire[s]) \in Kinds
        BY <3>2, WireFacts DEF Read, Base
      <4> QED BY <2>0, <3>2, <4>1, StreamAssumption, QueuedOnce DEF Read
    <3>3. CASE ReadBroken(s)
      BY <2>0, <3>3, StreamAssumption, QueuedOnce DEF ReadBroken, Kinds
    <3>4. CASE Start(s) \/ InstallStreamToken(s) \/ CheckEpoch(s) \/ CancelLate(s)
               \/ Leave(s)
      BY <2>0, <2>a, <3>4 DEF Start, InstallStreamToken, CheckEpoch, CancelLate, Leave
    <3> QED BY <2>3, <3>1, <3>2, <3>3, <3>4 DEF WorkerStep
  <2>4. ASSUME NEW s \in Streams, HandlerStep(s) PROVE Queued'
    <3>1. UNCHANGED <<ui, slot, chunks, threads>>
      BY <2>4, DaemonLeaves
    <3> QED BY <2>a, <3>1 DEF threads
  <2>5. CASE DaemonDies
    BY <2>a, <2>5 DEF DaemonDies, threads
  <2> QED BY <2>1, <2>2, <2>3, <2>4, <2>5 DEF Next
<1> QED BY <1>1, <1>2, BaseInvariant, PTL DEF Spec

\* A machine is never told of an error after the end of the same stream.
THEOREM EndsAreLast == Spec => []EndsOnce
<1>1. Queued => EndsOnce
  BY DEF Queued
<1> QED BY <1>1, QueuedInvariant, PTL

==============================================================================
