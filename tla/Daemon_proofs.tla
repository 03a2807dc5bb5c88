---------------------------- MODULE Daemon_proofs ----------------------------
(***************************************************************************)
(* Proofs about what the daemon keeps between requests: the AI context of  *)
(* each window (first part), for any windows, requests and limits, and the *)
(* configuration and the API key (second part), for any fields, values,    *)
(* requests and kills.  The two modules share no state; the proofs share   *)
(* this module.                                                            *)
(*                                                                         *)
(* Lemmas on the context store's operators come first, then the inductive  *)
(* invariants: what a handler may hold (HandlerInv) and what a history may *)
(* hold (StoreInv), with one step per action.  The invariant of the stores *)
(* says what a task has seen (Fits), that what is not marked as a mixture  *)
(* was in memory as a whole (Held), and that, while nothing was rejected,  *)
(* left unsaved or overlapped, nothing is marked (Pure) and one request at *)
(* a time has in hand whatever file, memory and keyring do not agree on    *)
(* (InHand).                                                               *)
(***************************************************************************)
EXTENDS SessionHistory, DaemonStores, SequenceTheorems, TLAPS

(***************************************************************************)
(* Operators.                                                              *)
(***************************************************************************)
\* Trim keeps the last messages, in order, and all of them if they are few.
LEMMA TrimFacts ==
    ASSUME NEW S, NEW s \in Seq(S), NEW max \in Nat
    PROVE  /\ Trim(s, max) \in Seq(S)
           /\ Len(Trim(s, max)) <= Len(s)
           /\ \A i \in 1..Len(Trim(s, max)) :
                Trim(s, max)[i] = s[i + (Len(s) - Len(Trim(s, max)))]
           /\ max > 0 /\ Len(s) > 0 => Len(Trim(s, max)) > 0
<1>1. CASE Len(s) > max
  <2> DEFINE k == Len(s) - max
             t == SubSeq(s, k + 1, Len(s))
  <2>1. k \in 1..Len(s) /\ Len(s) \in Nat
    BY <1>1, LenProperties
  <2>2. /\ t \in Seq(S) /\ Len(t) = max
        /\ \A i \in 1..Len(t) : t[i] = s[k + i]
    BY <2>1, SubSeqProperties
  <2>3. Trim(s, max) = t
    BY <1>1, <2>1 DEF Trim
  <2> HIDE DEF t
  <2> QED BY <1>1, <2>1, <2>2, <2>3
<1>2. CASE ~(Len(s) > max)
  BY <1>2, LenProperties DEF Trim
<1> QED BY <1>1, <1>2

\* Taking a window out of the order of use leaves the other windows in it.
LEMMA OtherFacts ==
    ASSUME recency \in Seq(Windows), NEW w \in Windows,
           \A i, j \in DOMAIN recency : recency[i] = recency[j] => i = j
    PROVE  /\ Other(w) \in Seq(Windows)
           /\ \A i \in 1..Len(Other(w)) : Other(w)[i] # w
           /\ \A i, j \in 1..Len(Other(w)) : Other(w)[i] = Other(w)[j] => i = j
           /\ \A v \in Windows \ {w} : Present(v) <=>
                \E i \in 1..Len(Other(w)) : Other(w)[i] = v
<1>0. DOMAIN recency = 1..Len(recency) /\ Len(recency) \in Nat
  BY LenProperties
<1>1. CASE ~Present(w)
  BY <1>0, <1>1 DEF Other, Present
<1>2. CASE Present(w)
  <2> DEFINE p == Place(w)
             n == Len(recency)
             a == SubSeq(recency, 1, p - 1)
             b == SubSeq(recency, p + 1, n)
             o == a \o b
  <2>1. p \in 1..n /\ recency[p] = w
    BY <1>0, <1>2 DEF Present, Place
  <2> HIDE DEF p
  <2>2. /\ a \in Seq(Windows) /\ Len(a) = p - 1
        /\ \A i \in 1..(p - 1) : a[i] = recency[i]
    BY <1>0, <2>1, SubSeqProperties
  <2>3. /\ b \in Seq(Windows) /\ Len(b) = n - p
        /\ \A i \in 1..(n - p) : b[i] = recency[p + i]
    <3>1. n \in Int /\ p + 1 \in Int /\ \A i \in (p + 1)..n : recency[i] \in Windows
      BY <1>0, <2>1
    <3>2. /\ b \in Seq(Windows)
          /\ Len(b) = IF p + 1 <= n THEN n - (p + 1) + 1 ELSE 0
          /\ \A i \in 1..(n - (p + 1) + 1) : b[i] = recency[(p + 1) + i - 1]
      BY ONLY <3>1, SubSeqProperties
    <3>3. n \in Nat /\ p \in 1..n
      BY <1>0, <2>1
    <3> HIDE DEF b, n
    <3>4. Len(b) = n - p
      BY ONLY <3>2, <3>3
    <3>5. \A i \in 1..(n - p) : b[i] = recency[p + i]
      <4> TAKE i \in 1..(n - p)
      <4>1. i \in 1..(n - (p + 1) + 1) /\ (p + 1) + i - 1 = p + i
        BY ONLY <3>3, i \in 1..(n - p)
      <4> QED BY <3>2, <4>1
    <3> QED BY ONLY <3>2, <3>4, <3>5
  <2> HIDE DEF a, b
  <2>4. /\ o \in Seq(Windows) /\ Len(o) = n - 1
        /\ \A i \in 1..(n - 1) : i < p => o[i] = recency[i]
        /\ \A i \in 1..(n - 1) : i >= p => o[i] = recency[i + 1]
    <3>1. /\ o \in Seq(Windows) /\ Len(o) = Len(a) + Len(b)
          /\ \A i \in 1..(Len(a) + Len(b)) :
                o[i] = IF i <= Len(a) THEN a[i] ELSE b[i - Len(a)]
      BY ONLY <2>2, <2>3, ConcatProperties
    <3>2. Len(o) = n - 1
      BY <1>0, <2>1, <2>2, <2>3, <3>1
    <3>3. ASSUME NEW i \in 1..(n - 1), i < p
          PROVE  o[i] = recency[i]
      BY <1>0, <2>1, <2>2, <2>3, <3>1, <3>3
    <3>4. ASSUME NEW i \in 1..(n - 1), i >= p
          PROVE  o[i] = recency[i + 1]
      <4>1. i - (p - 1) \in 1..(n - p) /\ p + (i - (p - 1)) = i + 1
        BY <1>0, <2>1, <3>4
      <4>2. o[i] = b[i - (p - 1)]
        BY <1>0, <2>1, <2>2, <2>3, <3>1, <3>4
      <4> QED BY <2>3, <4>1, <4>2
    <3> QED BY <3>1, <3>2, <3>3, <3>4
  <2>5. Other(w) = o
    BY <1>2 DEF Other, a, b, p
  <2> HIDE DEF o
  <2>6. \A i \in 1..(n - 1) : o[i] # w
    BY <1>0, <2>1, <2>4
  <2>7. \A i, j \in 1..(n - 1) : o[i] = o[j] => i = j
    <3> SUFFICES ASSUME NEW i \in 1..(n - 1), NEW j \in 1..(n - 1), o[i] = o[j]
                 PROVE  i = j
      OBVIOUS
    <3>1. PICK x \in 1..n : o[i] = recency[x] /\ x = (IF i < p THEN i ELSE i + 1)
      BY <1>0, <2>1, <2>4
    <3>2. PICK y \in 1..n : o[j] = recency[y] /\ y = (IF j < p THEN j ELSE j + 1)
      BY <1>0, <2>1, <2>4
    <3>3. x = y
      BY <1>0, <3>1, <3>2
    <3> QED BY <1>0, <2>1, <3>1, <3>2, <3>3
  <2>8. ASSUME NEW v \in Windows \ {w}
        PROVE  Present(v) <=> \E i \in 1..(n - 1) : o[i] = v
    <3>1. ASSUME NEW i \in 1..n, recency[i] = v
          PROVE  \E j \in 1..(n - 1) : o[j] = v
      <4>1. i # p
        BY <2>1, <3>1, <2>8
      <4>2. CASE i < p
        <5>1. i \in 1..(n - 1) /\ o[i] = recency[i]
          BY <1>0, <2>1, <2>4, <4>2
        <5> QED BY <5>1, <3>1
      <4>3. CASE i > p
        <5>1. i - 1 \in 1..(n - 1) /\ o[i - 1] = recency[i]
          BY <1>0, <2>1, <2>4, <4>3
        <5> QED BY <5>1, <3>1
      <4> QED BY <1>0, <2>1, <4>1, <4>2, <4>3
    <3>2. ASSUME NEW i \in 1..(n - 1), o[i] = v
          PROVE  Present(v)
      <4>1. CASE i < p
        <5>1. i \in 1..n /\ recency[i] = v
          BY <1>0, <2>1, <2>4, <3>2, <4>1
        <5> QED BY <1>0, <5>1 DEF Present
      <4>2. CASE i >= p
        <5>1. i + 1 \in 1..n /\ recency[i + 1] = v
          BY <1>0, <2>1, <2>4, <3>2, <4>2
        <5> QED BY <1>0, <5>1 DEF Present
      <4> QED BY <1>0, <2>1, <4>1, <4>2
    <3> QED BY <1>0, <3>1, <3>2 DEF Present
  <2> QED BY <1>0, <2>4, <2>5, <2>6, <2>7, <2>8
<1> QED BY <1>1, <1>2

(***************************************************************************)
(* What a handler may hold.                                                *)
(***************************************************************************)
\* A generation is older than the next one to be handed out; one that a handler
\* of a cleared window holds is no longer its window's.
HandlerInv ==
    /\ \A w \in Windows : generations[w] < nextGeneration
    /\ \A r \in Requests :
        /\ request[r].step \notin {"unused", "dropped"} => request[r].window \in Windows
        /\ request[r].step \notin {"streaming", "answered"} => request[r].generation = 0
        /\ request[r].step \in {"unused", "registered", "prepared"} =>
            ~request[r].stale /\ ~request[r].half
        /\ request[r].generation # 0 =>
            /\ request[r].turns > 0
            /\ request[r].generation < nextGeneration
            /\ request[r].stale =>
                generations[request[r].window] # request[r].generation

\* What a history holds: turns of requests that were written back whole.
Kept(r) == request[r].step = "remembered" /\ ~request[r].stale /\ ~request[r].half
StoreInv ==
    \A w \in Windows : \A i \in 1..Len(history[w]) :
        history[w][i].of # None => Kept(history[w][i].of)

Inv == TypeOK /\ HandlerInv /\ StoreInv

\* Initially nothing is held.
LEMMA InitInv == Init => Inv
<1> SUFFICES ASSUME Init PROVE Inv
  OBVIOUS
<1> USE HistoryAssumption
<1>1. \A w \in Windows : history[w] = <<>> /\ Len(history[w]) = 0
  BY DEF Init
<1>2. <<>> \in Seq(Messages) /\ <<>> \in Seq(Windows) /\ DOMAIN <<>> = {}
  OBVIOUS
<1>3. TypeOK
  <2>1. recency \in Seq(Windows) /\ history \in [Windows -> Seq(Messages)]
    BY <1>2 DEF Init
  <2>2. request \in [Requests -> Handlers]
    BY DEF Init, Unused, Handlers, Steps, Kinds
  <2> QED BY <1>1, <1>2, <2>1, <2>2 DEF Init, TypeOK, Present
<1>4. HandlerInv
  BY DEF Init, HandlerInv, Unused
<1>5. StoreInv
  BY <1>1 DEF StoreInv
<1> QED BY <1>3, <1>4, <1>5 DEF Inv

\* A step of one handler that touches neither the store nor the generations.
LEMMA HandlerStep ==
    ASSUME Inv, NEW r \in Requests, NEW q \in Handlers,
           request[r].step # "remembered",
           request' = [request EXCEPT ![r] = q],
           UNCHANGED <<history, recency, generations, nextGeneration>>,
           turns' \in Nat, appending' = appending,
           q.step \notin {"unused", "dropped"} => q.window \in Windows,
           q.step \notin {"streaming", "answered"} => q.generation = 0,
           q.step \in {"unused", "registered", "prepared"} => ~q.stale /\ ~q.half,
           q.generation # 0 =>
              /\ q.turns > 0 /\ q.generation < nextGeneration
              /\ q.stale => generations[q.window] # q.generation
    PROVE  Inv'
<1>1. TypeOK'
  BY DEF Inv, TypeOK, Present
<1>2. HandlerInv'
  BY DEF Inv, TypeOK, HandlerInv
<1>3. StoreInv'
  BY DEF Inv, TypeOK, StoreInv, Kept
<1> QED BY <1>1, <1>2, <1>3 DEF Inv

\* The steps of a handler before the store is touched, and between.
LEMMA RegisterInv ==
    ASSUME Inv, NEW r \in Requests, NEW w \in Windows, NEW kind \in Kinds,
           Register(r, w, kind)
    PROVE  Inv'
<1> DEFINE q == [Unused EXCEPT !.step = "registered", !.window = w, !.kind = kind]
<1>1. /\ q \in Handlers /\ q.step = "registered" /\ q.window = w
      /\ q.generation = 0 /\ ~q.stale /\ ~q.half
  BY DEF Unused, Handlers, Steps, Kinds
<1> HIDE DEF q
<1>2. request' = [request EXCEPT ![r] = q]
  BY DEF Register, q
<1> QED BY <1>1, <1>2, HandlerStep DEF Register, Inv, TypeOK

\* A handler that returns leaves the invariant alone (OkFails, StreamFails).
LEMMA EndsInv ==
    ASSUME Inv, NEW r \in Requests, request[r].step # "remembered",
           Ends(r, "dropped"),
           UNCHANGED <<turns, history, recency, generations, nextGeneration, appending>>
    PROVE  Inv'
<1> DEFINE q == Ended(request[r], "dropped")
<1>1. /\ q \in Handlers /\ q.step = "dropped"
      /\ q.generation = 0 /\ ~q.stale /\ ~q.half
  BY DEF Ended, Unused, Handlers, Steps, Kinds
<1> HIDE DEF q
<1>2. request' = [request EXCEPT ![r] = q]
  BY DEF Ends, q
<1> QED BY <1>1, <1>2, HandlerStep DEF Inv, TypeOK

\* Reading ai_context_turns keeps the invariant.
LEMMA ReadConfigInv ==
    ASSUME Inv, NEW r \in Requests, ReadConfig(r)
    PROVE  Inv'
<1> DEFINE q == [request[r] EXCEPT !.step = "prepared", !.turns = turns]
<1>1. request[r] \in Handlers /\ request[r].step = "registered"
  BY DEF Inv, TypeOK, ReadConfig
<1>2. /\ request[r].generation = 0 /\ request[r].window \in Windows
      /\ ~request[r].stale /\ ~request[r].half
  BY <1>1 DEF Inv, HandlerInv
<1>3. /\ q \in Handlers /\ q.step = "prepared" /\ q.window \in Windows
      /\ q.generation = 0 /\ ~q.stale /\ ~q.half
  BY <1>1, <1>2 DEF Inv, TypeOK, Handlers, Steps
<1>4. request' = [request EXCEPT ![r] = q]
  BY DEF ReadConfig
<1> HIDE DEF q
<1> QED BY <1>1, <1>3, <1>4, HandlerStep DEF ReadConfig, Inv, TypeOK

\* A handler that moves on, or whose token or half flag changes, keeps the rest.
LEMMA FlagInv ==
    ASSUME Inv, NEW r \in Requests, NEW q \in Handlers,
           Running(r),
           request' = [request EXCEPT ![r] = q],
           \/ q.step = request[r].step
           \/ request[r].step = "streaming" /\ q.step = "answered",
           q.window = request[r].window, q.turns = request[r].turns,
           q.generation = request[r].generation, q.stale = request[r].stale,
           q.half = request[r].half \/ q.step = "answered",
           UNCHANGED <<turns, history, recency, generations, nextGeneration, appending>>
    PROVE  Inv'
<1>1. request[r].step \notin {"unused", "dropped", "remembered"}
  BY DEF Running
<1>2. request[r].window \in Windows
  BY <1>1 DEF Inv, HandlerInv
<1>3. q.step \notin {"streaming", "answered"} => q.generation = 0
  BY <1>1 DEF Inv, HandlerInv
<1>4. q.step \in {"unused", "registered", "prepared"} => ~q.stale /\ ~q.half
  BY <1>1 DEF Inv, HandlerInv
<1>5. q.generation # 0 =>
        /\ q.turns > 0 /\ q.generation < nextGeneration
        /\ q.stale => generations[q.window] # q.generation
  BY DEF Inv, HandlerInv
<1> QED BY <1>1, <1>2, <1>3, <1>4, <1>5, HandlerStep DEF Inv, TypeOK

\* So does a cancel that reaches the token,
LEMMA CancelInv ==
    ASSUME Inv, NEW r \in Requests, Cancel(r)
    PROVE  Inv'
<1> DEFINE q == [request[r] EXCEPT !.cancelled = TRUE]
<1>1. request[r] \in Handlers /\ request' = [request EXCEPT ![r] = q]
  BY DEF Inv, TypeOK, Cancel
<1>2. /\ q \in Handlers /\ q.step = request[r].step
      /\ q.window = request[r].window /\ q.turns = request[r].turns
      /\ q.generation = request[r].generation /\ q.stale = request[r].stale
      /\ q.half = request[r].half
  BY <1>1 DEF Handlers
<1> HIDE DEF q
<1> QED BY <1>1, <1>2, FlagInv DEF Cancel

\* the select that sees it,
LEMMA SeeCancelInv ==
    ASSUME Inv, NEW r \in Requests, SeeCancel(r)
    PROVE  Inv'
<1> DEFINE q == [request[r] EXCEPT !.step = "answered", !.half = TRUE]
<1>1. request[r] \in Handlers /\ request' = [request EXCEPT ![r] = q]
  BY DEF Inv, TypeOK, SeeCancel
<1>2. /\ q \in Handlers /\ q.step = "answered"
      /\ q.window = request[r].window /\ q.turns = request[r].turns
      /\ q.generation = request[r].generation /\ q.stale = request[r].stale
  BY <1>1 DEF Handlers, Steps
<1> HIDE DEF q
<1> QED BY <1>1, <1>2, FlagInv DEF SeeCancel, Running

\* and the end of the stream.
LEMMA StreamEndsInv ==
    ASSUME Inv, NEW r \in Requests, StreamEnds(r)
    PROVE  Inv'
<1> DEFINE q == [request[r] EXCEPT !.step = "answered"]
<1>1. request[r] \in Handlers /\ request' = [request EXCEPT ![r] = q]
  BY DEF Inv, TypeOK, StreamEnds, Goes
<1>2. /\ q \in Handlers /\ q.step = "answered"
      /\ q.window = request[r].window /\ q.turns = request[r].turns
      /\ q.generation = request[r].generation /\ q.stale = request[r].stale
      /\ q.half = request[r].half
  BY <1>1 DEF Handlers, Steps
<1> HIDE DEF q
<1> QED BY <1>1, <1>2, FlagInv DEF StreamEnds, Running

\* A handler of a text request takes its window's generation, or none.
LEMMA SnapshotInv ==
    ASSUME Inv, NEW r \in Requests, Snapshot(r)
    PROVE  Inv'
<1> DEFINE w == request[r].window
           multi == request[r].kind = "text" /\ request[r].turns > 0
           mine == IF multi THEN EnsuredGeneration(w) ELSE 0
           fresh == mine # 0 /\ generations[w] = 0
           q == [request[r] EXCEPT !.step = "streaming", !.generation = mine]
<1>1. /\ request[r] \in Handlers /\ request[r].step = "prepared" /\ w \in Windows
      /\ ~request[r].stale /\ ~request[r].half
  BY DEF Inv, TypeOK, HandlerInv, Snapshot
<1>2. nextGeneration \in Nat \ {0} /\ generations \in [Windows -> Nat]
  BY DEF Inv, TypeOK
<1>3. /\ mine \in Nat
      /\ mine # 0 => request[r].turns > 0
      /\ mine # 0 /\ ~fresh => mine = generations[w]
      /\ fresh => mine = nextGeneration
  BY <1>1, <1>2 DEF EnsuredGeneration
<1>4. /\ request' = [request EXCEPT ![r] = q]
      /\ IF fresh THEN /\ generations' = [generations EXCEPT ![w] = mine]
                       /\ nextGeneration' = nextGeneration + 1
         ELSE UNCHANGED <<generations, nextGeneration>>
      /\ UNCHANGED <<turns, history, recency, appending>>
  BY DEF Snapshot
<1> HIDE DEF mine
<1>5. /\ q \in Handlers /\ q.step = "streaming" /\ q.window = w
      /\ q.generation = mine /\ ~q.stale /\ ~q.half /\ q.turns = request[r].turns
  BY <1>1, <1>3 DEF Handlers, Steps
<1> HIDE DEF q
<1>6. nextGeneration' \in Nat \ {0} /\ nextGeneration' >= nextGeneration
      /\ generations' \in [Windows -> Nat]
  BY <1>1, <1>2, <1>3, <1>4
<1>7. TypeOK'
  <2>1. request' \in [Requests -> Handlers]
    BY <1>4, <1>5 DEF Inv, TypeOK
  <2> QED BY <1>4, <1>6, <2>1 DEF Inv, TypeOK, Present
<1>8. HandlerInv'
  <2>1. \A v \in Windows : generations'[v] < nextGeneration'
    BY <1>1, <1>2, <1>3, <1>4, <1>6 DEF Inv, HandlerInv
  <2>2. ASSUME NEW p \in Requests, p # r,
               request[p].generation # 0, request[p].stale
        PROVE  generations'[request[p].window] # request[p].generation
    <3>1. /\ request[p].generation < nextGeneration
          /\ generations[request[p].window] # request[p].generation
          /\ request[p].window \in Windows
          /\ request[p].generation \in Nat
      BY <2>2 DEF Inv, HandlerInv, TypeOK, Handlers
    <3> QED BY <1>1, <1>2, <1>3, <1>4, <3>1
  <2>3. mine # 0 => mine < nextGeneration'
    BY <1>1, <1>2, <1>3, <1>4, <1>6 DEF Inv, HandlerInv
  <2>4. \A p \in Requests : request'[p] = IF p = r THEN q ELSE request[p]
    BY <1>4 DEF Inv, TypeOK
  <2>5. \A p \in Requests : request[p].generation \in Nat
    BY DEF Inv, TypeOK, Handlers
  <2>6. ASSUME NEW p \in Requests, request'[p].generation # 0
        PROVE  /\ request'[p].turns > 0
               /\ request'[p].generation < nextGeneration'
               /\ request'[p].stale =>
                    generations'[request'[p].window] # request'[p].generation
    <3>1. CASE p = r
      BY <1>3, <1>5, <2>3, <2>4, <2>6, <3>1
    <3>2. CASE p # r
      <4>1. request'[p] = request[p] /\ request[p].generation # 0
        BY <2>4, <2>6, <3>2
      <4>2. request[p].turns > 0 /\ request[p].generation < nextGeneration
        BY <4>1 DEF Inv, HandlerInv
      <4> QED BY <1>2, <1>6, <2>2, <2>5, <3>2, <4>1, <4>2
    <3> QED BY <3>1, <3>2
  <2> QED BY <1>1, <1>5, <2>1, <2>4, <2>6 DEF Inv, HandlerInv
<1>9. StoreInv'
  BY <1>1, <1>4 DEF Inv, TypeOK, StoreInv, Kept
<1> QED BY <1>7, <1>8, <1>9 DEF Inv

(***************************************************************************)
(* Steps that write the store.                                             *)
(***************************************************************************)
\* Write leaves an ordered store with the window written at its end, and every
\* other history as it was, or gone.
LEMMA WriteFacts ==
    ASSUME TypeOK, NEW w \in Windows, NEW msgs \in Seq(Messages), Write(w, msgs)
    PROVE  /\ recency' \in Seq(Windows)
           /\ \A i, j \in DOMAIN recency' : recency'[i] = recency'[j] => i = j
           /\ recency' # <<>> /\ recency'[Len(recency')] = w
           /\ history' \in [Windows -> Seq(Messages)]
           /\ history'[w] = msgs
           /\ \A v \in Windows \ {w} : history'[v] = <<>> \/ history'[v] = history[v]
           /\ \A v \in Windows : history'[v] # <<>> => Present(v)'
<1> DEFINE o == Other(w)
           order == Used(w)
           n == Len(order)
           evicts == n > MaxSessions
<1>1. /\ o \in Seq(Windows)
      /\ \A i \in 1..Len(o) : o[i] # w
      /\ \A i, j \in 1..Len(o) : o[i] = o[j] => i = j
      /\ \A v \in Windows \ {w} : Present(v) <=> \E i \in 1..Len(o) : o[i] = v
  BY OtherFacts DEF TypeOK
<1>2. Len(o) \in Nat
  BY <1>1, LenProperties
<1>3. order = Append(o, w)
  BY DEF Used
<1> HIDE DEF o
<1>4. /\ order \in Seq(Windows) /\ n = Len(o) + 1
      /\ \A i \in 1..Len(o) : order[i] = o[i]
      /\ order[n] = w
  BY <1>1, <1>3, AppendProperties
<1> HIDE DEF order
<1>5. \A i, j \in 1..n : order[i] = order[j] => i = j
  BY <1>1, <1>2, <1>4
<1>6. \A v \in Windows : v = w \/ Present(v) => \E i \in 1..n : order[i] = v
  <2> SUFFICES ASSUME NEW v \in Windows, v = w \/ Present(v)
               PROVE  \E i \in 1..n : order[i] = v
    OBVIOUS
  <2>1. CASE v = w
    BY <1>2, <1>4, <2>1
  <2>2. CASE v # w
    <3>1. PICK i \in 1..Len(o) : o[i] = v
      BY <1>1, <2>2
    <3> QED BY <1>2, <1>4, <3>1
  <2> QED BY <2>1, <2>2
<1>7. /\ recency' = IF evicts THEN Tail(order) ELSE order
      /\ history' = [v \in Windows |->
                        IF evicts /\ v = Head(order) THEN <<>>
                        ELSE IF v = w THEN msgs ELSE history[v]]
  BY DEF Write, order
<1>8. \A v \in Windows : v # w /\ history[v] # <<>> => \E i \in 1..n : order[i] = v
  BY <1>6 DEF TypeOK
<1>9. CASE ~evicts
  <2>1. recency' = order /\ DOMAIN order = 1..n
    BY <1>4, <1>7, <1>9, LenProperties
  <2>2. order # <<>>
    BY <1>2, <1>4
  <2>3. \A v \in Windows : history'[v] = IF v = w THEN msgs ELSE history[v]
    BY <1>7, <1>9
  <2>4. history' \in [Windows -> Seq(Messages)]
    BY <1>7, <1>9 DEF TypeOK
  <2>5. \A v \in Windows : history'[v] # <<>> => \E i \in 1..n : order[i] = v
    BY <1>6, <1>8, <2>3
  <2> QED BY <1>4, <1>5, <2>1, <2>2, <2>3, <2>4, <2>5 DEF Present
<1>10. CASE evicts
  <2> DEFINE t == Tail(order)
  <2>1. n > 1 /\ n \in Nat /\ order # <<>>
    BY <1>2, <1>4, <1>10, HistoryAssumption
  <2>2. /\ t \in Seq(Windows) /\ Len(t) = n - 1
        /\ \A i \in 1..(n - 1) : t[i] = order[i + 1]
    BY <1>4, <2>1, HeadTailProperties
  <2>3. Head(order) = order[1]
    BY <1>4, <2>1
  <2> HIDE DEF t
  <2>4. recency' = t /\ DOMAIN t = 1..(n - 1)
    BY <1>7, <1>10, <2>2, LenProperties DEF t
  <2>5. order[1] # w
    BY <1>4, <1>5, <2>1
  <2>6. \A v \in Windows : history'[v] = IF v = order[1] THEN <<>>
                                        ELSE IF v = w THEN msgs ELSE history[v]
    BY <1>7, <1>10, <2>3
  <2>7. history' \in [Windows -> Seq(Messages)]
    BY <1>7, <1>10 DEF TypeOK
  <2>8. \A i, j \in 1..(n - 1) : t[i] = t[j] => i = j
    BY <1>5, <2>1, <2>2
  <2>9. t # <<>> /\ t[Len(t)] = w
    BY <1>4, <2>1, <2>2
  <2>10. ASSUME NEW v \in Windows, history'[v] # <<>>
         PROVE  \E i \in 1..(n - 1) : t[i] = v
    <3>1. v # order[1] /\ (v = w \/ history[v] # <<>>)
      BY <2>6, <2>10
    <3>2. PICK i \in 1..n : order[i] = v
      BY <1>6, <1>8, <3>1
    <3>3. i # 1 /\ i - 1 \in 1..(n - 1) /\ (i - 1) + 1 = i
      BY <2>1, <3>1, <3>2
    <3> QED BY <2>2, <3>2, <3>3
  <2> QED BY <2>2, <2>4, <2>5, <2>6, <2>7, <2>8, <2>9, <2>10 DEF Present
<1> QED BY <1>9, <1>10

\* What a turn adds is the turn; what remains was there.
LEMMA TurnFacts ==
    ASSUME Inv, NEW r \in Requests, request[r].step = "answered", Remembers(r)
    PROVE  /\ TurnWith(r) \in Seq(Messages) /\ Len(TurnWith(r)) > 0
           /\ \A i \in 1..Len(TurnWith(r)) :
                \/ TurnWith(r)[i].of = r
                \/ \E j \in 1..Len(history[request[r].window]) :
                        TurnWith(r)[i] = history[request[r].window][j]
<1> DEFINE h == history[request[r].window]
           s == h \o <<Prompt(r), Reply(r)>>
           max == 2 * request[r].turns
           t == Trim(s, max)
<1>1. request[r].window \in Windows /\ request[r].turns > 0 /\ request[r].turns \in Nat
  BY DEF Inv, HandlerInv, TypeOK, Handlers, Remembers, OfItsGeneration
<1>2. h \in Seq(Messages)
  BY <1>1 DEF Inv, TypeOK
<1>3. /\ <<Prompt(r), Reply(r)>> \in Seq(Messages)
      /\ Len(<<Prompt(r), Reply(r)>>) = 2
      /\ Prompt(r).of = r /\ Reply(r).of = r
  BY DEF Prompt, Reply, Messages
<1>4. Len(h) \in Nat
  BY <1>2, LenProperties
<1> HIDE DEF h
<1>5. /\ s \in Seq(Messages) /\ Len(s) = Len(h) + 2
      /\ \A i \in 1..(Len(h) + 2) : s[i] = IF i <= Len(h) THEN h[i]
                                           ELSE <<Prompt(r), Reply(r)>>[i - Len(h)]
  BY <1>2, <1>3, ConcatProperties
<1>6. \A i \in 1..(Len(h) + 2) : s[i].of = r \/ \E j \in 1..Len(h) : s[i] = h[j]
  BY <1>3, <1>4, <1>5
<1> HIDE DEF s
<1>7. max \in Nat /\ max > 0
  BY <1>1
<1> HIDE DEF max
<1>8. /\ t \in Seq(Messages) /\ Len(t) <= Len(s) /\ Len(t) > 0
      /\ \A i \in 1..Len(t) : t[i] = s[i + (Len(s) - Len(t))]
  BY <1>4, <1>5, <1>7, TrimFacts
<1>9. Len(t) \in Nat
  BY <1>8, LenProperties
<1> HIDE DEF t
<1>10. \A i \in 1..Len(t) : i + (Len(s) - Len(t)) \in 1..(Len(h) + 2)
  BY <1>4, <1>5, <1>8, <1>9
<1>11. \A i \in 1..Len(t) : t[i].of = r \/ \E j \in 1..Len(h) : t[i] = h[j]
  BY <1>6, <1>8, <1>10
<1>12. TurnWith(r) = t
  BY DEF TurnWith, t, s, h, max
<1> QED BY <1>8, <1>11, <1>12 DEF h

\* history_append keeps the invariant: what it writes is of its own generation.
LEMMA HistoryAppendInv ==
    ASSUME Inv, NEW r \in Requests, HistoryAppend(r)
    PROVE  Inv'
<1> DEFINE w == request[r].window
<1>1. /\ request[r] \in Handlers /\ request[r].step = "answered" /\ w \in Windows
      /\ UNCHANGED <<turns, generations, nextGeneration, appending>>
  BY DEF Inv, TypeOK, HandlerInv, HistoryAppend
<1>2. CASE Remembers(r) /\ Ends(r, "remembered") /\ Write(w, TurnWith(r))
  <2> DEFINE q == Ended(request[r], "remembered")
  <2>1. ~request[r].stale /\ ~request[r].half
    BY <1>1, <1>2 DEF Remembers, OfItsGeneration, Inv, HandlerInv
  <2>2. /\ q \in Handlers /\ q.step = "remembered" /\ q.window = w
        /\ q.generation = 0 /\ ~q.stale /\ ~q.half
    BY <1>1, <2>1 DEF Ended, Unused, Handlers, Steps, Kinds
  <2> HIDE DEF q
  <2>3. request' = [request EXCEPT ![r] = q]
    BY <1>2 DEF Ends, q
  <2>4. /\ TurnWith(r) \in Seq(Messages)
        /\ \A i \in 1..Len(TurnWith(r)) :
                \/ TurnWith(r)[i].of = r
                \/ \E j \in 1..Len(history[w]) : TurnWith(r)[i] = history[w][j]
    BY <1>1, <1>2, TurnFacts
  <2>5. /\ recency' \in Seq(Windows)
        /\ \A i, j \in DOMAIN recency' : recency'[i] = recency'[j] => i = j
        /\ history' \in [Windows -> Seq(Messages)]
        /\ history'[w] = TurnWith(r)
        /\ \A v \in Windows \ {w} : history'[v] = <<>> \/ history'[v] = history[v]
        /\ \A v \in Windows : history'[v] # <<>> => Present(v)'
    BY <1>1, <1>2, <2>4, WriteFacts DEF Inv
  <2>6. TypeOK'
    BY <1>1, <2>2, <2>3, <2>5 DEF Inv, TypeOK
  <2>7. HandlerInv'
    BY <1>1, <2>2, <2>3 DEF Inv, TypeOK, HandlerInv
  <2> DEFINE After(p) == /\ request'[p].step = "remembered"
                         /\ ~request'[p].stale /\ ~request'[p].half
  <2>8. /\ After(r)
        /\ \A p \in Requests : Kept(p) => After(p)
    BY <1>1, <2>2, <2>3 DEF Inv, TypeOK, Kept
  <2>9. StoreInv'
    <3> SUFFICES ASSUME NEW v \in Windows, NEW i \in 1..Len(history'[v]),
                        history'[v][i].of # None
                 PROVE  After(history'[v][i].of)
      BY DEF StoreInv, Kept
    <3> HIDE DEF After
    <3>1. CASE v = w
      <4>1. CASE TurnWith(r)[i].of = r
        BY <2>5, <2>8, <3>1, <4>1
      <4>2. CASE \E j \in 1..Len(history[w]) : TurnWith(r)[i] = history[w][j]
        <5>1. PICK j \in 1..Len(history[w]) : TurnWith(r)[i] = history[w][j]
          BY <4>2
        <5>2. history[w][j] \in Messages /\ history[w][j].of # None
          BY <1>1, <2>5, <3>1, <5>1, ElementOfSeq DEF Inv, TypeOK
        <5>3. Kept(history[w][j].of) /\ history[w][j].of \in Requests
          BY <1>1, <5>1, <5>2 DEF Inv, StoreInv, Messages
        <5> QED BY <2>5, <2>8, <3>1, <5>1, <5>3
      <4> QED BY <2>4, <2>5, <3>1, <4>1, <4>2
    <3>2. CASE v # w
      <4>1. history'[v] = history[v]
        BY <2>5, <3>2
      <4>2. history[v][i] \in Messages /\ Kept(history[v][i].of)
        BY <4>1, ElementOfSeq DEF Inv, TypeOK, StoreInv
      <4> QED BY <2>8, <4>1, <4>2 DEF Messages
    <3> QED BY <3>1, <3>2
  <2> QED BY <2>6, <2>7, <2>9 DEF Inv
<1>3. CASE Ends(r, "dropped") /\ UNCHANGED <<history, recency>>
  BY <1>1, <1>3, EndsInv
<1> QED BY <1>2, <1>3 DEF HistoryAppend

\* A commit is a message of no request; what remains was there.
LEMMA MergedFacts ==
    ASSUME NEW h \in Seq(Messages), NEW n \in Nat
    PROVE  /\ Merged(h, n) \in Seq(Messages) /\ Len(Merged(h, n)) > 0
           /\ \A i \in 1..Len(Merged(h, n)) :
                \/ Merged(h, n)[i].of = None
                \/ i <= Len(h) /\ Merged(h, n)[i] = h[i]
<1> DEFINE k == Len(h)
           merges == k > 0 /\ h[k].origin = "Commit" /\ h[k].length + n <= MaxMerge
<1>1. k \in Nat /\ \A m \in Nat : CommitText(m) \in Messages /\ CommitText(m).of = None
  BY LenProperties DEF CommitText, Messages
<1>2. CASE merges
  <2> DEFINE c == CommitText(h[k].length + n)
             t == [h EXCEPT ![k] = c]
  <2>1. k \in 1..Len(h) /\ h[k] \in Messages
    BY <1>1, <1>2, ElementOfSeq
  <2>2. c \in Messages /\ c.of = None
    <3>1. h[k].length + n \in Nat
      BY <2>1 DEF Messages
    <3> QED BY <1>1, <3>1
  <2> HIDE DEF c
  <2>3. /\ t \in Seq(Messages) /\ Len(t) = Len(h)
        /\ \A i \in 1..Len(h) : t[i] = IF i = k THEN c ELSE h[i]
    BY <2>1, <2>2, ExceptSeq
  <2>4. Merged(h, n) = t
    BY <1>2 DEF Merged, c
  <2> HIDE DEF t
  <2> QED BY <1>1, <1>2, <2>2, <2>3, <2>4
<1>3. CASE ~merges
  <2> DEFINE t == Append(h, CommitText(n))
  <2>1. /\ t \in Seq(Messages) /\ Len(t) = k + 1
        /\ \A i \in 1..k : t[i] = h[i]
        /\ t[k + 1] = CommitText(n)
    BY <1>1, AppendProperties
  <2>2. Merged(h, n) = t
    BY <1>3 DEF Merged
  <2> HIDE DEF t
  <2> QED BY <1>1, <2>1, <2>2
<1> QED BY <1>2, <1>3

\* What the window of a commit holds afterwards.
ContextWith ==
    Trim(Merged(history[appending.window], appending.length), 2 * appending.turns)
\* It has messages, well-typed, and names no request that was not named before.
LEMMA ContextFacts ==
    ASSUME TypeOK, appending # None
    PROVE  /\ appending.window \in Windows /\ appending.length \in Nat
           /\ ContextWith \in Seq(Messages) /\ Len(ContextWith) > 0
           /\ \A i \in 1..Len(ContextWith) :
                \/ ContextWith[i].of = None
                \/ \E j \in 1..Len(history[appending.window]) :
                        ContextWith[i] = history[appending.window][j]
<1> DEFINE h == history[appending.window]
           n == appending.length
           s == Merged(h, n)
           max == 2 * appending.turns
           t == Trim(s, max)
<1>1. /\ appending.window \in Windows /\ n \in Nat
      /\ max \in Nat /\ max > 0
  BY DEF TypeOK
<1>2. h \in Seq(Messages)
  BY <1>1 DEF TypeOK
<1> HIDE DEF h, n, max
<1>3. /\ s \in Seq(Messages) /\ Len(s) > 0
      /\ \A i \in 1..Len(s) : s[i].of = None \/ (i <= Len(h) /\ s[i] = h[i])
  <2>1. h \in Seq(Messages) /\ n \in Nat
    BY <1>1, <1>2
  <2> QED BY <2>1, MergedFacts
<1> HIDE DEF s
<1>4. /\ t \in Seq(Messages) /\ Len(t) <= Len(s) /\ Len(t) > 0
      /\ \A i \in 1..Len(t) : t[i] = s[i + (Len(s) - Len(t))]
  BY <1>1, <1>3, TrimFacts
<1>5. Len(t) \in Nat /\ Len(s) \in Nat /\ Len(h) \in Nat
  BY <1>2, <1>3, <1>4, LenProperties
<1> HIDE DEF t
<1>6. \A i \in 1..Len(t) : t[i].of = None \/ \E j \in 1..Len(h) : t[i] = h[j]
  <2> SUFFICES ASSUME NEW i \in 1..Len(t), t[i].of # None
               PROVE  \E j \in 1..Len(h) : t[i] = h[j]
    OBVIOUS
  <2> DEFINE j == i + (Len(s) - Len(t))
  <2>1. j \in 1..Len(s) /\ t[i] = s[j]
    BY <1>4, <1>5
  <2>2. j <= Len(h) /\ s[j] = h[j]
    BY <1>3, <2>1
  <2> QED BY <1>5, <2>1, <2>2
<1>7. ContextWith = t
  BY DEF ContextWith, t, s, h, n, max
<1> QED BY <1>1, <1>4, <1>6, <1>7 DEF h, n

\* The second half of LlmAppendContext keeps the invariant.
LEMMA HistoryAppendContextInv ==
    ASSUME Inv, HistoryAppendContext
    PROVE  Inv'
<1> DEFINE w == appending.window
<1>1. /\ appending # None /\ appending' = None
      /\ UNCHANGED <<turns, generations, nextGeneration, request>>
  BY DEF HistoryAppendContext
<1>2. HandlerInv'
  BY <1>1 DEF Inv, HandlerInv
<1>3. CASE UNCHANGED <<history, recency>>
  <2>1. TypeOK' /\ StoreInv'
    BY <1>1, <1>3 DEF Inv, TypeOK, StoreInv, Present, Kept
  <2> QED BY <1>2, <2>1 DEF Inv
<1>4. CASE Write(w, ContextWith)
  <2>1. /\ w \in Windows /\ ContextWith \in Seq(Messages)
        /\ \A i \in 1..Len(ContextWith) :
                \/ ContextWith[i].of = None
                \/ \E j \in 1..Len(history[w]) : ContextWith[i] = history[w][j]
    BY <1>1, ContextFacts DEF Inv
  <2> HIDE DEF w
  <2>2. /\ recency' \in Seq(Windows)
        /\ \A i, j \in DOMAIN recency' : recency'[i] = recency'[j] => i = j
        /\ history' \in [Windows -> Seq(Messages)]
        /\ history'[w] = ContextWith
        /\ \A v \in Windows \ {w} : history'[v] = <<>> \/ history'[v] = history[v]
        /\ \A v \in Windows : history'[v] # <<>> => Present(v)'
    BY <1>4, <2>1, WriteFacts DEF Inv
  <2>3. TypeOK'
    BY <1>1, <2>2 DEF Inv, TypeOK
  <2>4. StoreInv'
    <3> SUFFICES ASSUME NEW v \in Windows, NEW i \in 1..Len(history'[v]),
                        history'[v][i].of # None
                 PROVE  Kept(history'[v][i].of)
      BY <1>1 DEF StoreInv, Kept
    <3>1. CASE v = w
      BY <2>1, <2>2, <3>1 DEF Inv, StoreInv
    <3>2. CASE v # w
      BY <2>2, <3>2 DEF Inv, StoreInv
    <3> QED BY <3>1, <3>2
  <2> QED BY <1>2, <2>3, <2>4 DEF Inv
<1> QED BY <1>3, <1>4 DEF HistoryAppendContext, ContextWith

\* Marking a window's handlers leaves everything else about them.
LEMMA OutdateFacts ==
    ASSUME Inv, NEW w \in Windows
    PROVE  /\ Outdate(w) \in [Requests -> Handlers]
           /\ \A p \in Requests :
                /\ Outdate(w)[p].step = request[p].step
                /\ Outdate(w)[p].window = request[p].window
                /\ Outdate(w)[p].turns = request[p].turns
                /\ Outdate(w)[p].generation = request[p].generation
                /\ Outdate(w)[p].half = request[p].half
                /\ request[p].window # w \/ request[p].step \notin {"streaming", "answered"}
                    => Outdate(w)[p] = request[p]
<1>1. request \in [Requests -> Handlers]
  BY DEF Inv, TypeOK
<1>2. ASSUME NEW p \in Requests
      PROVE  /\ Outdate(w)[p] \in Handlers
             /\ Outdate(w)[p].step = request[p].step
             /\ Outdate(w)[p].window = request[p].window
             /\ Outdate(w)[p].turns = request[p].turns
             /\ Outdate(w)[p].generation = request[p].generation
             /\ Outdate(w)[p].half = request[p].half
             /\ request[p].window # w \/ request[p].step \notin {"streaming", "answered"}
                 => Outdate(w)[p] = request[p]
  <2>1. request[p] \in Handlers
    BY <1>1
  <2>2. CASE request[p].window = w /\ request[p].step \in {"streaming", "answered"}
    <3>1. Outdate(w)[p] = [request[p] EXCEPT !.stale = TRUE]
      BY <2>2 DEF Outdate
    <3> QED BY <2>1, <2>2, <3>1 DEF Handlers
  <2>3. CASE ~(request[p].window = w /\ request[p].step \in {"streaming", "answered"})
    <3>1. Outdate(w)[p] = request[p]
      BY <2>3 DEF Outdate
    <3> QED BY <2>1, <2>3, <3>1 DEF Handlers
  <2> QED BY <2>2, <2>3
<1>3. Outdate(w) \in [Requests -> Handlers]
  BY <1>2 DEF Outdate
<1> QED BY <1>2, <1>3

\* //new moves the window beyond every generation that a handler holds.
LEMMA HistoryResetInv ==
    ASSUME Inv, NEW r \in Requests, HistoryReset(r)
    PROVE  Inv'
<1> DEFINE w == request[r].window
           next == IF generations[w] # 0 THEN nextGeneration ELSE nextGeneration + 1
           q == Ended(Outdate(w)[r], "dropped")
<1>1. /\ request[r] \in Handlers /\ request[r].step = "prepared" /\ w \in Windows
      /\ UNCHANGED <<turns, appending>>
  BY DEF Inv, TypeOK, HandlerInv, HistoryReset
<1>2. /\ Outdate(w) \in [Requests -> Handlers]
      /\ \A p \in Requests :
            /\ Outdate(w)[p].step = request[p].step
            /\ Outdate(w)[p].window = request[p].window
            /\ Outdate(w)[p].turns = request[p].turns
            /\ Outdate(w)[p].generation = request[p].generation
            /\ Outdate(w)[p].half = request[p].half
            /\ request[p].window # w \/ request[p].step \notin {"streaming", "answered"}
                => Outdate(w)[p] = request[p]
  BY <1>1, OutdateFacts
<1>3. q \in Handlers /\ q.step = "dropped" /\ q.generation = 0
  BY DEF Ended, Unused, Handlers, Steps, Kinds
<1> HIDE DEF q
<1>4. /\ request' = [Outdate(w) EXCEPT ![r] = q]
      /\ history' = [history EXCEPT ![w] = <<>>]
      /\ recency' = Used(w)
  BY DEF HistoryReset, q
<1>5. \A p \in Requests : request'[p] = IF p = r THEN q ELSE Outdate(w)[p]
  BY <1>2, <1>4
<1>6. request' \in [Requests -> Handlers]
  BY <1>2, <1>3, <1>4
<1>7. /\ generations \in [Windows -> Nat] /\ nextGeneration \in Nat \ {0}
      /\ \A v \in Windows : generations[v] < nextGeneration
      /\ \A p \in Requests : request[p].generation \in Nat
  BY DEF Inv, TypeOK, HandlerInv, Handlers
<1>8. \/ /\ generations' = [generations EXCEPT ![w] = next]
         /\ nextGeneration' = next + 1
      \/ /\ EnsuredGeneration(w) = 0
         /\ UNCHANGED <<generations, nextGeneration>>
  BY DEF HistoryReset
<1>9. EnsuredGeneration(w) = 0 => generations[w] = 0
  BY DEF EnsuredGeneration
<1>10. next \in Nat \ {0} /\ next >= nextGeneration
  BY <1>7
<1> HIDE DEF next
<1>11. /\ generations' \in [Windows -> Nat]
       /\ nextGeneration' \in Nat \ {0} /\ nextGeneration' >= nextGeneration
       /\ \A v \in Windows : generations'[v] < nextGeneration'
       /\ \A v \in Windows \ {w} : generations'[v] = generations[v]
       /\ generations'[w] = 0 \/ generations'[w] >= nextGeneration
  BY <1>1, <1>7, <1>8, <1>9, <1>10
<1>12. /\ history' \in [Windows -> Seq(Messages)]
       /\ \A v \in Windows : history'[v] = IF v = w THEN <<>> ELSE history[v]
  BY <1>1, <1>4 DEF Inv, TypeOK
<1>13. /\ recency' \in Seq(Windows)
       /\ \A i, j \in DOMAIN recency' : recency'[i] = recency'[j] => i = j
       /\ \A v \in Windows : history'[v] # <<>> => Present(v)'
  <2> DEFINE o == Other(w)
             order == Used(w)
  <2>1. /\ o \in Seq(Windows)
        /\ \A i \in 1..Len(o) : o[i] # w
        /\ \A i, j \in 1..Len(o) : o[i] = o[j] => i = j
        /\ \A v \in Windows \ {w} : Present(v) <=> \E i \in 1..Len(o) : o[i] = v
    BY <1>1, OtherFacts DEF Inv, TypeOK
  <2>2. Len(o) \in Nat
    BY <2>1, LenProperties
  <2>3. order = Append(o, w)
    BY DEF Used
  <2> HIDE DEF o
  <2>4. /\ order \in Seq(Windows) /\ Len(order) = Len(o) + 1
        /\ \A i \in 1..Len(o) : order[i] = o[i]
        /\ order[Len(o) + 1] = w
    BY <1>1, <2>1, <2>3, AppendProperties
  <2> HIDE DEF order
  <2>5. recency' = order /\ DOMAIN order = 1..(Len(o) + 1)
    BY <1>4, <2>4, LenProperties DEF order
  <2>6. \A i, j \in 1..(Len(o) + 1) : order[i] = order[j] => i = j
    BY <2>1, <2>2, <2>4
  <2>7. ASSUME NEW v \in Windows, history'[v] # <<>>
        PROVE  \E i \in 1..(Len(o) + 1) : order[i] = v
    <3>1. v # w /\ Present(v)
      BY <1>12, <2>7 DEF Inv, TypeOK
    <3>2. PICK i \in 1..Len(o) : o[i] = v
      BY <2>1, <3>1
    <3> QED BY <2>2, <2>4, <3>2
  <2> QED BY <2>4, <2>5, <2>6, <2>7 DEF Present
<1>14. TypeOK'
  BY <1>1, <1>6, <1>11, <1>12, <1>13 DEF Inv, TypeOK
<1>15. HandlerInv'
  <2>1. ASSUME NEW p \in Requests, request'[p].generation # 0
        PROVE  /\ request'[p].turns > 0
               /\ request'[p].generation < nextGeneration'
               /\ request'[p].stale =>
                    generations'[request'[p].window] # request'[p].generation
    <3>1. /\ p # r /\ request'[p] = Outdate(w)[p]
          /\ request[p].generation # 0
      BY <1>2, <1>3, <1>5, <2>1
    <3>2. /\ request[p].turns > 0 /\ request[p].generation < nextGeneration
          /\ request[p].step \in {"streaming", "answered"}
          /\ request[p].window \in Windows
          /\ request[p].stale =>
                generations[request[p].window] # request[p].generation
      BY <3>1 DEF Inv, HandlerInv
    <3>3. CASE request[p].window = w
      <4>1. generations'[w] # request[p].generation
        BY <1>7, <1>11, <3>1, <3>2
      <4> QED BY <1>2, <1>7, <1>11, <3>1, <3>2, <3>3, <4>1
    <3>4. CASE request[p].window # w
      BY <1>2, <1>7, <1>11, <3>1, <3>2, <3>4
    <3> QED BY <3>3, <3>4
  <2>2. ASSUME NEW p \in Requests
        PROVE  /\ request'[p].step \notin {"unused", "dropped"} =>
                    request'[p].window \in Windows
               /\ request'[p].step \notin {"streaming", "answered"} =>
                    request'[p].generation = 0
               /\ request'[p].step \in {"unused", "registered", "prepared"} =>
                    ~request'[p].stale /\ ~request'[p].half
    <3>1. CASE p = r
      BY <1>3, <1>5, <3>1
    <3>2. CASE p # r
      BY <1>2, <1>5, <3>2 DEF Inv, HandlerInv
    <3> QED BY <3>1, <3>2
  <2> QED BY <1>11, <2>1, <2>2 DEF HandlerInv
<1>16. StoreInv'
  <2> SUFFICES ASSUME NEW v \in Windows, NEW i \in 1..Len(history'[v]),
                      history'[v][i].of # None
               PROVE  /\ request'[history'[v][i].of].step = "remembered"
                      /\ ~request'[history'[v][i].of].stale
                      /\ ~request'[history'[v][i].of].half
    BY DEF StoreInv, Kept
  <2>1. v # w /\ history'[v] = history[v]
    BY <1>12
  <2>2. history[v] \in Seq(Messages) /\ history[v][i] \in Messages
    BY <2>1, ElementOfSeq DEF Inv, TypeOK
  <2>3. history[v][i].of \in Requests /\ Kept(history[v][i].of)
    BY <2>1, <2>2 DEF Inv, StoreInv, Messages
  <2> QED BY <1>1, <1>2, <1>5, <2>1, <2>3 DEF Kept
<1> QED BY <1>14, <1>15, <1>16 DEF Inv

\* A closed window has no generation that a late handler could match.
LEMMA HistorySessionEndInv ==
    ASSUME Inv, NEW w \in Windows, HistorySessionEnd(w)
    PROVE  Inv'
<1>1. /\ Outdate(w) \in [Requests -> Handlers]
      /\ \A p \in Requests :
            /\ Outdate(w)[p].step = request[p].step
            /\ Outdate(w)[p].window = request[p].window
            /\ Outdate(w)[p].turns = request[p].turns
            /\ Outdate(w)[p].generation = request[p].generation
            /\ Outdate(w)[p].half = request[p].half
            /\ request[p].window # w \/ request[p].step \notin {"streaming", "answered"}
                => Outdate(w)[p] = request[p]
  BY OutdateFacts
<1>2. /\ history' = [history EXCEPT ![w] = <<>>]
      /\ recency' = Other(w)
      /\ generations' = [generations EXCEPT ![w] = 0]
      /\ request' = Outdate(w)
      /\ UNCHANGED <<turns, nextGeneration, appending>>
  BY DEF HistorySessionEnd
<1>3. /\ generations \in [Windows -> Nat] /\ nextGeneration \in Nat \ {0}
      /\ \A p \in Requests : request[p].generation \in Nat
  BY DEF Inv, TypeOK, Handlers
<1>4. /\ generations' \in [Windows -> Nat]
      /\ \A v \in Windows : generations'[v] = IF v = w THEN 0 ELSE generations[v]
      /\ history' \in [Windows -> Seq(Messages)]
      /\ \A v \in Windows : history'[v] = IF v = w THEN <<>> ELSE history[v]
  BY <1>2 DEF Inv, TypeOK
<1>5. /\ recency' \in Seq(Windows)
      /\ \A i, j \in DOMAIN recency' : recency'[i] = recency'[j] => i = j
      /\ \A v \in Windows : history'[v] # <<>> => Present(v)'
  <2> DEFINE o == Other(w)
  <2>1. /\ o \in Seq(Windows)
        /\ \A i, j \in 1..Len(o) : o[i] = o[j] => i = j
        /\ \A v \in Windows \ {w} : Present(v) <=> \E i \in 1..Len(o) : o[i] = v
    BY OtherFacts DEF Inv, TypeOK
  <2> HIDE DEF o
  <2>2. recency' = o /\ DOMAIN o = 1..Len(o)
    BY <1>2, <2>1, LenProperties DEF o
  <2>3. ASSUME NEW v \in Windows, history'[v] # <<>>
        PROVE  \E i \in 1..Len(o) : o[i] = v
    <3>1. v # w /\ Present(v)
      BY <1>4, <2>3 DEF Inv, TypeOK
    <3> QED BY <2>1, <3>1
  <2> QED BY <2>1, <2>2, <2>3 DEF Present
<1>6. TypeOK'
  BY <1>1, <1>2, <1>4, <1>5 DEF Inv, TypeOK
<1>7. HandlerInv'
  <2>1. ASSUME NEW p \in Requests, request'[p].generation # 0
        PROVE  /\ request'[p].turns > 0
               /\ request'[p].generation < nextGeneration'
               /\ request'[p].stale =>
                    generations'[request'[p].window] # request'[p].generation
    <3>1. /\ request[p].generation # 0 /\ request[p].turns > 0
          /\ request[p].generation < nextGeneration
          /\ request[p].step \in {"streaming", "answered"}
          /\ request[p].window \in Windows
          /\ request[p].stale =>
                generations[request[p].window] # request[p].generation
      BY <1>1, <1>2, <2>1 DEF Inv, HandlerInv
    <3>2. CASE request[p].window = w
      BY <1>1, <1>2, <1>4, <3>1, <3>2
    <3>3. CASE request[p].window # w
      BY <1>1, <1>2, <1>4, <3>1, <3>3
    <3> QED BY <3>2, <3>3
  <2>2. ASSUME NEW p \in Requests
        PROVE  /\ request'[p].step \notin {"unused", "dropped"} =>
                    request'[p].window \in Windows
               /\ request'[p].step \notin {"streaming", "answered"} =>
                    request'[p].generation = 0
               /\ request'[p].step \in {"unused", "registered", "prepared"} =>
                    ~request'[p].stale /\ ~request'[p].half
    BY <1>1, <1>2 DEF Inv, HandlerInv
  <2>3. \A v \in Windows : generations'[v] < nextGeneration'
    BY <1>2, <1>3, <1>4 DEF Inv, HandlerInv
  <2> QED BY <2>1, <2>2, <2>3 DEF HandlerInv
<1>8. StoreInv'
  <2> SUFFICES ASSUME NEW v \in Windows, NEW i \in 1..Len(history'[v]),
                      history'[v][i].of # None
               PROVE  /\ request'[history'[v][i].of].step = "remembered"
                      /\ ~request'[history'[v][i].of].stale
                      /\ ~request'[history'[v][i].of].half
    BY DEF StoreInv, Kept
  <2>1. v # w /\ history'[v] = history[v]
    BY <1>4
  <2>2. history[v] \in Seq(Messages) /\ history[v][i] \in Messages
    BY <2>1, ElementOfSeq DEF Inv, TypeOK
  <2>3. history[v][i].of \in Requests /\ Kept(history[v][i].of)
    BY <2>1, <2>2 DEF Inv, StoreInv, Messages
  <2> QED BY <1>1, <1>2, <2>1, <2>3 DEF Kept
<1> QED BY <1>6, <1>7, <1>8 DEF Inv

\* The daemon starts with an empty store and no handler.
LEMMA RestartInv ==
    ASSUME Inv, Restart
    PROVE  Inv'
<1>1. ASSUME NEW p \in Requests
      PROVE  /\ Ended(request[p], "dropped") \in Handlers
             /\ Ended(request[p], "dropped").step = "dropped"
             /\ Ended(request[p], "dropped").generation = 0
  BY DEF Ended, Unused, Handlers, Steps, Kinds
<1>2. \A p \in Requests :
        \/ request'[p] = Ended(request[p], "dropped")
        \/ request'[p] = request[p] /\ ~Running(p)
  BY DEF Restart
<1>3. request' \in [Requests -> Handlers]
  BY <1>1 DEF Restart, Inv, TypeOK
<1>4. /\ \A w \in Windows : history'[w] = <<>> /\ Len(history'[w]) = 0
      /\ history' \in [Windows -> Seq(Messages)]
      /\ recency' = <<>> /\ generations' = [w \in Windows |-> 0]
      /\ nextGeneration' = 1 /\ appending' = None /\ turns' = turns
  BY DEF Restart
<1>5. <<>> \in Seq(Windows) /\ DOMAIN <<>> = {}
  OBVIOUS
<1>6. TypeOK'
  BY <1>3, <1>4, <1>5 DEF Inv, TypeOK
<1>7. ASSUME NEW p \in Requests
      PROVE  /\ request'[p].generation = 0
             /\ request'[p].step \notin {"unused", "dropped"} =>
                    request'[p].window \in Windows
             /\ request'[p].step \in {"unused", "registered", "prepared"} =>
                    ~request'[p].stale /\ ~request'[p].half
  <2>1. CASE request'[p] = Ended(request[p], "dropped")
    BY <1>1, <2>1
  <2>2. CASE request'[p] = request[p] /\ ~Running(p)
    BY <2>2 DEF Inv, HandlerInv, Running
  <2> QED BY <1>2, <2>1, <2>2
<1>8. HandlerInv'
  BY <1>4, <1>7 DEF HandlerInv
<1>9. StoreInv'
  BY <1>4 DEF StoreInv
<1> QED BY <1>6, <1>8, <1>9 DEF Inv

\* Steps that touch neither the store, the generations nor a handler.
LEMMA QuietInv ==
    ASSUME Inv, UNCHANGED <<history, recency, generations, nextGeneration, request>>,
           turns' \in Nat,
           appending' \in [window : Windows, length : Nat, turns : Nat \ {0}] \cup {None}
    PROVE  Inv'
BY DEF Inv, TypeOK, HandlerInv, StoreInv, Present, Kept

\* The first half of LlmAppendContext keeps the invariant.
LEMMA AppendContextInv ==
    ASSUME Inv, NEW w \in Windows, NEW n \in CommitLengths, AppendContext(w, n)
    PROVE  Inv'
<1>1. (IF n > MaxSingle THEN MaxSingle ELSE n) \in Nat /\ turns \in Nat \ {0}
  BY HistoryAssumption DEF AppendContext, Inv, TypeOK
<1> QED BY <1>1, QuietInv DEF AppendContext

\* Every step of the store keeps the invariant.
LEMMA NextInv == Inv /\ [Next]_vars => Inv'
<1> SUFFICES ASSUME Inv, [Next]_vars PROVE Inv'
  OBVIOUS
<1>1. ASSUME NEW r \in Requests, Generate(r) PROVE Inv'
  <2>1. ASSUME NEW w \in Windows, NEW kind \in Kinds, Register(r, w, kind) PROVE Inv'
    BY <2>1, RegisterInv
  <2>2. CASE OkFails(r)
    BY <2>2, EndsInv DEF OkFails
  <2>3. CASE ReadConfig(r)
    BY <2>3, ReadConfigInv
  <2>4. CASE HistoryReset(r)
    BY <2>4, HistoryResetInv
  <2>5. CASE Snapshot(r)
    BY <2>5, SnapshotInv
  <2>6. CASE StreamFails(r)
    BY <2>6, EndsInv DEF StreamFails
  <2>7. CASE Cancel(r)
    BY <2>7, CancelInv
  <2>8. CASE SeeCancel(r)
    BY <2>8, SeeCancelInv
  <2>9. CASE StreamEnds(r)
    BY <2>9, StreamEndsInv
  <2>10. CASE HistoryAppend(r)
    BY <2>10, HistoryAppendInv
  <2> QED BY <1>1, <2>1, <2>2, <2>3, <2>4, <2>5, <2>6, <2>7, <2>8, <2>9, <2>10 DEF Generate
<1>2. ASSUME NEW w \in Windows, NEW n \in CommitLengths, AppendContext(w, n) PROVE Inv'
  BY <1>2, AppendContextInv
<1>3. CASE HistoryAppendContext
  BY <1>3, HistoryAppendContextInv
<1>4. ASSUME NEW w \in Windows, HistorySessionEnd(w) PROVE Inv'
  BY <1>4, HistorySessionEndInv
<1>5. ASSUME NEW t \in Turns, SetConfig(t) PROVE Inv'
  BY <1>5, QuietInv, HistoryAssumption DEF SetConfig, Inv, TypeOK
<1>6. CASE Restart
  BY <1>6, RestartInv
<1>7. CASE UNCHANGED vars
  BY <1>7, QuietInv DEF vars, Inv, TypeOK
<1> QED BY <1>1, <1>2, <1>3, <1>4, <1>5, <1>6, <1>7 DEF Next

\* The invariant holds in every state of every behaviour.
THEOREM StoreInvariant == Spec => []Inv
<1>1. Init => Inv
  BY InitInv
<1>2. Inv /\ [Next]_vars => Inv'
  BY NextInv
<1> QED BY <1>1, <1>2, PTL DEF Spec

\* The store and the handlers keep their types, and the order of use lists
\* every window with messages exactly once.
THEOREM StoreTyped == Spec => []TypeOK
<1>1. Inv => TypeOK
  BY DEF Inv
<1> QED BY <1>1, StoreInvariant, PTL

\* No turn of a request that was under way when its window was cleared or
\* closed is in a history, for any number of windows, requests and limits.
THEOREM NothingResurrected == Spec => []NoResurrection
<1>1. Inv => NoResurrection
  BY DEF Inv, StoreInv, Kept, NoResurrection
<1> QED BY <1>1, StoreInvariant, PTL

\* No cancelled stream's text is in a history.
THEOREM AnswersAreComplete == Spec => []AnswersComplete
<1>1. Inv => AnswersComplete
  BY DEF Inv, StoreInv, Kept, AnswersComplete
<1> QED BY <1>1, StoreInvariant, PTL

(***************************************************************************)
(* Eviction.                                                               *)
(***************************************************************************)
\* What is written is there afterwards: eviction never takes the writer.
THEOREM WriterIsSpared == Spec => EvictionSparesWriter
<1>1. ASSUME Inv, NEW r \in Requests, HistoryAppend(r), Remembers(r)
      PROVE  Written(request[r].window)
  <2>1. /\ request[r].step = "answered" /\ request[r].window \in Windows
        /\ Write(request[r].window, TurnWith(r))
    BY <1>1 DEF HistoryAppend, Inv, HandlerInv
  <2>2. TurnWith(r) \in Seq(Messages) /\ Len(TurnWith(r)) > 0
    BY <1>1, <2>1, TurnFacts
  <2>3. /\ recency'[Len(recency')] = request[r].window
        /\ history'[request[r].window] = TurnWith(r)
    BY <1>1, <2>1, <2>2, WriteFacts DEF Inv
  <2>4. TurnWith(r) # <<>>
    BY <2>2
  <2> QED BY <2>3, <2>4 DEF Written
<1>2. ASSUME Inv, HistoryAppendContext, appending.length > 0
      PROVE  Written(appending.window)
  <2>1. appending # None
    BY <1>2 DEF HistoryAppendContext
  <2>2. /\ appending.window \in Windows /\ appending.length \in Nat
        /\ ContextWith \in Seq(Messages) /\ Len(ContextWith) > 0
    BY <1>2, <2>1, ContextFacts DEF Inv
  <2>3. Write(appending.window, ContextWith)
    BY <1>2, <2>2 DEF HistoryAppendContext, ContextWith
  <2>4. /\ recency'[Len(recency')] = appending.window
        /\ history'[appending.window] = ContextWith
    BY <1>2, <2>2, <2>3, WriteFacts DEF Inv
  <2>5. ContextWith # <<>>
    BY <2>2
  <2> QED BY <2>4, <2>5 DEF Written
<1>3. Inv /\ [Next]_vars =>
        [/\ \A r \in Requests :
                HistoryAppend(r) /\ Remembers(r) => Written(request[r].window)
         /\ HistoryAppendContext /\ appending.length > 0
                => Written(appending.window)]_vars
  BY <1>1, <1>2
<1> QED BY <1>3, StoreInvariant, PTL DEF Spec, EvictionSparesWriter

(***************************************************************************)
(* Turns stay whole.                                                       *)
(***************************************************************************)
Pairs(msgs) == PromptKeepsReply(msgs) /\ ReplyKeepsPrompt(msgs)

\* Cutting off the oldest messages tears at most the first reply's prompt away.
LEMMA TrimPairs ==
    ASSUME NEW s \in Seq(Messages), NEW max \in Nat, Pairs(s)
    PROVE  Pairs(Trim(s, max))
<1> DEFINE t == Trim(s, max)
           k == Len(s) - Len(t)
<1>1. /\ t \in Seq(Messages) /\ Len(t) <= Len(s)
      /\ \A i \in 1..Len(t) : t[i] = s[i + k]
  BY TrimFacts
<1>2. Len(t) \in Nat /\ Len(s) \in Nat
  BY <1>1, LenProperties
<1> HIDE DEF t
<1>3. PromptKeepsReply(t)
  <2> SUFFICES ASSUME NEW i \in 1..Len(t), t[i].origin = "Prompt"
               PROVE  i < Len(t) /\ t[i + 1] = Reply(t[i].of)
    BY DEF PromptKeepsReply
  <2>1. i + k \in 1..Len(s) /\ s[i + k].origin = "Prompt"
    BY <1>1, <1>2
  <2>2. i + k < Len(s) /\ s[(i + k) + 1] = Reply(s[i + k].of)
    BY <2>1 DEF Pairs, PromptKeepsReply
  <2>3. i + 1 \in 1..Len(t) /\ (i + 1) + k = (i + k) + 1
    BY <1>2, <2>2
  <2> QED BY <1>1, <1>2, <2>2, <2>3
<1>4. ReplyKeepsPrompt(t)
  <2> SUFFICES ASSUME NEW i \in 2..Len(t), t[i].origin = "Reply"
               PROVE  t[i - 1] = Prompt(t[i].of)
    BY DEF ReplyKeepsPrompt
  <2>1. i + k \in 2..Len(s) /\ s[i + k] = t[i]
    BY <1>1, <1>2
  <2>2. s[(i + k) - 1] = Prompt(t[i].of)
    BY <2>1 DEF Pairs, ReplyKeepsPrompt
  <2>3. i - 1 \in 1..Len(t) /\ (i - 1) + k = (i + k) - 1
    BY <1>2
  <2> QED BY <1>1, <2>2, <2>3
<1> QED BY <1>3, <1>4 DEF Pairs, t

\* A turn is added as a pair.
LEMMA TurnPairs ==
    ASSUME NEW h \in Seq(Messages), NEW r \in Requests, Pairs(h)
    PROVE  Pairs(h \o <<Prompt(r), Reply(r)>>)
<1> DEFINE s == h \o <<Prompt(r), Reply(r)>>
           n == Len(h)
<1>1. <<Prompt(r), Reply(r)>> \in Seq(Messages) /\ Len(<<Prompt(r), Reply(r)>>) = 2
  BY DEF Prompt, Reply, Messages
<1>2. n \in Nat
  BY LenProperties
<1>3. /\ Len(s) = n + 2
      /\ \A i \in 1..(n + 2) : s[i] = IF i <= n THEN h[i]
                                      ELSE <<Prompt(r), Reply(r)>>[i - n]
  BY <1>1, ConcatProperties
<1> HIDE DEF s
<1>4. s[n + 1] = Prompt(r) /\ s[n + 2] = Reply(r) /\ \A i \in 1..n : s[i] = h[i]
  BY <1>2, <1>3
<1>5. /\ Prompt(r).origin = "Prompt" /\ Prompt(r).of = r
      /\ Reply(r).origin = "Reply" /\ Reply(r).of = r
  BY DEF Prompt, Reply
<1>6. PromptKeepsReply(s)
  <2> SUFFICES ASSUME NEW i \in 1..(n + 2), s[i].origin = "Prompt"
               PROVE  i < n + 2 /\ s[i + 1] = Reply(s[i].of)
    BY <1>3 DEF PromptKeepsReply
  <2>1. CASE i <= n
    <3>1. i < n /\ h[i + 1] = Reply(h[i].of)
      BY <1>2, <1>4, <2>1 DEF Pairs, PromptKeepsReply
    <3> QED BY <1>2, <1>4, <2>1, <3>1
  <2>2. CASE i = n + 1
    BY <1>2, <1>4, <1>5, <2>2
  <2>3. CASE i = n + 2
    BY <1>2, <1>4, <1>5, <2>3
  <2> QED BY <1>2, <2>1, <2>2, <2>3
<1>7. ReplyKeepsPrompt(s)
  <2> SUFFICES ASSUME NEW i \in 2..(n + 2), s[i].origin = "Reply"
               PROVE  s[i - 1] = Prompt(s[i].of)
    BY <1>3 DEF ReplyKeepsPrompt
  <2>1. CASE i <= n
    <3>1. h[i - 1] = Prompt(h[i].of)
      BY <1>2, <1>4, <2>1 DEF Pairs, ReplyKeepsPrompt
    <3> QED BY <1>2, <1>4, <2>1, <3>1
  <2>2. CASE i = n + 1
    BY <1>2, <1>4, <1>5, <2>2
  <2>3. CASE i = n + 2
    BY <1>2, <1>4, <1>5, <2>3
  <2> QED BY <1>2, <2>1, <2>2, <2>3
<1> QED BY <1>6, <1>7 DEF Pairs, s

\* A commit comes after a whole turn, or grows the commit at the end.
LEMMA MergedPairs ==
    ASSUME NEW h \in Seq(Messages), NEW n \in Nat, Pairs(h)
    PROVE  Pairs(Merged(h, n))
<1> DEFINE k == Len(h)
           merges == k > 0 /\ h[k].origin = "Commit" /\ h[k].length + n <= MaxMerge
           t == Merged(h, n)
<1>1. k \in Nat /\ \A m : CommitText(m).origin = "Commit"
  BY LenProperties DEF CommitText
<1>2. PICK j \in Nat :
        /\ j <= k /\ Len(t) = j + 1 /\ t[j + 1].origin = "Commit"
        /\ j < k => j + 1 = k /\ h[k].origin = "Commit"
        /\ \A i \in 1..j : t[i] = h[i]
  <2>1. CASE merges
    <3> DEFINE c == CommitText(h[k].length + n)
    <3>1. k \in 1..Len(h) /\ h[k] \in Messages
      BY <1>1, <2>1, ElementOfSeq
    <3>2. h[k].length + n \in Nat
      BY <3>1 DEF Messages
    <3>3. c \in Messages /\ c.origin = "Commit"
      BY <3>2 DEF CommitText, Messages
    <3> HIDE DEF c
    <3>4. /\ Len([h EXCEPT ![k] = c]) = k
          /\ \A i \in 1..k : [h EXCEPT ![k] = c][i] = IF i = k THEN c ELSE h[i]
      BY <3>1, <3>3, ExceptSeq
    <3>5. t = [h EXCEPT ![k] = c]
      BY <2>1 DEF Merged, c
    <3> HIDE DEF t
    <3>6. /\ k - 1 \in Nat /\ k - 1 <= k /\ Len(t) = (k - 1) + 1
          /\ t[(k - 1) + 1].origin = "Commit"
          /\ \A i \in 1..(k - 1) : t[i] = h[i]
      BY <1>1, <3>1, <3>3, <3>4, <3>5
    <3>7. (k - 1) + 1 = k /\ h[k].origin = "Commit"
      BY <1>1, <2>1
    <3> DEFINE m == k - 1
    <3>8. /\ m \in Nat /\ m <= k /\ Len(t) = m + 1 /\ t[m + 1].origin = "Commit"
          /\ m < k => m + 1 = k /\ h[k].origin = "Commit"
          /\ \A i \in 1..m : t[i] = h[i]
      BY <3>6, <3>7
    <3> HIDE DEF m
    <3> QED BY <3>8
  <2>2. CASE ~merges
    <3>1. CommitText(n) \in Messages
      BY DEF CommitText, Messages
    <3>2. /\ Len(Append(h, CommitText(n))) = k + 1
          /\ \A i \in 1..k : Append(h, CommitText(n))[i] = h[i]
          /\ Append(h, CommitText(n))[k + 1] = CommitText(n)
      BY <3>1, AppendProperties
    <3>3. t = Append(h, CommitText(n))
      BY <2>2 DEF Merged
    <3> HIDE DEF t
    <3> QED BY <1>1, <3>2, <3>3
  <2> QED BY <2>1, <2>2
<1> HIDE DEF t
<1>3. PromptKeepsReply(t)
  <2> SUFFICES ASSUME NEW i \in 1..(j + 1), t[i].origin = "Prompt"
               PROVE  i < j + 1 /\ t[i + 1] = Reply(t[i].of)
    BY <1>2 DEF PromptKeepsReply
  <2>1. i \in 1..j /\ i \in 1..k
    BY <1>1, <1>2
  <2>2. i < k /\ h[i + 1] = Reply(h[i].of)
    BY <1>2, <2>1 DEF Pairs, PromptKeepsReply
  <2>3. h[i + 1].origin = "Reply"
    BY <2>2 DEF Reply
  <2>4. i + 1 # j + 1
    BY <1>1, <1>2, <2>1, <2>2, <2>3
  <2> QED BY <1>1, <1>2, <2>1, <2>2, <2>4
<1>4. ReplyKeepsPrompt(t)
  <2> SUFFICES ASSUME NEW i \in 2..(j + 1), t[i].origin = "Reply"
               PROVE  t[i - 1] = Prompt(t[i].of)
    BY <1>2 DEF ReplyKeepsPrompt
  <2>1. i \in 2..j /\ i \in 2..k
    BY <1>1, <1>2
  <2>2. h[i - 1] = Prompt(h[i].of)
    BY <1>2, <2>1 DEF Pairs, ReplyKeepsPrompt
  <2> QED BY <1>2, <2>1, <2>2
<1> QED BY <1>3, <1>4 DEF Pairs, t

\* Of two commits in a row the second is there because it did not fit.
Apart(msgs) ==
    \A i \in 1..(Len(msgs) - 1) :
        msgs[i].origin = "Commit" /\ msgs[i + 1].origin = "Commit"
            => msgs[i].length + msgs[i + 1].length > MaxMerge

LEMMA TrimApart ==
    ASSUME NEW s \in Seq(Messages), NEW max \in Nat, Apart(s)
    PROVE  Apart(Trim(s, max))
<1> DEFINE t == Trim(s, max)
           k == Len(s) - Len(t)
<1>1. /\ t \in Seq(Messages) /\ Len(t) <= Len(s)
      /\ \A i \in 1..Len(t) : t[i] = s[i + k]
  BY TrimFacts
<1>2. Len(t) \in Nat /\ Len(s) \in Nat
  BY <1>1, LenProperties
<1> HIDE DEF t
<1>3. ASSUME NEW i \in 1..(Len(t) - 1),
             t[i].origin = "Commit", t[i + 1].origin = "Commit"
      PROVE  t[i].length + t[i + 1].length > MaxMerge
  <2>1. i \in 1..Len(t) /\ i + 1 \in 1..Len(t)
    BY <1>2
  <2>2. /\ t[i] = s[i + k] /\ t[i + 1] = s[(i + k) + 1]
        /\ i + k \in 1..(Len(s) - 1)
    BY <1>1, <1>2, <2>1
  <2> QED BY <1>3, <2>2 DEF Apart
<1> QED BY <1>3 DEF Apart, t

\* A turn is no commit.
LEMMA TurnApart ==
    ASSUME NEW h \in Seq(Messages), NEW r \in Requests, Apart(h)
    PROVE  Apart(h \o <<Prompt(r), Reply(r)>>)
<1> DEFINE s == h \o <<Prompt(r), Reply(r)>>
           n == Len(h)
<1>1. <<Prompt(r), Reply(r)>> \in Seq(Messages) /\ Len(<<Prompt(r), Reply(r)>>) = 2
  BY DEF Prompt, Reply, Messages
<1>2. n \in Nat
  BY LenProperties
<1>3. /\ Len(s) = n + 2
      /\ \A i \in 1..(n + 2) : s[i] = IF i <= n THEN h[i]
                                      ELSE <<Prompt(r), Reply(r)>>[i - n]
  BY <1>1, ConcatProperties
<1> HIDE DEF s
<1>4. /\ s[n + 1].origin = "Prompt" /\ s[n + 2].origin = "Reply"
      /\ \A i \in 1..n : s[i] = h[i]
  BY <1>2, <1>3 DEF Prompt, Reply
<1>5. ASSUME NEW i \in 1..(Len(s) - 1),
             s[i].origin = "Commit", s[i + 1].origin = "Commit"
      PROVE  s[i].length + s[i + 1].length > MaxMerge
  <2>1. i # n + 1 /\ i + 1 # n + 1
    BY <1>4, <1>5
  <2>2. i \in 1..(n - 1)
    BY <1>2, <1>3, <2>1
  <2> QED BY <1>2, <1>4, <1>5, <2>2 DEF Apart
<1> QED BY <1>5 DEF Apart, s

\* A commit grows the one at the end if it fits, and so do not fit before it.
LEMMA MergedApart ==
    ASSUME NEW h \in Seq(Messages), NEW n \in Nat, Apart(h)
    PROVE  Apart(Merged(h, n))
<1> DEFINE k == Len(h)
           t == Merged(h, n)
<1>1. k \in Nat /\ \A i \in 1..k : h[i] \in Messages /\ h[i].length \in Nat
  <2>1. k \in Nat
    BY LenProperties
  <2>2. \A i \in 1..k : h[i] \in Messages
    BY ElementOfSeq
  <2> QED BY <2>1, <2>2 DEF Messages
<1>2. CASE k > 0 /\ h[k].origin = "Commit" /\ h[k].length + n <= MaxMerge
  <2> DEFINE c == CommitText(h[k].length + n)
  <2>1. k \in 1..Len(h) /\ h[k].length + n \in Nat
    BY <1>1, <1>2
  <2>2. c \in Messages /\ c.length = h[k].length + n
    BY <2>1 DEF CommitText, Messages
  <2> HIDE DEF c
  <2>3. /\ Len([h EXCEPT ![k] = c]) = k
        /\ \A i \in 1..k : [h EXCEPT ![k] = c][i] = IF i = k THEN c ELSE h[i]
    BY <2>1, <2>2, ExceptSeq
  <2>4. t = [h EXCEPT ![k] = c]
    BY <1>2 DEF Merged, c
  <2> HIDE DEF t
  <2>5. Len(t) = k /\ \A i \in 1..k : t[i] = IF i = k THEN c ELSE h[i]
    BY <2>3, <2>4
  <2>6. ASSUME NEW i \in 1..(Len(t) - 1),
               t[i].origin = "Commit", t[i + 1].origin = "Commit"
        PROVE  t[i].length + t[i + 1].length > MaxMerge
    <3>1. t[i] = h[i] /\ i \in 1..(k - 1) /\ i + 1 \in 1..k
      BY <1>1, <2>5
    <3>2. CASE i + 1 = k
      <4>1. h[i].length + h[k].length > MaxMerge
        BY <1>2, <2>6, <3>1, <3>2 DEF Apart
      <4>2. t[i + 1].length = h[k].length + n
        BY <2>2, <2>5, <3>1, <3>2
      <4>3. h[i].length \in Nat /\ h[k].length \in Nat
        BY <1>1, <2>1, <3>1
      <4> QED BY <3>1, <4>1, <4>2, <4>3, HistoryAssumption
    <3>3. CASE i + 1 # k
      BY <1>1, <2>5, <2>6, <3>1, <3>3 DEF Apart
    <3> QED BY <3>2, <3>3
  <2> QED BY <2>6 DEF Apart, t
<1>3. CASE ~(k > 0 /\ h[k].origin = "Commit" /\ h[k].length + n <= MaxMerge)
  <2>1. CommitText(n) \in Messages /\ CommitText(n).length = n
    BY DEF CommitText, Messages
  <2>2. /\ Len(Append(h, CommitText(n))) = k + 1
        /\ \A i \in 1..k : Append(h, CommitText(n))[i] = h[i]
        /\ Append(h, CommitText(n))[k + 1] = CommitText(n)
    BY <2>1, AppendProperties
  <2>3. t = Append(h, CommitText(n))
    BY <1>3 DEF Merged
  <2> HIDE DEF t
  <2>4. /\ Len(t) = k + 1 /\ t[k + 1].length = n
        /\ \A i \in 1..k : t[i] = h[i]
    BY <2>1, <2>2, <2>3
  <2>5. ASSUME NEW i \in 1..(Len(t) - 1),
               t[i].origin = "Commit", t[i + 1].origin = "Commit"
        PROVE  t[i].length + t[i + 1].length > MaxMerge
    <3>1. i \in 1..k /\ t[i] = h[i]
      BY <1>1, <2>4
    <3>2. CASE i = k
      <4>1. ~(h[k].length + n <= MaxMerge)
        BY <1>3, <2>5, <3>1, <3>2, <1>1
      <4>2. h[k].length \in Nat
        BY <1>1, <3>1, <3>2
      <4> QED BY <2>4, <3>1, <3>2, <4>1, <4>2, HistoryAssumption
    <3>3. CASE i # k
      BY <1>1, <2>4, <2>5, <3>1, <3>3 DEF Apart
    <3> QED BY <3>2, <3>3
  <2> QED BY <2>5 DEF Apart, t
<1> QED BY <1>2, <1>3

\* What a history may be: whole turns, merged commits.
Conversation(msgs) == Pairs(msgs) /\ Apart(msgs)

\* No turn is torn and no commit left unmerged, whatever overlaps in a window.
THEOREM ContextStaysWellFormed == Spec => []ContextWellFormed
<1>1. Init => ContextWellFormed
  <2> SUFFICES ASSUME Init, NEW w \in Windows PROVE Conversation(history[w])
    BY DEF ContextWellFormed, TurnsWhole, CommitsMerged, Conversation,
           Pairs, Apart
  <2>1. history[w] = <<>> /\ Len(<<>>) = 0
    BY DEF Init
  <2> QED BY <2>1 DEF Conversation, Pairs, Apart, PromptKeepsReply, ReplyKeepsPrompt
<1>2. ASSUME Inv, ContextWellFormed, [Next]_vars
      PROVE  ContextWellFormed'
  <2> SUFFICES ASSUME NEW v \in Windows PROVE Conversation(history'[v])
    BY DEF ContextWellFormed, TurnsWhole, CommitsMerged, Conversation,
           Pairs, Apart
  <2>1. /\ \A w \in Windows : Conversation(history[w])
        /\ Conversation(<<>>)
        /\ history \in [Windows -> Seq(Messages)]
    <3>1. Len(<<>>) = 0
      OBVIOUS
    <3> QED BY <1>2, <3>1
            DEF ContextWellFormed, TurnsWhole, CommitsMerged, Conversation,
                Pairs, Apart, PromptKeepsReply, ReplyKeepsPrompt, Inv, TypeOK
  <2>2. ASSUME NEW r \in Requests, HistoryAppend(r)
        PROVE  Conversation(history'[v])
    <3> DEFINE w == request[r].window
               h == history[w]
               s == h \o <<Prompt(r), Reply(r)>>
    <3>1. CASE Remembers(r) /\ Write(w, TurnWith(r))
      <4>1. /\ request[r].step = "answered" /\ w \in Windows
            /\ request[r].turns \in Nat
        BY <1>2, <2>2 DEF HistoryAppend, Inv, HandlerInv, TypeOK, Handlers
      <4>2. TurnWith(r) \in Seq(Messages)
        BY <1>2, <3>1, <4>1, TurnFacts
      <4>3. /\ history'[w] = TurnWith(r)
            /\ v # w => history'[v] = <<>> \/ history'[v] = history[v]
        BY <1>2, <3>1, <4>1, <4>2, WriteFacts DEF Inv
      <4>4. h \in Seq(Messages) /\ Conversation(h)
        BY <1>2, <2>1, <4>1
      <4>5. s \in Seq(Messages)
        <5>1. <<Prompt(r), Reply(r)>> \in Seq(Messages)
          BY DEF Prompt, Reply, Messages
        <5> QED BY <4>4, <5>1, ConcatProperties
      <4>6. Conversation(s)
        BY <4>4, TurnPairs, TurnApart DEF Conversation
      <4>7. Conversation(Trim(s, 2 * request[r].turns))
        <5> HIDE DEF s
        <5>1. 2 * request[r].turns \in Nat
          BY <4>1
        <5> QED BY <4>5, <4>6, <5>1, TrimPairs, TrimApart DEF Conversation
      <4>8. Conversation(TurnWith(r))
        BY <4>7 DEF TurnWith
      <4> QED BY <2>1, <4>3, <4>8
    <3>2. CASE UNCHANGED history
      BY <2>1, <3>2
    <3> QED BY <2>2, <3>1, <3>2 DEF HistoryAppend
  <2>3. CASE HistoryAppendContext
    <3> DEFINE w == appending.window
    <3>1. CASE Write(w, ContextWith)
      <4>1. appending # None
        BY <2>3 DEF HistoryAppendContext
      <4>2. /\ w \in Windows /\ appending.length \in Nat /\ appending.turns \in Nat
            /\ ContextWith \in Seq(Messages)
        BY <1>2, <4>1, ContextFacts DEF Inv, TypeOK
      <4>3. /\ history'[w] = ContextWith
            /\ v # w => history'[v] = <<>> \/ history'[v] = history[v]
        BY <1>2, <3>1, <4>2, WriteFacts DEF Inv
      <4>4. history[w] \in Seq(Messages) /\ Conversation(history[w])
        BY <1>2, <2>1, <4>2
      <4>5. Conversation(Merged(history[w], appending.length))
        BY <4>2, <4>4, MergedPairs, MergedApart DEF Conversation
      <4>6. Merged(history[w], appending.length) \in Seq(Messages)
        BY <4>2, <4>4, MergedFacts
      <4>7. 2 * appending.turns \in Nat
        BY <4>2
      <4>8. Conversation(ContextWith)
        BY <4>5, <4>6, <4>7, TrimPairs, TrimApart DEF Conversation, ContextWith
      <4> QED BY <2>1, <4>3, <4>8
    <3>2. CASE UNCHANGED history
      BY <2>1, <3>2
    <3> QED BY <2>3, <3>1, <3>2 DEF HistoryAppendContext, ContextWith
  <2>4. ASSUME NEW w, history' = [history EXCEPT ![w] = <<>>]
        PROVE  Conversation(history'[v])
    <3>1. history'[v] = <<>> \/ history'[v] = history[v]
      BY <2>1, <2>4
    <3> QED BY <2>1, <3>1
  <2>5. ASSUME NEW r \in Requests, Generate(r)
        PROVE  Conversation(history'[v])
    <3>1. CASE HistoryReset(r)
      <4>1. history' = [history EXCEPT ![request[r].window] = <<>>]
        BY <3>1 DEF HistoryReset
      <4> QED BY <2>4, <4>1
    <3>2. CASE HistoryAppend(r)
      BY <2>2, <3>2
    <3>3. CASE UNCHANGED history
      BY <2>1, <3>3
    <3> QED BY <2>5, <3>1, <3>2, <3>3
            DEF Generate, Register, OkFails, ReadConfig, Snapshot, StreamFails, Cancel,
                SeeCancel, StreamEnds
  <2>6. ASSUME NEW w \in Windows, HistorySessionEnd(w)
        PROVE  Conversation(history'[v])
    BY <2>4, <2>6 DEF HistorySessionEnd
  <2>7. CASE Restart
    BY <2>1, <2>7 DEF Restart
  <2>8. CASE UNCHANGED history
    BY <2>1, <2>8
  <2> QED BY <1>2, <2>3, <2>5, <2>6, <2>7, <2>8 DEF Next, AppendContext, SetConfig, vars
<1> QED BY <1>1, <1>2, StoreInvariant, PTL DEF Spec

\* A prompt is followed by its own reply, however requests, commits and trims
\* of its window interleave.
THEOREM TurnsStayWhole == Spec => []TurnsWhole
<1>1. ContextWellFormed => TurnsWhole
  BY DEF ContextWellFormed
<1> QED BY <1>1, ContextStaysWellFormed, PTL

\* Commits in a row are merged as far as the limit lets them.
THEOREM CommitsStayMerged == Spec => []CommitsMerged
<1>1. ContextWellFormed => CommitsMerged
  BY DEF ContextWellFormed
<1> QED BY <1>1, ContextStaysWellFormed, PTL

-----------------------------------------------------------------------------
(***************************************************************************)
(* The configuration and the key: what a request's task may hold.          *)
(***************************************************************************)
StepSet == {"none", "apply", "clone", "save", "write", "read", "keyring", "memory",
            "config", "key", "call", "answered"}

TaskSet == [kind : RequestKinds \cup {"none"}, at : StepSet,
            arg : Changes \cup {Nothing, Keyed}, saw : Configs \cup {Nothing},
            whole : BOOLEAN, how : {"none", "ok", "error", "lost"}]

\* A task of a daemon that is up or not, which saw a configuration of h, or a
\* mixture.
Fits(t, running, h) ==
    /\ t \in TaskSet
    /\ t.at = "none" => t.kind = "none"
    /\ t.at \in {"none", "answered"} \/ running
    /\ t.kind = "set_config" /\ t.at # "answered" =>
          t.at \in {"apply", "clone", "save", "write"} /\ t.arg \in Changes
    /\ t.kind = "api_key_set" /\ t.at # "answered" =>
          t.at \in {"keyring", "memory"} /\ t.arg \in {Nothing, Keyed}
    /\ t.at \in {"save", "write", "key", "call"} =>
          t.saw \in Configs /\ (t.whole => t.saw \in h)

StoresTypes ==
    /\ up \in BOOLEAN /\ calm \in BOOLEAN
    /\ config \in Configs /\ file \in Configs \cup {Absent, Empty, Torn}
    /\ key \in {Nothing, Keyed} /\ keyring \in {Nothing, Keyed}
    /\ ocr_history \in Seq(Slots) /\ Len(ocr_history) <= HistoryMax
    /\ held \subseteq Configs /\ mixed \subseteq {"memory", "file"}
    /\ DOMAIN tasks = Slots
    /\ tasks = [n \in Slots |-> tasks[n]]
    /\ \A n \in Slots : Fits(tasks[n], up, held)

\* Where no mixture is, there is a configuration the daemon held.
Held ==
    up => /\ "memory" \notin mixed => config \in held
          /\ "file" \notin mixed /\ file \in Configs => file \in held

Alters(t, kind) == t.kind = kind /\ t.at # "answered"

\* Nothing was rejected, left unsaved or overlapped: one request at a time
\* changes each store, and what has not reached the file or the memory yet
\* is in its hands.
InHand ==
    up /\ calm =>
        /\ \A kind \in {"set_config", "api_key_set"} : \A n, m \in Slots :
              Alters(tasks[n], kind) /\ Alters(tasks[m], kind) => n = m
        /\ file \in Configs /\ file # config =>
              \E n \in Slots : Alters(tasks[n], "set_config") /\ tasks[n].at # "apply"
        /\ \A n \in Slots :
              Alters(tasks[n], "set_config") /\ tasks[n].at \in {"save", "write"}
                  => tasks[n].saw = config
        /\ key # keyring =>
              \E n \in Slots : Alters(tasks[n], "api_key_set") /\ tasks[n].at = "memory"
        /\ \A n \in Slots :
              Alters(tasks[n], "api_key_set") /\ tasks[n].at = "memory"
                  => tasks[n].arg = keyring

\* A mixture takes a rejection, a failed save or an overlap: until then a
\* save writes into the file it has emptied.
Pure ==
    calm => /\ mixed = {}
            /\ \A n \in Slots :
                  /\ tasks[n].whole
                  /\ Alters(tasks[n], "set_config") /\ tasks[n].at = "write" => file = Empty

StoresInv == StoresTypes /\ Held /\ InHand /\ Pure

(***************************************************************************)
(* One task's step.                                                        *)
(***************************************************************************)
LEMMA Moves ==
    ASSUME NEW n \in Slots, tasks = [m \in Slots |-> tasks[m]], tasks[n] \in TaskSet
    PROVE  /\ \A at \in StepSet : MovesOn(n, at) =>
                 \E t \in TaskSet :
                    /\ tasks' = [tasks EXCEPT ![n] = t]
                    /\ t.kind = tasks[n].kind /\ t.at = at
                    /\ t.arg = tasks[n].arg /\ t.saw = tasks[n].saw
                    /\ t.whole = tasks[n].whole
           /\ \A at \in StepSet : config \in Configs /\ Reads(n, at) =>
                 \E t \in TaskSet :
                    /\ tasks' = [tasks EXCEPT ![n] = t]
                    /\ t.kind = tasks[n].kind /\ t.at = at
                    /\ t.arg = tasks[n].arg /\ t.saw = config
                    /\ t.whole = ("memory" \notin mixed)
           /\ \A how \in {"ok", "error"} : Answers(n, how) =>
                 \E t \in TaskSet :
                    /\ tasks' = [tasks EXCEPT ![n] = t]
                    /\ t.kind = tasks[n].kind /\ t.at = "answered" /\ t.whole
<1>1. ASSUME NEW at \in StepSet, MovesOn(n, at)
      PROVE  \E t \in TaskSet :
                    /\ tasks' = [tasks EXCEPT ![n] = t]
                    /\ t.kind = tasks[n].kind /\ t.at = at
                    /\ t.arg = tasks[n].arg /\ t.saw = tasks[n].saw
                    /\ t.whole = tasks[n].whole
  <2> DEFINE t == [tasks[n] EXCEPT !.at = at]
  <2>1. tasks' = [tasks EXCEPT ![n] = t]
    BY <1>1 DEF MovesOn
  <2>2. t \in TaskSet /\ t.kind = tasks[n].kind /\ t.at = at
        /\ t.arg = tasks[n].arg /\ t.saw = tasks[n].saw /\ t.whole = tasks[n].whole
    BY DEF TaskSet
  <2> QED  BY <2>1, <2>2
<1>2. ASSUME NEW at \in StepSet, config \in Configs, Reads(n, at)
      PROVE  \E t \in TaskSet :
                    /\ tasks' = [tasks EXCEPT ![n] = t]
                    /\ t.kind = tasks[n].kind /\ t.at = at
                    /\ t.arg = tasks[n].arg /\ t.saw = config
                    /\ t.whole = ("memory" \notin mixed)
  <2> DEFINE t == [[[tasks[n] EXCEPT !.at = at] EXCEPT !.saw = config]
                      EXCEPT !.whole = "memory" \notin mixed]
  <2>1. tasks' = [tasks EXCEPT ![n] = t]
    BY <1>2 DEF Reads
  <2>2. t \in TaskSet /\ t.kind = tasks[n].kind /\ t.at = at
        /\ t.arg = tasks[n].arg /\ t.saw = config /\ t.whole = ("memory" \notin mixed)
    BY <1>2 DEF TaskSet
  <2> QED  BY <2>1, <2>2
<1>3. ASSUME NEW how \in {"ok", "error"}, Answers(n, how)
      PROVE  \E t \in TaskSet :
                    /\ tasks' = [tasks EXCEPT ![n] = t]
                    /\ t.kind = tasks[n].kind /\ t.at = "answered" /\ t.whole
  <2> DEFINE t == [Idle EXCEPT !.kind = tasks[n].kind, !.at = "answered", !.how = how]
  <2>1. tasks' = [tasks EXCEPT ![n] = t]
    BY <1>3 DEF Answers
  <2>2. t \in TaskSet /\ t.kind = tasks[n].kind /\ t.at = "answered" /\ t.whole
    BY DEF TaskSet, Idle, StepSet
  <2> QED  BY <2>1, <2>2
<1> QED  BY <1>1, <1>2, <1>3

\* One task changes and the daemon stays up.
LEMMA TaskChanges ==
    ASSUME StoresTypes, NEW n \in Slots, NEW t, tasks' = [tasks EXCEPT ![n] = t],
           Fits(t, up, held'), held \subseteq held', up' = up
    PROVE  /\ DOMAIN tasks' = Slots /\ tasks' = [m \in Slots |-> tasks'[m]]
           /\ \A m \in Slots : tasks'[m] = IF m = n THEN t ELSE tasks[m]
           /\ \A m \in Slots : Fits(tasks'[m], up', held')
<1>1. /\ DOMAIN tasks' = Slots /\ tasks' = [m \in Slots |-> tasks'[m]]
      /\ \A m \in Slots : tasks'[m] = IF m = n THEN t ELSE tasks[m]
  BY DEF StoresTypes
<1>2. ASSUME NEW m \in Slots PROVE Fits(tasks'[m], up', held')
  <2>1. CASE m = n
    BY <1>1, <2>1
  <2>2. CASE m # n
    <3>1. tasks'[m] = tasks[m] /\ Fits(tasks[m], up, held)
      BY <1>1, <2>2 DEF StoresTypes
    <3> QED  BY <3>1 DEF Fits
  <2> QED  BY <2>1, <2>2
<1> QED  BY <1>1, <1>2

(***************************************************************************)
(* The readers: they leave the stores alone.                               *)
(***************************************************************************)
LEMMA ReaderKeeps ==
    ASSUME StoresInv, NEW n \in Slots, NEW t, tasks' = [tasks EXCEPT ![n] = t],
           t.kind = tasks[n].kind, tasks[n].kind \notin {"set_config", "api_key_set"},
           Fits(t, up, held), calm => t.whole, UNCHANGED <<up, storeVars>>,
           ocr_history' \in Seq(Slots) /\ Len(ocr_history') <= HistoryMax
    PROVE  StoresInv'
<1>1. UNCHANGED <<up, config, file, key, keyring, held, mixed, calm>>
  BY DEF storeVars
<1>2. /\ DOMAIN tasks' = Slots /\ tasks' = [m \in Slots |-> tasks'[m]]
      /\ \A m \in Slots : tasks'[m] = IF m = n THEN t ELSE tasks[m]
      /\ \A m \in Slots : Fits(tasks'[m], up', held')
  BY <1>1, TaskChanges DEF StoresInv
<1>3. StoresTypes'
  BY <1>1, <1>2 DEF StoresInv, StoresTypes
<1>4. Held'
  BY <1>1 DEF StoresInv, Held
<1>5. \A m \in Slots, kind \in {"set_config", "api_key_set"} :
          /\ Alters(tasks'[m], kind) <=> Alters(tasks[m], kind)
          /\ Alters(tasks[m], kind) => tasks'[m] = tasks[m]
  BY <1>2 DEF Alters
<1>6. InHand'
  <2> SUFFICES ASSUME up, calm
               PROVE  /\ \A kind \in {"set_config", "api_key_set"} : \A k, m \in Slots :
                            Alters(tasks'[k], kind) /\ Alters(tasks'[m], kind) => k = m
                      /\ file \in Configs /\ file # config =>
                            \E k \in Slots : Alters(tasks'[k], "set_config") /\ tasks'[k].at # "apply"
                      /\ \A k \in Slots :
                            Alters(tasks'[k], "set_config") /\ tasks'[k].at \in {"save", "write"}
                                => tasks'[k].saw = config
                      /\ key # keyring =>
                            \E k \in Slots : Alters(tasks'[k], "api_key_set") /\ tasks'[k].at = "memory"
                      /\ \A k \in Slots :
                            Alters(tasks'[k], "api_key_set") /\ tasks'[k].at = "memory"
                                => tasks'[k].arg = keyring
    BY <1>1 DEF InHand
  <2> QED  BY <1>5 DEF StoresInv, InHand
<1>7. Pure'
  BY <1>1, <1>2, <1>5 DEF StoresInv, Pure
<1> QED  BY <1>3, <1>4, <1>6, <1>7 DEF StoresInv

LEMMA ReadersKeep ==
    ASSUME StoresInv, NEW n \in Slots,
           GetConfig(n) \/ ReadSettings(n) \/ ReadKey(n) \/ Speak(n) \/ Recognize(n)
    PROVE  StoresInv'
<1>1. /\ Fits(tasks[n], up, held) /\ tasks[n] \in TaskSet /\ tasks = [m \in Slots |-> tasks[m]]
      /\ config \in Configs
  BY DEF StoresInv, StoresTypes, Fits
<1>2. ASSUME NEW how \in {"ok", "error"}, Answers(n, how), UNCHANGED <<up, storeVars>>,
             tasks[n].kind \notin {"set_config", "api_key_set"},
             ocr_history' \in Seq(Slots) /\ Len(ocr_history') <= HistoryMax
      PROVE  StoresInv'
  <2>1. PICK t \in TaskSet : /\ tasks' = [tasks EXCEPT ![n] = t]
                             /\ t.kind = tasks[n].kind /\ t.at = "answered" /\ t.whole
    BY <1>1, <1>2, Moves
  <2>2. Fits(t, up, held)
    BY <2>1 DEF Fits
  <2> QED  BY <1>2, <2>1, <2>2, ReaderKeeps
<1>3. ocr_history \in Seq(Slots) /\ Len(ocr_history) <= HistoryMax
  BY DEF StoresInv, StoresTypes
<1>4. CASE GetConfig(n)
  BY <1>2, <1>3, <1>4 DEF GetConfig, At
<1>5. CASE ReadSettings(n)
  <2>1. PICK kind \in {"ocr", "speech"} :
            /\ At(n, kind, "config")
            /\ Reads(n, IF kind = "ocr" THEN "call" ELSE "key")
            /\ UNCHANGED <<up, storeVars, ocr_history, crashes>>
    BY <1>5 DEF ReadSettings
  <2> DEFINE at == IF kind = "ocr" THEN "call" ELSE "key"
  <2>2. at \in {"call", "key"} /\ at \in StepSet
    BY DEF StepSet
  <2> HIDE DEF at
  <2>3. PICK t \in TaskSet : /\ tasks' = [tasks EXCEPT ![n] = t]
                             /\ t.kind = tasks[n].kind /\ t.at = at
                             /\ t.arg = tasks[n].arg /\ t.saw = config
                             /\ t.whole = ("memory" \notin mixed)
    BY <1>1, <2>1, <2>2, Moves DEF at
  <2>4. /\ up /\ tasks[n].kind = kind /\ (calm => t.whole)
        /\ config \in Configs /\ (t.whole => config \in held)
    BY <1>1, <2>1, <2>3 DEF At, StoresInv, Held, Pure
  <2>5. Fits(t, up, held)
    BY <2>2, <2>3, <2>4 DEF Fits
  <2> QED  BY <1>3, <2>1, <2>3, <2>4, <2>5, ReaderKeeps
<1>6. CASE ReadKey(n)
  <2>1. /\ up /\ tasks[n].kind = "speech" /\ tasks[n].at = "key"
        /\ MovesOn(n, "call") \/ Answers(n, "error")
        /\ UNCHANGED <<up, storeVars, ocr_history, crashes>>
    BY <1>6 DEF ReadKey, At
  <2>2. CASE MovesOn(n, "call")
    <3>1. PICK t \in TaskSet : /\ tasks' = [tasks EXCEPT ![n] = t]
                               /\ t.kind = tasks[n].kind /\ t.at = "call"
                               /\ t.arg = tasks[n].arg /\ t.saw = tasks[n].saw
                               /\ t.whole = tasks[n].whole
      BY <1>1, <2>2, Moves DEF StepSet
    <3>2. Fits(t, up, held) /\ (calm => t.whole)
      BY <1>1, <2>1, <3>1 DEF Fits, StoresInv, Pure
    <3> QED  BY <1>3, <2>1, <3>1, <3>2, ReaderKeeps
  <2> QED  BY <1>2, <1>3, <2>1, <2>2
<1>7. CASE Speak(n)
  <2>1. PICK how \in {"ok", "error"} : Answers(n, how)
    BY <1>7 DEF Speak
  <2> QED  BY <1>2, <1>3, <1>7, <2>1 DEF Speak, At
<1>8. CASE Recognize(n)
  <2> DEFINE h == <<n>> \o ocr_history
             k == IF Len(ocr_history) < HistoryMax THEN Len(ocr_history) + 1 ELSE HistoryMax
  <2>1. h \in Seq(Slots) /\ Len(h) = Len(ocr_history) + 1 /\ Len(ocr_history) \in Nat
    <3>1. <<n>> \in Seq(Slots) /\ Len(<<n>>) = 1
      OBVIOUS
    <3> QED  BY <1>3, <3>1, ConcatProperties, LenProperties
  <2>2. k \in 1..HistoryMax /\ k <= Len(h)
    BY <1>3, <2>1, StoresAssumption
  <2>3. SubSeq(h, 1, k) \in Seq(Slots) /\ Len(SubSeq(h, 1, k)) = k
    <3> HIDE DEF h, k
    <3>1. 1 \in Int /\ k \in Int /\ \A i \in 1..k : h[i] \in Slots
      BY <2>1, <2>2, ElementOfSeq
    <3>2. k \in 1..Len(h) /\ 1 \in 1..Len(h) + 1 /\ k <= Len(h)
      BY <2>1, <2>2, StoresAssumption
    <3> QED  BY <2>1, <3>1, <3>2, SubSeqProperties
  <2>4. Len(SubSeq(h, 1, k)) <= HistoryMax
    BY <2>2, <2>3
  <2> QED  BY <1>2, <1>3, <1>8, <2>3, <2>4 DEF Recognize, At
<1> QED  BY <1>4, <1>5, <1>6, <1>7, <1>8

(***************************************************************************)
(* The writers of the configuration.                                       *)
(***************************************************************************)
\* A request that alters one store moves on: the other store's requests are
\* where they were, and nobody else alters this one.
LEMMA Alone ==
    ASSUME StoresInv, NEW n \in Slots, NEW t, tasks' = [tasks EXCEPT ![n] = t],
           NEW kind \in {"set_config", "api_key_set"},
           NEW other \in {"set_config", "api_key_set"}, other # kind,
           tasks[n].kind = kind, tasks[n].at # "answered", t.kind = kind,
           up, calm
    PROVE  /\ \A m \in Slots : tasks'[m] = IF m = n THEN t ELSE tasks[m]
           /\ \A m \in Slots : Alters(tasks'[m], kind) => m = n
           /\ \A m \in Slots :
                /\ Alters(tasks'[m], other) <=> Alters(tasks[m], other)
                /\ Alters(tasks[m], other) => tasks'[m] = tasks[m]
<1>1. \A m \in Slots : tasks'[m] = IF m = n THEN t ELSE tasks[m]
  BY DEF StoresInv, StoresTypes
<1>2. \A m \in Slots : Alters(tasks[m], kind) => m = n
  BY DEF StoresInv, InHand, Alters
<1> QED  BY <1>1, <1>2 DEF Alters

LEMMA ConfigKeeps ==
    ASSUME StoresInv, NEW n \in Slots,
           Apply(n) \/ Clone(n) \/ Truncate(n) \/ SaveFails(n) \/ WriteFile(n)
    PROVE  StoresInv'
<1>1. /\ Fits(tasks[n], up, held) /\ tasks[n] \in TaskSet /\ tasks = [m \in Slots |-> tasks[m]]
      /\ config \in Configs
  BY DEF StoresInv, StoresTypes, Fits
<1>2. /\ up /\ tasks[n].kind = "set_config" /\ tasks[n].at # "answered"
      /\ tasks[n].at \in {"apply", "clone", "save", "write"} /\ tasks[n].arg \in Changes
      /\ ("memory" \notin mixed => config \in held) /\ (calm => tasks[n].whole)
  BY <1>1 DEF Apply, Clone, Truncate, SaveFails, WriteFile, At, Fits, StoresInv, Held, Pure
<1>3. CASE Apply(n)
  <2> DEFINE change == tasks[n].arg
             good == {f \in DOMAIN change : change[f] # Bad}
  <2>1. /\ tasks[n].at = "apply" /\ Holds
        /\ UNCHANGED <<up, file, key, keyring, ocr_history, crashes>>
        /\ \/ /\ good = DOMAIN change /\ config' = With(change, good)
              /\ MovesOn(n, "clone") /\ UNCHANGED <<calm, mixed>>
           \/ /\ \E S \in SUBSET good : config' = With(change, S)
              /\ Marks("memory", config' # config \/ "memory" \in mixed)
              /\ Answers(n, "error") /\ calm' = FALSE
    BY <1>3 DEF Apply, At
  <2>2. \A S \in SUBSET good : With(change, S) \in Configs
    <3> SUFFICES ASSUME NEW S \in SUBSET good, NEW f \in Fields
                 PROVE  (IF f \in S THEN change[f] ELSE config[f]) \in Values
      BY DEF With, Configs
    <3>1. PICK D \in SUBSET Fields \ {{}} : change \in [D -> Values \cup {Bad}]
      BY <1>2 DEF Changes
    <3> QED  BY <1>1, <3>1 DEF Configs
  <2>3. /\ config' \in Configs /\ ("memory" \notin mixed' => config' \in held')
        /\ held \subseteq held' /\ held' \subseteq held \cup {config'}
        /\ mixed' \subseteq {"memory", "file"} /\ ("file" \in mixed' <=> "file" \in mixed)
    BY <2>1, <2>2 DEF Holds, Marks, StoresInv, StoresTypes
  <2>4. Held'
    BY <2>1, <2>3 DEF StoresInv, Held
  <2> HIDE DEF change, good
  <2>5. CASE MovesOn(n, "clone") /\ UNCHANGED <<calm, mixed>>
    <3>1. PICK t \in TaskSet : /\ tasks' = [tasks EXCEPT ![n] = t]
                               /\ t.kind = tasks[n].kind /\ t.at = "clone"
                               /\ t.arg = tasks[n].arg /\ t.saw = tasks[n].saw
                               /\ t.whole = tasks[n].whole
      BY <1>1, <2>5, Moves DEF StepSet
    <3>2. Fits(t, up, held')
      BY <1>2, <3>1 DEF Fits
    <3>3. StoresTypes'
      BY <2>1, <2>3, <2>5, <3>1, <3>2, TaskChanges DEF StoresInv, StoresTypes
    <3>4. InHand'
      <4> SUFFICES ASSUME calm PROVE InHand'
        BY <2>5 DEF InHand
      <4>1. /\ \A m \in Slots : tasks'[m] = IF m = n THEN t ELSE tasks[m]
            /\ \A m \in Slots : Alters(tasks'[m], "set_config") => m = n
            /\ \A m \in Slots :
                  /\ Alters(tasks'[m], "api_key_set") <=> Alters(tasks[m], "api_key_set")
                  /\ Alters(tasks[m], "api_key_set") => tasks'[m] = tasks[m]
        <5>1. /\ tasks' = [tasks EXCEPT ![n] = t] /\ t.kind = "set_config"
              /\ tasks[n].kind = "set_config" /\ tasks[n].at # "answered" /\ up /\ calm
          BY <1>2, <3>1
        <5> QED  BY <5>1, Alone
      <4>2. Alters(tasks'[n], "set_config") /\ tasks'[n].at = "clone"
        BY <1>2, <3>1, <4>1 DEF Alters
      <4> QED  BY <1>2, <2>1, <4>1, <4>2 DEF StoresInv, InHand
    <3>5. \A m \in Slots : tasks'[m] = IF m = n THEN t ELSE tasks[m]
      BY <3>1 DEF StoresInv, StoresTypes
    <3>6. Pure'
      BY <1>2, <2>1, <2>5, <3>1, <3>5 DEF StoresInv, Pure, Alters
    <3> QED  BY <2>4, <3>3, <3>4, <3>6 DEF StoresInv
  <2>6. CASE Answers(n, "error") /\ calm' = FALSE
    <3>1. PICK t \in TaskSet : /\ tasks' = [tasks EXCEPT ![n] = t]
                               /\ t.kind = tasks[n].kind /\ t.at = "answered" /\ t.whole
      BY <1>1, <2>6, Moves
    <3>2. Fits(t, up, held')
      BY <1>2, <3>1 DEF Fits
    <3>3. StoresTypes'
      BY <2>1, <2>3, <2>6, <3>1, <3>2, TaskChanges DEF StoresInv, StoresTypes
    <3> QED  BY <2>4, <2>6, <3>3 DEF StoresInv, InHand, Pure
  <2> QED  BY <2>1, <2>5, <2>6
<1>4. CASE Clone(n)
  <2>1. /\ tasks[n].at = "clone" /\ Reads(n, "save")
        /\ UNCHANGED <<up, config, file, key, keyring, held, mixed, calm, ocr_history>>
    BY <1>4 DEF Clone, At, storeVars
  <2>2. PICK t \in TaskSet : /\ tasks' = [tasks EXCEPT ![n] = t]
                             /\ t.kind = tasks[n].kind /\ t.at = "save"
                             /\ t.arg = tasks[n].arg /\ t.saw = config
                             /\ t.whole = ("memory" \notin mixed)
    BY <1>1, <2>1, Moves DEF StepSet
  <2>3. Fits(t, up, held')
    BY <1>1, <1>2, <2>1, <2>2 DEF Fits
  <2>4. StoresTypes'
    BY <2>1, <2>2, <2>3, TaskChanges DEF StoresInv, StoresTypes
  <2>5. Held'
    BY <2>1 DEF StoresInv, Held
  <2>6. InHand'
    <3> SUFFICES ASSUME calm PROVE InHand'
      BY <2>1 DEF InHand
    <3>1. /\ \A m \in Slots : tasks'[m] = IF m = n THEN t ELSE tasks[m]
          /\ \A m \in Slots : Alters(tasks'[m], "set_config") => m = n
          /\ \A m \in Slots :
                /\ Alters(tasks'[m], "api_key_set") <=> Alters(tasks[m], "api_key_set")
                /\ Alters(tasks[m], "api_key_set") => tasks'[m] = tasks[m]
      <4>1. /\ tasks' = [tasks EXCEPT ![n] = t] /\ t.kind = "set_config"
            /\ tasks[n].kind = "set_config" /\ tasks[n].at # "answered" /\ up /\ calm
        BY <1>2, <2>2
      <4> QED  BY <4>1, Alone
    <3>2. Alters(tasks'[n], "set_config") /\ tasks'[n].at = "save" /\ tasks'[n].saw = config'
      BY <1>2, <2>1, <2>2, <3>1 DEF Alters
    <3> QED  BY <1>2, <2>1, <3>1, <3>2 DEF StoresInv, InHand
  <2>7. \A m \in Slots : tasks'[m] = IF m = n THEN t ELSE tasks[m]
    BY <2>2 DEF StoresInv, StoresTypes
  <2>8. Pure'
    BY <2>1, <2>2, <2>7 DEF StoresInv, Pure, Alters
  <2> QED  BY <2>4, <2>5, <2>6, <2>8 DEF StoresInv
<1>5. CASE Truncate(n)
  <2>1. /\ tasks[n].at = "save" /\ file' = Empty /\ Marks("file", FALSE) /\ MovesOn(n, "write")
        /\ UNCHANGED <<up, config, key, keyring, held, calm, ocr_history>>
    BY <1>5 DEF Truncate, At
  <2>2. PICK t \in TaskSet : /\ tasks' = [tasks EXCEPT ![n] = t]
                             /\ t.kind = tasks[n].kind /\ t.at = "write"
                             /\ t.arg = tasks[n].arg /\ t.saw = tasks[n].saw
                             /\ t.whole = tasks[n].whole
    BY <1>1, <2>1, Moves DEF StepSet
  <2>3. Fits(t, up, held')
    BY <1>1, <1>2, <2>1, <2>2 DEF Fits
  <2>4. StoresTypes'
    BY <2>1, <2>2, <2>3, TaskChanges DEF StoresInv, StoresTypes, Marks
  <2>5. Held' /\ file' \notin Configs /\ mixed' = mixed \ {"file"}
    BY <2>1, StoresAssumption DEF StoresInv, Held, Configs, Marks
  <2>6. InHand'
    <3> SUFFICES ASSUME calm PROVE InHand'
      BY <2>1 DEF InHand
    <3>1. /\ \A m \in Slots : tasks'[m] = IF m = n THEN t ELSE tasks[m]
          /\ \A m \in Slots : Alters(tasks'[m], "set_config") => m = n
          /\ \A m \in Slots :
                /\ Alters(tasks'[m], "api_key_set") <=> Alters(tasks[m], "api_key_set")
                /\ Alters(tasks[m], "api_key_set") => tasks'[m] = tasks[m]
      <4>1. /\ tasks' = [tasks EXCEPT ![n] = t] /\ t.kind = "set_config"
            /\ tasks[n].kind = "set_config" /\ tasks[n].at # "answered" /\ up /\ calm
        BY <1>2, <2>2
      <4> QED  BY <4>1, Alone
    <3>2. tasks[n].saw = config
      BY <1>2, <2>1 DEF StoresInv, InHand, Alters
    <3>3. tasks'[n].saw = config'
      BY <2>1, <2>2, <3>1, <3>2
    <3> QED  BY <1>2, <2>1, <2>5, <3>1, <3>3 DEF StoresInv, InHand
  <2>7. \A m \in Slots : tasks'[m] = IF m = n THEN t ELSE tasks[m]
    BY <2>2 DEF StoresInv, StoresTypes
  <2>8. Pure'
    BY <2>1, <2>2, <2>5, <2>7 DEF StoresInv, Pure, Alters
  <2> QED  BY <2>4, <2>5, <2>6, <2>8 DEF StoresInv
<1>6. CASE SaveFails(n)
  <2>1. /\ Answers(n, "ok") /\ calm' = FALSE
        /\ Garbles \/ UNCHANGED <<file, mixed>>
        /\ UNCHANGED <<up, config, key, keyring, held, ocr_history>>
    BY <1>6 DEF SaveFails
  <2>2. PICK t \in TaskSet : /\ tasks' = [tasks EXCEPT ![n] = t]
                             /\ t.kind = tasks[n].kind /\ t.at = "answered" /\ t.whole
    BY <1>1, <2>1, Moves
  <2>3. Fits(t, up, held')
    BY <2>2 DEF Fits
  <2>4. StoresTypes'
    BY <2>1, <2>2, <2>3, TaskChanges DEF StoresInv, StoresTypes, Garbles, Marks
  <2>5. Held'
    BY <2>1 DEF StoresInv, Held, Garbles, Marks
  <2> QED  BY <2>1, <2>4, <2>5 DEF StoresInv, InHand, Pure
<1>7. CASE WriteFile(n)
  <2>1. /\ tasks[n].at = "write" /\ Answers(n, "ok")
        /\ \/ file' = tasks[n].saw /\ Marks("file", ~tasks[n].whole)
           \/ file # Empty /\ Garbles
        /\ UNCHANGED <<up, config, key, keyring, held, calm, ocr_history>>
    BY <1>7 DEF WriteFile, At
  <2>2. PICK t \in TaskSet : /\ tasks' = [tasks EXCEPT ![n] = t]
                             /\ t.kind = tasks[n].kind /\ t.at = "answered" /\ t.whole
    BY <1>1, <2>1, Moves
  <2>3. Fits(t, up, held')
    BY <2>2 DEF Fits
  <2>4. tasks[n].saw \in Configs /\ (tasks[n].whole => tasks[n].saw \in held)
    BY <1>1, <2>1 DEF Fits
  <2>5. StoresTypes'
    <3>1. file' \in Configs \cup {Absent, Torn} /\ mixed' \subseteq {"memory", "file"}
      BY <2>1, <2>4 DEF StoresInv, StoresTypes, Garbles, Marks
    <3> QED  BY <2>1, <2>2, <2>3, <3>1, TaskChanges DEF StoresInv, StoresTypes
  <2>6. Held'
    BY <2>1, <2>4 DEF StoresInv, Held, Garbles, Marks
  <2>7. InHand'
    <3> SUFFICES ASSUME calm PROVE InHand'
      BY <2>1 DEF InHand
    <3>1. /\ \A m \in Slots : tasks'[m] = IF m = n THEN t ELSE tasks[m]
          /\ \A m \in Slots : Alters(tasks'[m], "set_config") => m = n
          /\ \A m \in Slots :
                /\ Alters(tasks'[m], "api_key_set") <=> Alters(tasks[m], "api_key_set")
                /\ Alters(tasks[m], "api_key_set") => tasks'[m] = tasks[m]
      <4>1. /\ tasks' = [tasks EXCEPT ![n] = t] /\ t.kind = "set_config"
            /\ tasks[n].kind = "set_config" /\ tasks[n].at # "answered" /\ up /\ calm
        BY <1>2, <2>2
      <4> QED  BY <4>1, Alone
    <3>2. tasks[n].saw = config
      BY <1>2, <2>1 DEF StoresInv, InHand, Alters
    <3>3. ~Alters(tasks'[n], "set_config") /\ file' = config'
      BY <1>2, <2>1, <2>2, <3>1, <3>2 DEF StoresInv, Pure, Alters
    <3> QED  BY <1>2, <2>1, <3>1, <3>3 DEF StoresInv, InHand
  <2>8. Pure'
    <3> SUFFICES ASSUME calm PROVE Pure'
      BY <2>1 DEF Pure
    <3>1. file = Empty /\ tasks[n].whole /\ mixed = {}
      BY <1>2, <2>1 DEF StoresInv, Pure, Alters
    <3>2. mixed' = {}
      BY <2>1, <3>1 DEF Marks
    <3>3. /\ \A m \in Slots : tasks'[m] = IF m = n THEN t ELSE tasks[m]
          /\ \A m \in Slots : ~Alters(tasks'[m], "set_config")
      <4>1. \A m \in Slots : tasks'[m] = IF m = n THEN t ELSE tasks[m]
        BY <2>2 DEF StoresInv, StoresTypes
      <4>2. \A m \in Slots : Alters(tasks[m], "set_config") => m = n
        BY <1>2 DEF StoresInv, InHand, Alters
      <4> QED  BY <2>2, <4>1, <4>2 DEF Alters
    <3> QED  BY <2>2, <3>2, <3>3 DEF StoresInv, Pure
  <2> QED  BY <2>5, <2>6, <2>7, <2>8 DEF StoresInv
<1> QED  BY <1>3, <1>4, <1>5, <1>6, <1>7

(***************************************************************************)
(* The writer of the key.                                                  *)
(***************************************************************************)
LEMMA KeyKeeps ==
    ASSUME StoresInv, NEW n \in Slots, SetKeyring(n) \/ SetKey(n)
    PROVE  StoresInv'
<1>1. /\ Fits(tasks[n], up, held) /\ tasks[n] \in TaskSet /\ tasks = [m \in Slots |-> tasks[m]]
  BY DEF StoresInv, StoresTypes, Fits
<1>2. /\ up /\ tasks[n].kind = "api_key_set" /\ tasks[n].at \in {"keyring", "memory"}
      /\ tasks[n].arg \in {Nothing, Keyed}
      /\ UNCHANGED <<up, config, file, held, mixed, calm, ocr_history>>
      /\ (calm => tasks[n].whole)
  BY <1>1 DEF SetKeyring, SetKey, At, Fits, StoresInv, Pure
<1>3. Held'
  BY <1>2 DEF StoresInv, Held
<1>4. CASE SetKeyring(n) /\ MovesOn(n, "memory") /\ keyring' = tasks[n].arg /\ key' = key
  <2>1. PICK t \in TaskSet : /\ tasks' = [tasks EXCEPT ![n] = t]
                             /\ t.kind = tasks[n].kind /\ t.at = "memory"
                             /\ t.arg = tasks[n].arg /\ t.saw = tasks[n].saw
                             /\ t.whole = tasks[n].whole
    BY <1>1, <1>4, Moves DEF StepSet
  <2>2. Fits(t, up, held')
    BY <1>2, <2>1 DEF Fits
  <2>3. StoresTypes'
    BY <1>2, <1>4, <2>1, <2>2, TaskChanges DEF StoresInv, StoresTypes
  <2>4. InHand'
    <3> SUFFICES ASSUME calm PROVE InHand'
      BY <1>2 DEF InHand
    <3>0. /\ tasks' = [tasks EXCEPT ![n] = t] /\ up
          /\ tasks[n].kind = "api_key_set" /\ tasks[n].at # "answered"
          /\ t.kind = "api_key_set" /\ "set_config" # "api_key_set"
      BY <1>2, <2>1
    <3>1. /\ \A m \in Slots : tasks'[m] = IF m = n THEN t ELSE tasks[m]
          /\ \A m \in Slots : Alters(tasks'[m], "api_key_set") => m = n
          /\ \A m \in Slots :
                /\ Alters(tasks'[m], "set_config") <=> Alters(tasks[m], "set_config")
                /\ Alters(tasks[m], "set_config") => tasks'[m] = tasks[m]
      BY <3>0, Alone
    <3>2. Alters(tasks'[n], "api_key_set") /\ tasks'[n].at = "memory" /\ tasks'[n].arg = keyring'
      BY <1>2, <1>4, <2>1, <3>1 DEF Alters
    <3> QED  BY <1>2, <1>4, <3>1, <3>2 DEF StoresInv, InHand
  <2>8. Pure'
    <3>1. \A m \in Slots : tasks'[m] = IF m = n THEN t ELSE tasks[m]
      BY <2>1 DEF StoresInv, StoresTypes
    <3> QED  BY <1>2, <2>1, <3>1 DEF StoresInv, Pure, Alters
  <2> QED  BY <1>3, <2>3, <2>4, <2>8 DEF StoresInv
<1>5. CASE /\ tasks[n].at = "keyring" /\ Answers(n, "error") /\ UNCHANGED <<key, keyring>>
  <2>1. PICK t \in TaskSet : /\ tasks' = [tasks EXCEPT ![n] = t]
                             /\ t.kind = tasks[n].kind /\ t.at = "answered" /\ t.whole
    BY <1>1, <1>5, Moves
  <2>2. Fits(t, up, held')
    BY <2>1 DEF Fits
  <2>3. StoresTypes'
    BY <1>2, <1>5, <2>1, <2>2, TaskChanges DEF StoresInv, StoresTypes
  <2>4. InHand'
    <3> SUFFICES ASSUME calm PROVE InHand'
      BY <1>2 DEF InHand
    <3>0. /\ tasks' = [tasks EXCEPT ![n] = t] /\ up
          /\ tasks[n].kind = "api_key_set" /\ tasks[n].at # "answered"
          /\ t.kind = "api_key_set" /\ "set_config" # "api_key_set"
      BY <1>2, <2>1
    <3>1. /\ \A m \in Slots : tasks'[m] = IF m = n THEN t ELSE tasks[m]
          /\ \A m \in Slots : Alters(tasks'[m], "api_key_set") => m = n
          /\ \A m \in Slots :
                /\ Alters(tasks'[m], "set_config") <=> Alters(tasks[m], "set_config")
                /\ Alters(tasks[m], "set_config") => tasks'[m] = tasks[m]
      BY <3>0, Alone
    <3>2. ~Alters(tasks'[n], "api_key_set") /\ key = keyring
      <4>1. \A m \in Slots : Alters(tasks[m], "api_key_set") => m = n
        BY <1>2 DEF StoresInv, InHand, Alters
      <4> QED  BY <1>2, <1>5, <2>1, <3>1, <4>1 DEF StoresInv, InHand, Alters
    <3> QED  BY <1>2, <1>5, <3>1, <3>2 DEF StoresInv, InHand
  <2>8. Pure'
    <3>1. \A m \in Slots : tasks'[m] = IF m = n THEN t ELSE tasks[m]
      BY <2>1 DEF StoresInv, StoresTypes
    <3> QED  BY <1>2, <2>1, <3>1 DEF StoresInv, Pure, Alters
  <2> QED  BY <1>3, <2>3, <2>4, <2>8 DEF StoresInv
<1>6. CASE SetKey(n)
  <2>1. /\ tasks[n].at = "memory" /\ key' = tasks[n].arg /\ Answers(n, "ok")
        /\ UNCHANGED keyring
    BY <1>6 DEF SetKey, At
  <2>2. PICK t \in TaskSet : /\ tasks' = [tasks EXCEPT ![n] = t]
                             /\ t.kind = tasks[n].kind /\ t.at = "answered" /\ t.whole
    BY <1>1, <2>1, Moves
  <2>3. Fits(t, up, held')
    BY <2>2 DEF Fits
  <2>4. StoresTypes'
    BY <1>2, <2>1, <2>2, <2>3, TaskChanges DEF StoresInv, StoresTypes
  <2>5. InHand'
    <3> SUFFICES ASSUME calm PROVE InHand'
      BY <1>2 DEF InHand
    <3>0. /\ tasks' = [tasks EXCEPT ![n] = t] /\ up
          /\ tasks[n].kind = "api_key_set" /\ tasks[n].at # "answered"
          /\ t.kind = "api_key_set" /\ "set_config" # "api_key_set"
      BY <1>2, <2>1, <2>2
    <3>1. /\ \A m \in Slots : tasks'[m] = IF m = n THEN t ELSE tasks[m]
          /\ \A m \in Slots : Alters(tasks'[m], "api_key_set") => m = n
          /\ \A m \in Slots :
                /\ Alters(tasks'[m], "set_config") <=> Alters(tasks[m], "set_config")
                /\ Alters(tasks[m], "set_config") => tasks'[m] = tasks[m]
      BY <3>0, Alone
    <3>2. ~Alters(tasks'[n], "api_key_set") /\ key' = keyring'
      <4>1. tasks[n].arg = keyring
        BY <1>2, <2>1 DEF StoresInv, InHand, Alters
      <4> QED  BY <2>1, <2>2, <3>1, <4>1 DEF Alters
    <3> QED  BY <1>2, <2>1, <3>1, <3>2 DEF StoresInv, InHand
  <2>8. Pure'
    <3>1. \A m \in Slots : tasks'[m] = IF m = n THEN t ELSE tasks[m]
      BY <2>2 DEF StoresInv, StoresTypes
    <3> QED  BY <1>2, <2>2, <3>1 DEF StoresInv, Pure, Alters
  <2> QED  BY <1>3, <2>4, <2>5, <2>8 DEF StoresInv
<1>7. SetKeyring(n) => \/ MovesOn(n, "memory") /\ keyring' = tasks[n].arg /\ key' = key
                       \/ /\ tasks[n].at = "keyring" /\ Answers(n, "error")
                          /\ UNCHANGED <<key, keyring>>
  BY DEF SetKeyring, At
<1> QED  BY <1>4, <1>5, <1>6, <1>7

(***************************************************************************)
(* The process and its requests.                                           *)
(***************************************************************************)
LEMMA IdleTask ==
    /\ Idle \in TaskSet /\ Idle.kind = "none" /\ Idle.at = "none" /\ Idle.whole
    /\ \A kind \in RequestKinds \cup {"none"} :
          LET t == [Idle EXCEPT !.kind = kind, !.at = "answered", !.how = "lost"]
          IN t \in TaskSet /\ t.at = "answered" /\ t.kind = kind /\ t.whole
BY DEF Idle, TaskSet, StepSet

LEMMA StartKeeps ==
    ASSUME StoresInv, Start
    PROVE  StoresInv'
<1>1. /\ ~up /\ up' = TRUE
      /\ config' = IF file \in Configs THEN file ELSE Unset
      /\ file' = IF file = Absent THEN Unset ELSE file
      /\ Marks("memory", "file" \in mixed) /\ Holds /\ key' = keyring
      /\ UNCHANGED <<keyring, calm, ocr_history, tasks>>
  BY DEF Start
<1>2. Unset \in Configs /\ Absent \notin Configs
  BY StoresAssumption DEF Unset, Configs
<1>9. /\ held \subseteq held' /\ held' \subseteq held \cup {config'}
      /\ mixed' \subseteq {"memory", "file"} /\ ("file" \in mixed' <=> "file" \in mixed)
      /\ "memory" \in mixed' <=> "file" \in mixed
      /\ "memory" \notin mixed' => config' \in held'
  BY <1>1 DEF Holds, Marks, StoresInv, StoresTypes
<1>3. \A n \in Slots : tasks[n].at \in {"none", "answered"} /\ Fits(tasks[n], TRUE, held')
  BY <1>1 DEF StoresInv, StoresTypes, Fits
<1>4. config' \in Configs /\ (file' \in Configs => file' = config')
  BY <1>1, <1>2 DEF StoresInv, StoresTypes
<1>5. StoresTypes'
  BY <1>1, <1>2, <1>3, <1>4, <1>9 DEF StoresInv, StoresTypes
<1>6. Held'
  BY <1>1, <1>4, <1>9 DEF Held
<1>7. \A n \in Slots, kind \in {"set_config", "api_key_set"} : ~Alters(tasks[n], kind)
  BY <1>3 DEF Alters, Fits
<1>8. InHand'
  BY <1>1, <1>4, <1>7 DEF InHand
<1>10. Pure'
  BY <1>1, <1>7, <1>9 DEF StoresInv, Pure
<1> QED  BY <1>5, <1>6, <1>8, <1>10 DEF StoresInv

LEMMA CrashKeeps ==
    ASSUME StoresInv, Crash
    PROVE  StoresInv'
<1>1. /\ up' = FALSE
      /\ tasks' = [n \in Slots |->
                    IF tasks[n].at \in {"none", "answered"} THEN tasks[n]
                    ELSE [Idle EXCEPT !.kind = tasks[n].kind, !.at = "answered", !.how = "lost"]]
      /\ ocr_history' = <<>>
      /\ UNCHANGED <<config, file, key, keyring, held, mixed, calm>>
  BY DEF Crash, storeVars
<1>2. ASSUME NEW n \in Slots PROVE /\ Fits(tasks'[n], FALSE, held')
                                   /\ tasks'[n].whole \/ tasks'[n] = tasks[n]
                                   /\ tasks'[n].at \in {"none", "answered"}
  <2>1. Fits(tasks[n], up, held)
    BY DEF StoresInv, StoresTypes
  <2>2. CASE tasks[n].at \in {"none", "answered"}
    BY <1>1, <2>1, <2>2 DEF Fits
  <2>3. CASE tasks[n].at \notin {"none", "answered"}
    <3> DEFINE t == [Idle EXCEPT !.kind = tasks[n].kind, !.at = "answered", !.how = "lost"]
    <3>1. tasks'[n] = t
      BY <1>1, <2>3
    <3>2. tasks[n].kind \in RequestKinds \cup {"none"}
      BY <2>1 DEF Fits, TaskSet
    <3>3. t \in TaskSet /\ t.at = "answered" /\ t.whole
      BY <3>2, IdleTask
    <3> QED  BY <3>1, <3>3 DEF Fits
  <2> QED  BY <2>2, <2>3
<1>3. ocr_history' \in Seq(Slots) /\ Len(ocr_history') <= HistoryMax
  <2>1. HistoryMax \in Nat /\ <<>> \in Seq(Slots) /\ Len(<<>>) = 0
    BY StoresAssumption, EmptySeq
  <2>2. ocr_history' = <<>>
    BY <1>1
  <2>3. 0 <= HistoryMax
    BY <2>1
  <2> QED  BY <2>1, <2>2, <2>3
<1>4. StoresTypes'
  <2>1. \A n \in Slots : Fits(tasks'[n], up', held')
    BY <1>1, <1>2
  <2>2. DOMAIN tasks' = Slots /\ tasks' = [n \in Slots |-> tasks'[n]]
    BY <1>1
  <2> QED  BY <1>1, <1>3, <2>1, <2>2 DEF StoresInv, StoresTypes
<1>5. Pure'
  BY <1>1, <1>2 DEF StoresInv, Pure, Alters, Fits
<1> QED  BY <1>1, <1>4, <1>5 DEF StoresInv, Held, InHand

LEMMA RequestKeeps ==
    ASSUME StoresInv, NEW n \in Slots, NEW kind \in RequestKinds, Request(n, kind)
    PROVE  StoresInv'
<1>1. PICK arg \in Arguments(kind) :
          tasks' = [tasks EXCEPT ![n] = [kind |-> kind, at |-> First[kind], arg |-> arg,
                                         saw |-> Nothing, whole |-> TRUE, how |-> "none"]]
  BY DEF Request
<1> DEFINE t == [kind |-> kind, at |-> First[kind], arg |-> arg,
                 saw |-> Nothing, whole |-> TRUE, how |-> "none"]
<1>2. /\ up /\ tasks[n].at = "none"
      /\ calm' = (calm /\ ~(kind \in {"set_config", "api_key_set"} /\ InProgress(kind)))
      /\ UNCHANGED <<up, config, file, key, keyring, held, mixed, ocr_history>>
  BY DEF Request
<1>3. /\ kind = "set_config" => First[kind] = "apply" /\ arg \in Changes
      /\ kind = "api_key_set" => First[kind] = "keyring" /\ arg \in {Nothing, Keyed}
      /\ kind \notin {"set_config", "api_key_set"} =>
            First[kind] \in {"read", "config"} /\ arg = Nothing
  BY DEF RequestKinds, First, Arguments
<1>4. t \in TaskSet /\ t.kind = kind /\ t.at = First[kind] /\ t.arg = arg /\ t.whole
  <2>1. First[kind] \in StepSet /\ arg \in Changes \cup {Nothing, Keyed}
    BY <1>3 DEF StepSet
  <2> QED  BY <2>1 DEF TaskSet
<1> HIDE DEF t
<1>5. tasks' = [tasks EXCEPT ![n] = t]
  BY <1>1 DEF t
<1>6. Fits(t, up, held')
  BY <1>2, <1>3, <1>4 DEF Fits
<1>7. calm' \in BOOLEAN /\ (calm' => calm)
  BY <1>2 DEF StoresInv, StoresTypes
<1>8. StoresTypes' /\ \A m \in Slots : tasks'[m] = IF m = n THEN t ELSE tasks[m]
  BY <1>2, <1>5, <1>6, <1>7, TaskChanges DEF StoresInv, StoresTypes
<1>9. Held'
  BY <1>2 DEF StoresInv, Held
<1>10. InHand'
  <2> SUFFICES ASSUME calm, calm' PROVE InHand'
    BY <1>7 DEF InHand
  <2>1. \A other \in {"set_config", "api_key_set"} : ~Alters(tasks[n], other)
    BY <1>2 DEF StoresInv, StoresTypes, Fits, Alters
  <2>2. \A other \in {"set_config", "api_key_set"}, m \in Slots :
           Alters(tasks[m], other) => m # n /\ tasks'[m] = tasks[m]
    BY <1>8, <2>1
  <2>3. \A other \in {"set_config", "api_key_set"}, m \in Slots :
           Alters(tasks'[m], other) =>
              \/ m = n /\ kind = other /\ tasks'[m].at = First[kind]
                       /\ \A k \in Slots : ~Alters(tasks[k], kind)
              \/ Alters(tasks[m], other) /\ tasks'[m] = tasks[m]
    <3>1. kind \in {"set_config", "api_key_set"} => \A k \in Slots : ~Alters(tasks[k], kind)
      BY <1>2 DEF InProgress, Alters
    <3> QED  BY <1>4, <1>8, <3>1 DEF Alters
  <2>4. First["set_config"] = "apply" /\ First["api_key_set"] = "keyring"
    BY DEF First
  <2>5. \A other \in {"set_config", "api_key_set"} : \A m, k \in Slots :
           Alters(tasks'[m], other) /\ Alters(tasks'[k], other) => m = k
    BY <1>2, <2>3 DEF StoresInv, InHand
  <2>6. /\ file \in Configs /\ file # config =>
              \E m \in Slots : Alters(tasks'[m], "set_config") /\ tasks'[m].at # "apply"
        /\ key # keyring =>
              \E m \in Slots : Alters(tasks'[m], "api_key_set") /\ tasks'[m].at = "memory"
    BY <1>2, <2>2 DEF StoresInv, InHand
  <2>7. ASSUME NEW m \in Slots
        PROVE  /\ Alters(tasks'[m], "set_config") /\ tasks'[m].at \in {"save", "write"}
                     => tasks'[m].saw = config
               /\ Alters(tasks'[m], "api_key_set") /\ tasks'[m].at = "memory"
                     => tasks'[m].arg = keyring
    BY <1>2, <2>3, <2>4 DEF StoresInv, InHand
  <2> QED  BY <1>2, <2>5, <2>6, <2>7 DEF InHand
<1>11. Pure'
  <2>1. kind = "set_config" => t.at # "write"
    BY <1>3, <1>4
  <2> QED  BY <1>2, <1>4, <1>7, <1>8, <2>1 DEF StoresInv, Pure, Alters
<1> QED  BY <1>8, <1>9, <1>10, <1>11 DEF StoresInv

LEMMA StoresInitInv == StoresInit => StoresInv
<1> SUFFICES ASSUME StoresInit PROVE StoresInv
  OBVIOUS
<1>1. StoresTypes
  <2>1. Unset \in Configs
    BY StoresAssumption DEF Unset, Configs
  <2>2. ocr_history \in Seq(Slots) /\ Len(ocr_history) <= HistoryMax
    BY StoresAssumption, EmptySeq DEF StoresInit
  <2>3. \A n \in Slots : Fits(tasks[n], up, held)
    BY IdleTask DEF StoresInit, Fits
  <2> QED  BY <2>1, <2>2, <2>3 DEF StoresInit, StoresTypes
<1>2. Pure
  BY IdleTask DEF StoresInit, Pure, Alters
<1> QED  BY <1>1, <1>2 DEF StoresInit, StoresInv, Held, InHand

LEMMA StoresStep == StoresInv /\ [StoresNext]_daemonVars => StoresInv'
<1> SUFFICES ASSUME StoresInv, [StoresNext]_daemonVars PROVE StoresInv'
  OBVIOUS
<1>1. CASE Start
  BY <1>1, StartKeeps
<1>2. CASE Crash
  BY <1>2, CrashKeeps
<1>3. ASSUME NEW n \in Slots, StoreStep(n) PROVE StoresInv'
  BY <1>3, ConfigKeeps, KeyKeeps, ReadersKeep DEF StoreStep
<1>4. ASSUME NEW n \in Slots, NEW kind \in RequestKinds, Request(n, kind) PROVE StoresInv'
  BY <1>4, RequestKeeps
<1>5. CASE UNCHANGED daemonVars
  BY <1>5 DEF daemonVars, storeVars, StoresInv, StoresTypes, Held, InHand, Pure
<1> QED  BY <1>1, <1>2, <1>3, <1>4, <1>5 DEF StoresNext

\* What a task holds while it works, and the stores' types: OCR results
\* beyond OCR_HISTORY_MAX are forgotten (handler.rs: handle_ocr_recognize).
THEOREM StoresInvariant == StoresSpec => []StoresInv
<1> QED  BY StoresInitInv, StoresStep, PTL DEF StoresSpec

\* Memory, config.toml and the settings of a provider call are whole
\* configurations, and no mixture of two, until a SetConfig is rejected, a
\* save fails or two overlap, and again once the file is saved whole and the
\* memory loaded from it, for any fields, values, requests and kills
\* (handler.rs: SetConfig; config.rs: apply_map, save).
THEOREM NoMixtureEver == StoresSpec => []NoMixture
<1>1. StoresInv => NoMixture
  <2> SUFFICES ASSUME StoresInv, up PROVE NoMixture
    BY DEF NoMixture
  <2> QED  BY DEF StoresInv, StoresTypes, Held, Fits, Pure, NoMixture
<1> QED  BY <1>1, StoresInvariant, PTL

\* With no SetConfig and no ApiKeySet under way, and none rejected, left
\* unsaved or overlapped, memory, config.toml and the keyring agree, across
\* kills and restarts (handler.rs: SetConfig, handle_api_key_set).
THEOREM StoresAgree == StoresSpec => []QuietStoresAgree
<1>1. StoresInv => QuietStoresAgree
  BY DEF StoresInv, InHand, QuietStoresAgree, InProgress, Alters
<1> QED  BY <1>1, StoresInvariant, PTL
=============================================================================
