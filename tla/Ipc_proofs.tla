------------------------------ MODULE Ipc_proofs ------------------------------
(***************************************************************************)
(* Proofs about the two parts of verba-ipc that carry state: the commit    *)
(* forwarder (first part) and a connection (second part).  The two modules *)
(* share no state; the proofs share this module.                           *)
(*                                                                         *)
(* The forwarder's invariant numbers the backlog: what waits, in pending   *)
(* and then in the channel, are the last items pushed, without a gap, and  *)
(* what met its fate are all the others.  An item is sent again only when  *)
(* the daemon that got it is gone, so a daemon that still lives has        *)
(* applied nothing that waits but the item whose answer the worker holds.  *)
(*                                                                         *)
(* The connection's invariant says that nothing of an earlier call is left *)
(* when a call begins: every piece, task and frame belongs to the call in  *)
(* progress, a frame that ends a call is the last one in flight, and once  *)
(* a handler was started an answer is always on its way.                   *)
(***************************************************************************)
EXTENDS CommitForwarder, IpcConnection, SequenceTheorems, TLAPS

\* The number of items that met their fate.
Base == pushed - Len(pending) - Len(chan)

Backlog ==
    /\ Base \in Nat
    /\ \A i \in 1..Len(pending) : pending[i] = Base + i
    /\ \A i \in 1..Len(chan) : chan[i] = Base + Len(pending) + i

InFlight ==
    /\ worker = "waiting" => pending = <<>>
    /\ asked # "no" => worker = "sending" /\ pending # <<>>
    /\ asked = "ok" => \E d \in Daemons : Base + 1 \in Elements(applied[d])

AppliedByLiving ==
    \A d \in Daemons : phase[d] # "gone" =>
        \A i \in 1..Len(applied[d]) :
            \/ applied[d][i] <= Base
            \/ applied[d][i] = Base + 1 /\ link = d /\ asked = "ok"

Fates ==
    /\ settled["acked"] \cup settled["refused"] \cup settled["dropped"] = 1..Base
    /\ settled["acked"] \cap settled["dropped"] = {}
    /\ settled["refused"] \cap settled["dropped"] = {}
    /\ settled["acked"] \cap settled["refused"] = {}
    /\ \A k \in settled["acked"] : \E d \in Daemons : k \in Elements(applied[d])

Inv ==
    /\ TypeOK
    /\ Backlog /\ InFlight /\ AppliedByLiving /\ Fates
    /\ AppliedInOrder

(***************************************************************************)
(* The endpoint: types, and a process that is gone stays gone.             *)
(***************************************************************************)
LEMMA StartKeepsEndpoint ==
    ASSUME EndpointTypes, NEW d \in Daemons, StartStep(d)
    PROVE  EndpointTypes' /\ \A e \in Daemons : phase'[e] # "gone" => phase[e] # "gone"
<1>1. CASE EnsureToken(d)
  BY <1>1 DEF EnsureToken, EndpointTypes, Phases, callerVars
<1>2. CASE TruncateToken(d)
  BY <1>2 DEF TruncateToken, EndpointTypes, Phases, callerVars
<1>3. CASE WriteToken(d)
  BY <1>3 DEF WriteToken, EndpointTypes, Phases, callerVars
<1>4. CASE ComputeSpec(d)
  <2> DEFINE name == IF token \in Daemons THEN token ELSE "random"
  <2>1. name \in Daemons \cup {None, "random"} /\ pipe' = [pipe EXCEPT ![d] = name]
    BY <1>4 DEF ComputeSpec
  <2> HIDE DEF name
  <2> QED BY <1>4, <2>1 DEF ComputeSpec, EndpointTypes, Phases, callerVars
<1>5. CASE Probe(d)
  BY <1>5 DEF Probe, EndpointTypes, Phases, callerVars
<1>6. CASE Clear(d)
  BY <1>6 DEF Clear, EndpointTypes, Phases, callerVars
<1>7. CASE Bind(d)
  <2>1. PICK free \in BOOLEAN :
          /\ phase[d] = "binding"
          /\ phase' = [phase EXCEPT ![d] = IF free THEN "serving" ELSE "gone"]
          /\ path' \in {d, path}
          /\ UNCHANGED <<platform, token, pipe, callerVars>>
    BY <1>7, Zenon DEF Bind
  <2> QED BY <2>1 DEF EndpointTypes, Phases, callerVars
<1> QED BY <1>1, <1>2, <1>3, <1>4, <1>5, <1>6, <1>7 DEF StartStep

LEMMA CallKeepsEndpoint ==
    ASSUME EndpointTypes, NEW c \in Callers, CallerStep(c)
    PROVE  EndpointTypes' /\ \A e \in Daemons : phase'[e] # "gone" => phase[e] # "gone"
<1>1. phase' = phase \/ \E d \in Daemons :
          phase[d] = "unborn" /\ phase' = [phase EXCEPT ![d] = Start]
  BY DEF CallerStep, Connect, EnsureDaemon, ConnectDaemon, EnsureDaemonStarted, GiveUp,
         Spawn, procVars
<1>2. Start \in Phases /\ Start # "gone"
  BY DEF Start, Phases
<1>3. /\ phase' \in [Daemons -> Phases]
      /\ \A e \in Daemons : phase'[e] # "gone" => phase[e] # "gone"
  BY <1>1, <1>2 DEF EndpointTypes
<1>4. UNCHANGED <<platform, path, token, pipe>>
  BY DEF CallerStep, Connect, EnsureDaemon, ConnectDaemon, EnsureDaemonStarted, GiveUp,
         procVars
<1>5. \E at \in {"idle", "retrying"} : caller' = [caller EXCEPT ![c] = at]
  BY DEF CallerStep, Connect, EnsureDaemon, ConnectDaemon, EnsureDaemonStarted, GiveUp
<1>6. tried' = tried \/ tried' = [tried EXCEPT ![c] = TRUE]
  BY DEF CallerStep, Connect, EnsureDaemon, ConnectDaemon, EnsureDaemonStarted, GiveUp
<1> QED BY <1>3, <1>4, <1>5, <1>6 DEF EndpointTypes

LEMMA CrashKeepsEndpoint ==
    ASSUME EndpointTypes, NEW d \in Daemons, Crash(d)
    PROVE  /\ EndpointTypes' /\ phase'[d] = "gone"
           /\ \A e \in Daemons : phase'[e] # "gone" => phase[e] # "gone"
BY DEF Crash, EndpointTypes, Phases

(***************************************************************************)
(* What the numbering says of the items.                                   *)
(***************************************************************************)
LEMMA Numbers ==
    ASSUME TypeOK, Backlog
    PROVE  /\ Base + Len(pending) + Len(chan) = pushed
           /\ pending # <<>> => Len(pending) > 0 /\ Head(pending) = Base + 1
           /\ Waiting = (Base + 1)..pushed
<1>1. Len(pending) \in Nat /\ Len(chan) \in Nat /\ pushed \in Nat /\ Base \in Nat
  BY LenProperties DEF TypeOK, ForwarderTypes, Backlog
<1>2. Base + Len(pending) + Len(chan) = pushed
  BY <1>1 DEF Base
<1>3. Elements(pending) = (Base + 1)..(Base + Len(pending))
  <2>1. \A k \in (Base + 1)..(Base + Len(pending)) : pending[k - Base] = k
    BY <1>1 DEF Backlog
  <2> QED BY <1>1, <2>1 DEF Backlog, Elements
<1>4. Elements(chan) = (Base + Len(pending) + 1)..pushed
  <2>1. \A k \in (Base + Len(pending) + 1)..pushed : chan[k - Base - Len(pending)] = k
    BY <1>1, <1>2 DEF Backlog
  <2> QED BY <1>1, <1>2, <2>1 DEF Backlog, Elements
<1>5. pending # <<>> => Len(pending) > 0 /\ Head(pending) = Base + 1
  BY <1>1, EmptySeq DEF Backlog, TypeOK, ForwarderTypes
<1> QED BY <1>1, <1>2, <1>3, <1>4, <1>5 DEF Waiting

LEMMA AppliedNumbers ==
    ASSUME ForwarderTypes
    PROVE  \A d \in Daemons : \A i \in 1..Len(applied[d]) : applied[d][i] \in Nat
<1>1. \A d \in Daemons : applied[d] \in Seq(Items)
  BY DEF ForwarderTypes
<1>2. \A d \in Daemons : \A i \in 1..Len(applied[d]) : applied[d][i] \in Items
  BY <1>1, ElementOfSeq
<1>3. Items \subseteq Nat
  BY ForwarderAssumption DEF Items
<1> QED BY <1>2, <1>3

\* Adding a fate for the items up to a higher number.
LEMMA FateAdded ==
    ASSUME TypeOK, Fates, Base \in Nat, NEW n \in Nat, NEW f \in {"acked", "refused", "dropped"},
           settled' = [settled EXCEPT ![f] = @ \cup (Base + 1)..(Base + n)],
           Base' = Base + n, Base + n <= pushed, applied' = applied,
           f = "acked" => \A k \in (Base + 1)..(Base + n) :
                              \E d \in Daemons : k \in Elements(applied[d])
    PROVE  Fates' /\ settled' \in [{"acked", "refused", "dropped"} -> SUBSET Items]
<1> DEFINE new == (Base + 1)..(Base + n)
<1>1. new \subseteq Items /\ new \cap 1..Base = {} /\ 1..Base \cup new = 1..Base'
  <2>1. pushed \in 0..MaxItems /\ MaxItems \in Nat
    BY ForwarderAssumption DEF TypeOK, ForwarderTypes
  <2>2. new \subseteq Items /\ new \cap 1..Base = {}
    BY <2>1 DEF Items
  <2>3. 1..Base \cup new = 1..(Base + n)
    OBVIOUS
  <2> QED BY <2>2, <2>3
<1>2. \A g \in {"acked", "refused", "dropped"} :
          settled'[g] = IF g = f THEN settled[g] \cup new ELSE settled[g]
  BY DEF TypeOK, ForwarderTypes
<1>3. settled' \in [{"acked", "refused", "dropped"} -> SUBSET Items]
  BY <1>1 DEF TypeOK, ForwarderTypes
<1> HIDE DEF new
<1>4. settled'["acked"] \cup settled'["refused"] \cup settled'["dropped"] = 1..Base'
  BY <1>1, <1>2 DEF Fates
<1>5. /\ settled'["acked"] \cap settled'["dropped"] = {}
      /\ settled'["refused"] \cap settled'["dropped"] = {}
      /\ settled'["acked"] \cap settled'["refused"] = {}
  BY <1>1, <1>2 DEF Fates
<1>6. \A k \in settled'["acked"] : \E d \in Daemons : k \in Elements(applied[d])
  BY <1>2 DEF Fates, new
<1> QED BY <1>3, <1>4, <1>5, <1>6 DEF Fates

(***************************************************************************)
(* The steps.                                                              *)
(***************************************************************************)

\* Nothing joins or leaves the backlog, no daemon applies anything, and the
\* worker does not take up an answer it does not have.
Keeps ==
    /\ UNCHANGED <<pushed, chan, pending, applied, settled>>
    /\ worker' = "waiting" => worker = "waiting"
    /\ asked' # "no" => worker' = "sending" /\ pending # <<>>
    /\ asked' = "ok" => asked = "ok"
    /\ asked = "ok" => \A d \in Daemons :
          link = d /\ phase'[d] # "gone" => link' = d /\ asked' = "ok"
    /\ \A d \in Daemons : phase'[d] # "gone" => phase[d] # "gone"

LEMMA KeepsInv ==
    ASSUME Inv, Keeps, TypeOK'
    PROVE  Inv'
<1>1. Base' = Base
  BY DEF Keeps, Base
<1>2. Backlog'
  BY <1>1 DEF Inv, Keeps, Backlog
<1>3. InFlight'
  BY <1>1 DEF Inv, Keeps, InFlight
<1>4. AppliedByLiving'
  BY <1>1 DEF Inv, Keeps, AppliedByLiving
<1>5. Fates'
  BY <1>1 DEF Inv, Keeps, Fates
<1>6. AppliedInOrder'
  BY DEF Inv, Keeps, AppliedInOrder
<1> QED BY <1>2, <1>3, <1>4, <1>5, <1>6 DEF Inv

\* The items, the channel and the backlog of two states that differ in them.
LEMMA PushKeepsInv == ASSUME Inv, Push PROVE Inv'
<1> DEFINE k == pushed + 1
<1>1. /\ pushed \in Nat /\ k \in Items /\ pushed' = k
      /\ Len(pending) \in Nat /\ Len(chan) \in Nat
  BY ForwarderAssumption, LenProperties DEF Push, Inv, TypeOK, ForwarderTypes, Items
<1>2. /\ chan' \in Seq(Items) /\ Len(chan') = Len(chan) + 1
      /\ \A i \in 1..Len(chan) : chan'[i] = chan[i]
      /\ chan'[Len(chan) + 1] = k
  <2>1. chan \in Seq(Items)
    BY DEF Inv, TypeOK, ForwarderTypes
  <2> HIDE DEF k
  <2>2. chan' = Append(chan, k)
    BY DEF Push, k
  <2> QED BY <1>1, <2>1, <2>2, AppendProperties
<1>3. Base' = Base /\ Base + Len(pending) + Len(chan) = pushed
  BY <1>1, <1>2 DEF Push, Base
<1>4. TypeOK'
  BY <1>1, <1>2 DEF Push, Inv, TypeOK, EndpointTypes, ForwarderTypes, Items, endpointVars
<1>5. Backlog'
  BY <1>1, <1>2, <1>3 DEF Push, Inv, Backlog
<1>6. InFlight' /\ AppliedByLiving' /\ Fates' /\ AppliedInOrder'
  BY <1>3 DEF Push, Inv, InFlight, AppliedByLiving, Fates, AppliedInOrder, endpointVars
<1> QED BY <1>4, <1>5, <1>6 DEF Inv

LEMMA DrainKeepsInv == ASSUME Inv, DrainAndCap PROVE Inv'
<1> DEFINE all == pending \o chan
           n == Surplus(all)
           late == SubSeq(all, n + 1, Len(all))
<1>1. /\ pending \in Seq(Items) /\ chan \in Seq(Items)
      /\ Len(pending) \in Nat /\ Len(chan) \in Nat
      /\ pushed \in 0..MaxItems /\ MaxItems \in Nat /\ Base \in Nat
  BY ForwarderAssumption, LenProperties DEF Inv, TypeOK, ForwarderTypes, Backlog
<1>2. /\ all \in Seq(Items) /\ Len(all) = Len(pending) + Len(chan)
      /\ \A i \in 1..Len(all) : all[i] = Base + i
  <2>1. /\ all \in Seq(Items) /\ Len(all) = Len(pending) + Len(chan)
        /\ \A i \in 1..(Len(pending) + Len(chan)) : all[i] =
              IF i <= Len(pending) THEN pending[i] ELSE chan[i - Len(pending)]
    BY <1>1, ConcatProperties
  <2> QED BY <1>1, <2>1 DEF Inv, Backlog
<1> HIDE DEF all
<1>3. n \in 0..Len(all)
  BY <1>1, <1>2, ForwarderAssumption DEF Surplus
<1> HIDE DEF n
<1>4. /\ late \in Seq(Items) /\ Len(late) = Len(all) - n
      /\ \A i \in 1..Len(late) : late[i] = Base + n + i
  <2>1. \A i \in (n + 1)..Len(all) : all[i] \in Items
    BY <1>2, <1>3, ElementOfSeq
  <2>2. /\ late \in Seq(Items)
        /\ Len(late) = IF n + 1 <= Len(all) THEN Len(all) - (n + 1) + 1 ELSE 0
        /\ \A i \in 1..(Len(all) - (n + 1) + 1) : late[i] = all[n + 1 + i - 1]
    BY <1>1, <1>2, <1>3, <2>1, SubSeqProperties
  <2> QED BY <1>1, <1>2, <1>3, <2>2
<1>5. Elements(SubSeq(all, 1, n)) = (Base + 1)..(Base + n)
  <2> DEFINE early == SubSeq(all, 1, n)
  <2>1. \A i \in 1..n : all[i] \in Items
    BY <1>2, <1>3, ElementOfSeq
  <2>2. /\ Len(early) = IF 1 <= n THEN n - 1 + 1 ELSE 0
        /\ \A i \in 1..(n - 1 + 1) : early[i] = all[1 + i - 1]
    BY <1>2, <1>3, <2>1, SubSeqProperties
  <2> HIDE DEF early
  <2>3. n \in Nat /\ Len(early) = n /\ \A i \in 1..n : early[i] = Base + i
    BY <1>2, <1>3, <2>2
  <2>4. \A k \in (Base + 1)..(Base + n) : k - Base \in 1..n /\ Base + (k - Base) = k
    BY <1>1, <2>3
  <2>5. Elements(early) = {early[i] : i \in 1..n}
    BY <2>3 DEF Elements
  <2>6. \A k \in (Base + 1)..(Base + n) : k \in Elements(early)
    <3>1. \A k \in (Base + 1)..(Base + n) : k - Base \in 1..n /\ early[k - Base] = k
      BY <1>1, <2>3, <2>4
    <3> QED BY <2>5, <3>1
  <2>7. \A i \in 1..n : early[i] \in (Base + 1)..(Base + n)
    BY <1>1, <2>3
  <2>8. Elements(early) = (Base + 1)..(Base + n)
    BY <2>5, <2>6, <2>7
  <2> QED BY <2>8 DEF early
<1>6. /\ chan' = <<>> /\ pending' = late
      /\ settled' = [settled EXCEPT !["dropped"] = @ \cup (Base + 1)..(Base + n)]
      /\ worker = "draining" /\ worker' \in {"waiting", "connecting"}
      /\ worker' = "waiting" => Len(all) = 0
      /\ UNCHANGED <<endpointVars, pushed, link, asked, applied>>
  <2>1. /\ chan' = <<>> /\ pending' = late
        /\ settled' = [settled EXCEPT
                         !["dropped"] = @ \cup Elements(SubSeq(all, 1, n))]
        /\ worker = "draining"
        /\ worker' = IF all = <<>> THEN "waiting" ELSE "connecting"
        /\ UNCHANGED <<endpointVars, pushed, link, asked, applied>>
    BY Zenon DEF DrainAndCap, all, n
  <2>2. all = <<>> => Len(all) = 0
    BY EmptySeq
  <2> QED BY <1>5, <2>1, <2>2
<1> HIDE DEF late
<1>7. Len(chan') = 0 /\ chan' \in Seq(Items)
  BY <1>6, EmptySeq
<1>8. Base' = Base + n /\ Base + n <= pushed
  <2>1. Base = pushed - Len(pending) - Len(chan)
    BY DEF Base
  <2>2. Base' = pushed - Len(late) - 0
    BY <1>6, <1>7 DEF Base
  <2> QED BY <1>1, <1>2, <1>3, <1>4, <2>1, <2>2
<1>9. Fates' /\ settled' \in [{"acked", "refused", "dropped"} -> SUBSET Items]
  <2>1. n \in Nat
    BY <1>2, <1>3
  <2> QED BY <1>1, <1>6, <1>8, <2>1, FateAdded DEF Inv
<1>10. TypeOK'
  BY <1>4, <1>6, <1>7, <1>9
     DEF Inv, TypeOK, EndpointTypes, ForwarderTypes, endpointVars
<1>11. Backlog'
  BY <1>1, <1>3, <1>2, <1>4, <1>6, <1>7, <1>8 DEF Backlog
<1>12. asked = "no" /\ asked' = "no"
  BY <1>6 DEF Inv, InFlight
<1>13. AppliedByLiving'
  <2>1. \A d \in Daemons : \A i \in 1..Len(applied[d]) :
            applied[d][i] \in Nat
    BY AppliedNumbers DEF Inv, TypeOK
  <2> QED BY <1>1, <1>2, <1>3, <1>6, <1>8, <1>12, <2>1
          DEF Inv, AppliedByLiving, endpointVars
<1>14. InFlight' /\ AppliedInOrder'
  <2>1. worker' = "waiting" => Len(pending') = 0
    BY <1>1, <1>2, <1>3, <1>4, <1>6
  <2>2. worker' = "waiting" => pending' = <<>>
    BY <1>4, <1>6, <2>1, EmptySeq
  <2> QED BY <1>6, <1>12, <2>2 DEF Inv, InFlight, AppliedInOrder
<1> QED BY <1>9, <1>10, <1>11, <1>13, <1>14 DEF Inv

LEMMA ReceiveKeepsInv == ASSUME Inv, Receive PROVE Inv'
<1>1. /\ asked = "no" /\ asked' = "no" /\ pending = <<>>
      /\ pending' = <<Head(chan)>> /\ chan' = Tail(chan) /\ chan # <<>>
      /\ worker' = "connecting"
      /\ UNCHANGED <<endpointVars, pushed, link, applied, settled>>
  BY DEF Receive, Inv, InFlight
<1>2. /\ chan \in Seq(Items) /\ Len(chan) \in Nat \ {0} /\ Len(pending) = 0
      /\ pushed \in Nat /\ Base \in Nat
  BY <1>1, EmptySeq DEF Inv, TypeOK, ForwarderTypes, Backlog
<1>3. /\ Head(chan) \in Items /\ Head(chan) = chan[1]
      /\ chan' \in Seq(Items) /\ Len(chan') = Len(chan) - 1
      /\ \A i \in 1..Len(chan') : chan'[i] = chan[i + 1]
  BY <1>1, <1>2, HeadTailProperties
<1>4. pending' \in Seq(Items) /\ Len(pending') = 1 /\ pending'[1] = chan[1]
  BY <1>1, <1>3
<1>5. Base' = Base
  <2>1. Base = pushed - Len(pending) - Len(chan)
    BY DEF Base
  <2>2. Base' = pushed - Len(pending') - Len(chan')
    BY <1>1 DEF Base
  <2> QED BY <1>2, <1>3, <1>4, <2>1, <2>2
<1>6. TypeOK'
  BY <1>1, <1>3, <1>4 DEF Inv, TypeOK, EndpointTypes, ForwarderTypes, endpointVars
<1>7. Backlog'
  <2>1. \A i \in 1..Len(chan) : chan[i] = Base + i
    BY <1>2 DEF Inv, Backlog
  <2> QED BY <1>2, <1>3, <1>4, <1>5, <2>1 DEF Backlog
<1>8. InFlight' /\ AppliedByLiving' /\ Fates' /\ AppliedInOrder'
  BY <1>1, <1>5 DEF Inv, InFlight, AppliedByLiving, Fates, AppliedInOrder, endpointVars
<1> QED BY <1>6, <1>7, <1>8 DEF Inv

LEMMA HandleKeepsInv == ASSUME Inv, NEW d \in Daemons, Handle(d) PROVE Inv'
<1>1. /\ pending # <<>> /\ worker = "sending" /\ link = d /\ asked = "written"
      /\ phase[d] = "serving"
      /\ UNCHANGED <<endpointVars, pushed, chan, pending, worker, link, settled>>
  BY DEF Handle, Inv, InFlight
<1>2. Base' = Base
  BY <1>1 DEF Base
<1>3. CASE asked' = "refused" /\ applied' = applied
  <2>1. Keeps /\ TypeOK'
    BY <1>1, <1>3 DEF Keeps, Inv, TypeOK, ForwarderTypes, EndpointTypes, endpointVars
  <2> QED BY <2>1, KeepsInv
<1>4. CASE asked' = "ok" /\ applied' = [applied EXCEPT ![d] = Append(@, Head(pending))]
  <2> DEFINE s == applied[d]
             t == Append(s, Base + 1)
  <2>1. Head(pending) = Base + 1 /\ Base \in Nat
    BY <1>1, Numbers DEF Inv, Backlog
  <2>2. Base + 1 \in Items
    <3>1. Head(pending) \in Items
      BY <1>1, HeadTailProperties DEF Inv, TypeOK, ForwarderTypes
    <3> QED BY <2>1, <3>1
  <2>3. s \in Seq(Items) /\ Len(s) \in Nat
    BY LenProperties DEF Inv, TypeOK, ForwarderTypes
  <2>4. applied' = [applied EXCEPT ![d] = t]
    BY <1>4, <2>1
  <2> HIDE DEF s
  <2>5. /\ t \in Seq(Items) /\ Len(t) = Len(s) + 1
        /\ \A i \in 1..Len(s) : t[i] = s[i]
        /\ t[Len(s) + 1] = Base + 1
    BY <2>2, <2>3, AppendProperties
  <2>6. \A i \in 1..Len(s) : s[i] <= Base
    BY <1>1 DEF Inv, AppliedByLiving, s
  <2> HIDE DEF t
  <2>7. \A e \in Daemons : applied'[e] = IF e = d THEN t ELSE applied[e]
    BY <2>4 DEF Inv, TypeOK, ForwarderTypes
  <2>8. TypeOK'
    <3>1. applied' \in [Daemons -> Seq(Items)]
      BY <2>4, <2>5 DEF Inv, TypeOK, ForwarderTypes
    <3> QED BY <1>1, <1>4, <3>1
            DEF Inv, TypeOK, ForwarderTypes, EndpointTypes, endpointVars
  <2>9. Backlog'
    BY <1>1, <1>2 DEF Inv, Backlog
  <2>10. \A e \in Daemons : Elements(applied[e]) \subseteq Elements(applied'[e])
    <3>1. Elements(s) \subseteq Elements(t)
      BY <2>3, <2>5 DEF Elements
    <3> QED BY <2>7, <3>1 DEF s
  <2>11. InFlight'
    <3>1. Base + 1 \in Elements(t)
      BY <2>3, <2>5 DEF Elements
    <3> QED BY <1>1, <1>2, <1>4, <2>7, <3>1 DEF InFlight
  <2>12. Fates'
    BY <1>1, <1>2, <2>10 DEF Inv, Fates
  <2>13. AppliedByLiving'
    <3>1. \A i \in 1..Len(t) : t[i] <= Base \/ t[i] = Base + 1
      BY <2>3, <2>5, <2>6
    <3> QED BY <1>1, <1>2, <1>4, <2>7, <3>1 DEF Inv, AppliedByLiving, endpointVars
  <2>14. AppliedInOrder'
    <3>1. \A i, j \in 1..Len(s) : i < j => s[i] < s[j]
      BY DEF Inv, AppliedInOrder, s
    <3>2. \A i, j \in 1..Len(t) : i < j => t[i] < t[j]
      <4>1. \A i \in 1..Len(s) : s[i] \in Nat
        BY AppliedNumbers DEF Inv, TypeOK, s
      <4>2. ASSUME NEW i \in 1..Len(t), NEW j \in 1..Len(t), i < j
            PROVE  t[i] < t[j]
        <5>1. i \in 1..Len(s) /\ t[i] = s[i]
          BY <2>3, <2>5, <4>2
        <5>2. CASE j = Len(s) + 1
          BY <2>1, <2>5, <2>6, <4>1, <5>1, <5>2
        <5>3. CASE j # Len(s) + 1
          <6>1. j \in 1..Len(s) /\ t[j] = s[j]
            BY <2>3, <2>5, <5>3
          <6> QED BY <3>1, <4>2, <5>1, <6>1
        <5> QED BY <5>2, <5>3
      <4> QED BY <4>2
    <3> QED BY <2>7, <3>2 DEF Inv, AppliedInOrder
  <2> QED BY <2>8, <2>9, <2>11, <2>12, <2>13, <2>14 DEF Inv
<1> QED BY <1>3, <1>4 DEF Handle

LEMMA SettleKeepsInv == ASSUME Inv, Settle PROVE Inv'
<1>1. /\ pending # <<>> /\ worker = "sending" /\ asked \in {"ok", "refused"}
      /\ pending' = Tail(pending) /\ asked' = "no"
      /\ UNCHANGED <<endpointVars, pushed, chan, worker, link, applied>>
  BY DEF Settle, Inv, InFlight
<1>2. /\ pending \in Seq(Items) /\ Len(pending) \in Nat \ {0} /\ Len(chan) \in Nat
      /\ pushed \in Nat /\ Base \in Nat
      /\ Head(pending) = Base + 1 /\ Base + Len(pending) + Len(chan) = pushed
  BY <1>1, EmptySeq, LenProperties, Numbers
     DEF Inv, TypeOK, ForwarderTypes, Backlog
<1>3. /\ pending' \in Seq(Items) /\ Len(pending') = Len(pending) - 1
      /\ \A i \in 1..Len(pending') : pending'[i] = pending[i + 1]
  BY <1>1, <1>2, HeadTailProperties
<1>4. Base' = Base + 1 /\ Base + 1 <= pushed
  <2>1. Base' = pushed - Len(pending') - Len(chan)
    BY <1>1 DEF Base
  <2>2. Len(pending') = Len(pending) - 1
    BY <1>3
  <2>3. Base = pushed - Len(pending) - Len(chan)
    BY DEF Base
  <2> QED BY <1>2, <2>1, <2>2, <2>3
<1>5. Fates' /\ settled' \in [{"acked", "refused", "dropped"} -> SUBSET Items]
  <2> DEFINE fate == IF asked = "ok" THEN "acked" ELSE "refused"
  <2>1. settled' = [settled EXCEPT ![fate] = @ \cup {Head(pending)}]
    BY DEF Settle
  <2>2. {Head(pending)} = (Base + 1)..(Base + 1)
    BY <1>2
  <2>3. fate = "acked" => \A k \in (Base + 1)..(Base + 1) :
                              \E d \in Daemons : k \in Elements(applied[d])
    BY <1>2 DEF Inv, InFlight
  <2>4. fate \in {"acked", "refused", "dropped"}
    OBVIOUS
  <2> HIDE DEF fate
  <2>5. settled' = [settled EXCEPT ![fate] = @ \cup (Base + 1)..(Base + 1)]
    BY <2>1, <2>2
  <2> QED BY <1>1, <1>2, <1>4, <2>3, <2>4, <2>5, FateAdded DEF Inv
<1>6. TypeOK'
  BY <1>1, <1>3, <1>5 DEF Inv, TypeOK, EndpointTypes, ForwarderTypes, endpointVars
<1>7. Backlog'
  BY <1>1, <1>2, <1>3, <1>4 DEF Inv, Backlog
<1>8. AppliedByLiving'
  <2>1. \A d \in Daemons : \A i \in 1..Len(applied[d]) : applied[d][i] \in Nat
    BY AppliedNumbers DEF Inv, TypeOK
  <2>2. phase' = phase /\ applied' = applied
    BY <1>1 DEF endpointVars
  <2>3. ASSUME NEW d \in Daemons, phase[d] # "gone", NEW i \in 1..Len(applied[d])
        PROVE  applied[d][i] <= Base'
    <3>1. applied[d][i] <= Base \/ applied[d][i] = Base + 1
      BY <2>3 DEF Inv, AppliedByLiving
    <3>2. applied[d][i] \in Nat
      BY <2>1, <2>3
    <3> QED BY <3>1, <3>2, <1>2, <1>4
  <2> QED BY <2>2, <2>3 DEF AppliedByLiving
<1>9. InFlight' /\ AppliedInOrder'
  BY <1>1 DEF Inv, InFlight, AppliedInOrder
<1> QED BY <1>5, <1>6, <1>7, <1>8, <1>9 DEF Inv

LEMMA WorkerKeepsInv == ASSUME Inv, Worker PROVE Inv'
<1>1. ASSUME NEW d \in Daemons, FlushConnects(d)
      PROVE  Keeps /\ TypeOK'
  BY <1>1 DEF FlushConnects, Keeps, Inv, InFlight, TypeOK, EndpointTypes, ForwarderTypes,
              endpointVars
<1>2. CASE FlushUnreached \/ Interrupted \/ Wake
  <2>1. Keeps /\ TypeOK'
    BY <1>2 DEF FlushUnreached, Interrupted, Wake, Keeps, Inv, InFlight, TypeOK,
                EndpointTypes, ForwarderTypes, endpointVars
  <2> QED BY <2>1, KeepsInv
<1>3. CASE Request
  <2>1. Keeps /\ TypeOK'
    BY <1>3 DEF Request, Keeps, Inv, InFlight, TypeOK, EndpointTypes, ForwarderTypes,
                endpointVars
  <2> QED BY <2>1, KeepsInv
<1>4. CASE FlushEnds
  <2>1. Keeps /\ TypeOK'
    BY <1>4 DEF FlushEnds, Keeps, Inv, InFlight, TypeOK, EndpointTypes, ForwarderTypes,
                endpointVars
  <2> QED BY <2>1, KeepsInv
<1> QED BY <1>1, <1>2, <1>3, <1>4, KeepsInv, DrainKeepsInv, ReceiveKeepsInv,
           SettleKeepsInv DEF Worker

LEMMA NextKeepsInv == Inv /\ [Next]_vars => Inv'
<1> SUFFICES ASSUME Inv, [Next]_vars PROVE Inv'
  OBVIOUS
<1>0. EndpointTypes
  BY DEF Inv, TypeOK
<1>1. ASSUME NEW d \in Daemons, Killed(d) PROVE Inv'
  <2>1. EndpointTypes' /\ phase'[d] = "gone"
        /\ \A e \in Daemons : phase'[e] # "gone" => phase[e] # "gone"
    BY <1>0, <1>1, CrashKeepsEndpoint DEF Killed
  <2>2. /\ UNCHANGED <<pushed, chan, pending, worker, applied, settled>>
        /\ link' = IF link = d THEN None ELSE link
        /\ \/ asked' = asked /\ (link = d => asked # "written")
           \/ asked' = "no" /\ link = d
    <3>1. asked \in {"no", "written", "ok", "refused"}
      BY DEF Inv, TypeOK, ForwarderTypes
    <3>2. /\ UNCHANGED <<pushed, chan, pending, worker, applied, settled>>
          /\ link' = IF link = d THEN None ELSE link
          /\ asked' \in IF link = d THEN {"no"} \cup ({asked} \cap {"ok", "refused"})
                        ELSE {asked}
      BY <1>1, Zenon DEF Killed
    <3> QED BY <3>1, <3>2
  <2>3. TypeOK'
    BY <2>1, <2>2 DEF Inv, TypeOK, ForwarderTypes
  <2>4. Keeps
    BY <2>1, <2>2 DEF Keeps, Inv, InFlight
  <2> QED BY <2>3, <2>4, KeepsInv
<1>2. ASSUME NEW d \in Daemons, StartStep(d), UNCHANGED forwarderVars PROVE Inv'
  <2>1. EndpointTypes' /\ \A e \in Daemons : phase'[e] # "gone" => phase[e] # "gone"
    BY <1>0, <1>2, StartKeepsEndpoint
  <2>2. Keeps /\ TypeOK'
    BY <1>2, <2>1 DEF Keeps, Inv, InFlight, TypeOK, ForwarderTypes, forwarderVars
  <2> QED BY <2>2, KeepsInv
<1>3. ASSUME NEW c \in Callers, CallerStep(c), UNCHANGED forwarderVars PROVE Inv'
  <2>1. EndpointTypes' /\ \A e \in Daemons : phase'[e] # "gone" => phase[e] # "gone"
    BY <1>0, <1>3, CallKeepsEndpoint
  <2>2. Keeps /\ TypeOK'
    BY <1>3, <2>1 DEF Keeps, Inv, InFlight, TypeOK, ForwarderTypes, forwarderVars
  <2> QED BY <2>2, KeepsInv
<1>4. CASE UNCHANGED vars
  <2>1. Keeps /\ TypeOK'
    BY <1>4 DEF Keeps, Inv, InFlight, TypeOK, EndpointTypes, ForwarderTypes, vars,
                endpointVars, forwarderVars
  <2> QED BY <2>1, KeepsInv
<1> QED BY <1>1, <1>2, <1>3, <1>4, PushKeepsInv, WorkerKeepsInv, HandleKeepsInv
        DEF Next, Starting, Calling

LEMMA InitInv == Init => Inv
<1> SUFFICES ASSUME Init PROVE Inv
  OBVIOUS
<1>1. EndpointTypes
  BY EndpointAssumption DEF Init, EndpointInit, EndpointTypes, Phases
<1>2. /\ pushed = 0 /\ Len(chan) = 0 /\ Len(pending) = 0
      /\ chan \in Seq(Items) /\ pending \in Seq(Items)
      /\ \A d \in Daemons : applied[d] = <<>>
      /\ applied \in [Daemons -> Seq(Items)]
  BY EmptySeq DEF Init
<1>3. Base = 0
  BY <1>2 DEF Base
<1>4. TypeOK
  BY <1>1, <1>2, ForwarderAssumption DEF Init, TypeOK, ForwarderTypes
<1>5. Fates
  BY <1>3 DEF Init, Fates
<1> QED BY <1>2, <1>3, <1>4, <1>5
        DEF Init, Inv, Backlog, InFlight, AppliedByLiving, AppliedInOrder

THEOREM AlwaysInv == Spec => []Inv
<1>1. Init => Inv
  BY InitInv
<1>2. Inv /\ [Next]_vars => Inv'
  BY NextKeepsInv
<1> QED BY <1>1, <1>2, PTL DEF Spec

(***************************************************************************)
(* The theorems.                                                           *)
(***************************************************************************)

\* Every variable of the endpoint and of the forwarder keeps its type.
THEOREM TypeCorrect == Spec => []TypeOK
<1>1. Inv => TypeOK
  BY DEF Inv
<1> QED BY <1>1, AlwaysInv, PTL

\* No daemon applies an item twice or after a later one, whatever is killed
\* and however often an item is sent again (forwarder.rs, flush).
THEOREM DaemonsApplyInOrder == Spec => []AppliedInOrder
<1>1. Inv => AppliedInOrder
  BY DEF Inv
<1> QED BY <1>1, AlwaysInv, PTL

\* Every item waits or met one fate, the waiting ones are the newest, and an
\* acknowledged one was applied (forwarder.rs, drain_and_cap, flush).
THEOREM ItemsAccounted == Spec => []Accounted
<1>1. Inv => Accounted
  <2> SUFFICES ASSUME Inv PROVE Accounted
    OBVIOUS
  <2>1. Waiting = (Base + 1)..pushed /\ Base \in Nat /\ pushed \in Nat /\ Base <= pushed
    <3>1. /\ Len(pending) \in Nat /\ Len(chan) \in Nat /\ pushed \in Nat
      BY LenProperties DEF Inv, TypeOK, ForwarderTypes
    <3> QED BY <3>1, Numbers DEF Inv, Backlog
  <2>2. 1..Base \cup (Base + 1)..pushed = 1..pushed
    BY <2>1
  <2>3. DOMAIN settled = {"acked", "refused", "dropped"}
    BY DEF Inv, TypeOK, ForwarderTypes
  <2>4. \A f \in DOMAIN settled : settled[f] \subseteq 1..Base
    BY <2>3 DEF Inv, Fates
  <2>5. \A f \in DOMAIN settled : \A i \in settled[f], j \in Waiting : i < j
    BY <2>1, <2>4
  <2> QED BY <2>1, <2>2, <2>5 DEF Inv, Fates, Accounted
<1> QED BY <1>1, AlwaysInv, PTL

-----------------------------------------------------------------------------
(***************************************************************************)
(* A connection: what the client, the server's tasks and the two queues    *)
(* hold.                                                                   *)
(***************************************************************************)
\* Types: with cancel, which the client makes only through CancelOwnStream.
CallKinds == DOMAIN Plain \cup Streams \cup {"rime", "cancel"}
FrameKinds == DOMAIN Tag
CallSet == [kind : CallKinds, id : Nat, number : Nat,
            at : {"none", "rest", "answer", "started", "events"}]
PieceSet == [part : {"whole", "head", "rest"}, kind : CallKinds, id : Nat, number : Nat]
FrameSet == [id : Nat, tag : 2..8, done : BOOLEAN, kind : FrameKinds, number : Nat]
TaskSet == [number : Nat, kind : CallKinds, id : Nat, sent : Nat, over : BOOLEAN]
ResultSet == [kind : CallKinds, id : Nat,
              verdict : {"ok", "error", "closed", "timeout"},
              from : Nat, frame : FrameKinds \cup {"none", "abandoned"}]

\* The answers on their way to the client, the oldest first.
Flow == down \o out
\* handle_list_models cannot return before it has answered.
HandlersAnswer == ClientBuilds \/ "list_models" \notin Kinds

\* The handlers that may still write.
Live == {t \in tasks : ~t.over}
InCall == call.at # "none"

ConnectionTypes ==
    /\ call \in CallSet /\ call.kind \in Kinds \cup {"ping", "cancel"}
    /\ next_id \in Nat
    /\ pending_events = <<>>
    /\ up \in Seq(PieceSet)
    /\ reader \in {"start", "body", "lost", "done"}
    /\ tasks \subseteq TaskSet
    /\ out \in Seq(FrameSet) /\ down \in Seq(FrameSet)
    /\ wire \in {"open", "closed", "gone"}
    /\ results \in Seq(ResultSet)
    /\ served \subseteq Nat

\* A client between two calls has an idle connection or none; the server
\* closes one only when no handler is at work and nothing waits to be written.
Numbering ==
    /\ InCall => wire # "gone" /\ call.number = Len(results) + 1
    /\ \A n \in served : n \in 1..Len(results) \/ (InCall /\ n = call.number)
    /\ wire = "closed" => tasks = {} /\ out = <<>>
    /\ wire # "gone" /\ ~InCall => up = <<>> /\ Flow = <<>> /\ Live = {}

\* A call that is not llm_cancel, and what belongs to it.
Asking == InCall /\ call.kind # "cancel"
Asked(x, c) == x.kind = c.kind /\ x.id = c.id /\ x.number = c.number

\* A frame the handler of call c may write.
Expected(f, c) ==
    /\ f.id = c.id /\ f.number = c.number /\ f.tag = Tag[f.kind]
    /\ c.kind \in DOMAIN Plain => f.kind \in {Plain[c.kind], "Error"}
    /\ c.kind = "rime" => f.kind \in {"Ok", "Error"} \/ (f.kind = "Candidates" /\ f.done)
    /\ c.kind = "generate" => f.kind \in {"Ok", "Chunk", "Final", "Error"}
    /\ c.kind = "candidates" => f.kind \in {"Ok", "Candidates", "Error"}

\* The frame after which a handler of this kind writes nothing.
LastKind(kind, f) ==
    \/ kind \in DOMAIN Plain
    \/ f.kind = "Error"
    \/ kind = "generate" /\ f.kind = "Final"
    \/ kind \in {"rime", "candidates"} /\ f.kind = "Candidates" /\ f.done

\* Until the request has been read whole nobody works for it and nothing is
\* in flight; only a large one may wait for its second piece.
RequestOnItsWay ==
    Asking =>
        /\ \A i \in 1..Len(up) : Asked(up[i], call)
                /\ (up[i].part # "head" => i = Len(up) /\ call.at # "rest")
        /\ call.number \notin served =>
              Flow = <<>> /\ Live = {} /\ call.at \in {"rest", "answer"}
        /\ call.number \in served => up = <<>> /\ call.at # "rest"
        /\ call.at \in {"started", "events"} => call.kind \in Streams
        /\ call.at = "rest" => call.kind \in Large

\* One handler at most, and its frames, in order: a last one has nothing
\* behind it and nobody writing, and Ok comes first in a stream, alone.
AnswerOnItsWay ==
    Asking /\ call.number \in served =>
        /\ \A t \in Live : Asked(t, call)
        /\ \A t, u \in Live : t = u
        /\ \A i \in 1..Len(Flow) :
              /\ Expected(Flow[i], call)
              /\ LastKind(call.kind, Flow[i]) => i = Len(Flow) /\ Live = {}
        /\ Live # {} \/ (Flow # <<>> /\ LastKind(call.kind, Flow[Len(Flow)]))
              \/ ~HandlersAnswer
        /\ call.kind \in Streams =>
              /\ \A i \in 1..Len(Flow) :
                    Flow[i].kind = "Ok" <=> (i = 1 /\ call.at = "answer")
              /\ \A t \in Live : t.sent = 0 <=> (call.at = "answer" /\ Flow = <<>>)

\* llm_cancel shares the stream's id: any of its frames will do.
CancelOnItsWay ==
    InCall /\ call.kind = "cancel" =>
        /\ call.at = "answer"
        /\ \A i \in 1..Len(up) : Asked(up[i], call)
        /\ call.number \in served =>
              \/ \E t \in Live : Asked(t, call)
              \/ \E i \in 1..Len(Flow) : Flow[i].id = call.id

ConnectionInv ==
    /\ ConnectionTypes /\ Numbering
    /\ RequestOnItsWay /\ AnswerOnItsWay /\ CancelOnItsWay
    /\ OwnAnswer /\ (HandlersAnswer => ClosedUnserved)

(***************************************************************************)
(* Frames in flight.                                                       *)
(***************************************************************************)
LEMMA FlowMoves ==
    ASSUME NEW S, NEW d \in Seq(S), NEW o \in Seq(S), o # <<>>
    PROVE  /\ Append(d, Head(o)) \in Seq(S) /\ Tail(o) \in Seq(S)
           /\ Append(d, Head(o)) \o Tail(o) = d \o o
<1>1. Head(o) \in S /\ Tail(o) \in Seq(S) /\ Len(Tail(o)) = Len(o) - 1
      /\ Len(o) \in Nat \ {0} /\ Head(o) = o[1]
      /\ \A i \in 1..Len(Tail(o)) : Tail(o)[i] = o[i + 1]
  BY HeadTailProperties, EmptySeq
<1>2. /\ Append(d, Head(o)) \in Seq(S) /\ Len(d) \in Nat
      /\ Len(Append(d, Head(o))) = Len(d) + 1
      /\ \A i \in 1..(Len(d) + 1) :
            Append(d, Head(o))[i] = IF i = Len(d) + 1 THEN Head(o) ELSE d[i]
  BY <1>1, AppendProperties, LenProperties
<1> DEFINE a == Append(d, Head(o)) \o Tail(o)
           b == d \o o
<1>3. a \in Seq(S) /\ b \in Seq(S) /\ Len(a) = Len(b) /\ Len(b) = Len(d) + Len(o)
  BY <1>1, <1>2, ConcatProperties
<1>4. ASSUME NEW i \in 1..Len(a) PROVE a[i] = b[i]
  <2>1. a[i] = IF i <= Len(d) + 1 THEN Append(d, Head(o))[i] ELSE Tail(o)[i - (Len(d) + 1)]
    BY <1>1, <1>2, <1>3, <1>4, ConcatProperties
  <2>2. b[i] = IF i <= Len(d) THEN d[i] ELSE o[i - Len(d)]
    BY <1>1, <1>2, <1>3, <1>4, ConcatProperties
  <2>3. CASE i <= Len(d)
    BY <2>1, <2>2, <2>3, <1>2
  <2>4. CASE i = Len(d) + 1
    BY <2>1, <2>2, <2>4, <1>1, <1>2
  <2>5. CASE i > Len(d) + 1
    <3>1. i - (Len(d) + 1) \in 1..Len(Tail(o))
      BY <2>5, <1>1, <1>2, <1>3
    <3>2. Tail(o)[i - (Len(d) + 1)] = o[i - Len(d)]
      BY <3>1, <1>1, <1>2
    <3> QED  BY <2>1, <2>2, <2>5, <3>2, <1>2
  <2> QED  BY <2>3, <2>4, <2>5, <1>2, <1>3
<1>5. a = b
  BY <1>3, <1>4, SeqEqual
<1> QED  BY <1>1, <1>2, <1>5

\* new is old with one more element, x.
Longer(new, old, x) ==
    /\ Len(old) \in Nat /\ Len(new) = Len(old) + 1
    /\ \A i \in 1..(Len(old) + 1) : new[i] = IF i = Len(old) + 1 THEN x ELSE old[i]

LEMMA FlowGrows ==
    ASSUME NEW S, NEW d \in Seq(S), NEW o \in Seq(S), NEW f \in S
    PROVE  /\ Append(o, f) \in Seq(S)
           /\ d \o Append(o, f) \in Seq(S)
           /\ Longer(d \o Append(o, f), d \o o, f)
<1>1. /\ Append(o, f) \in Seq(S) /\ Len(Append(o, f)) = Len(o) + 1
      /\ \A i \in 1..(Len(o) + 1) : Append(o, f)[i] = IF i = Len(o) + 1 THEN f ELSE o[i]
      /\ Len(o) \in Nat /\ Len(d) \in Nat
  BY AppendProperties, LenProperties
<1>2. /\ d \o Append(o, f) \in Seq(S) /\ d \o o \in Seq(S)
      /\ Len(d \o Append(o, f)) = Len(d) + Len(o) + 1
      /\ Len(d \o o) = Len(d) + Len(o)
  BY <1>1, ConcatProperties
<1>3. ASSUME NEW i \in 1..(Len(d \o o) + 1)
      PROVE  (d \o Append(o, f))[i] = IF i = Len(d \o o) + 1 THEN f ELSE (d \o o)[i]
  <2>1. (d \o Append(o, f))[i] = IF i <= Len(d) THEN d[i] ELSE Append(o, f)[i - Len(d)]
    <3>1. i \in 1..(Len(d) + Len(Append(o, f)))
      BY <1>1, <1>2
    <3> QED  BY <3>1, <1>1, ConcatProperties
  <2>2. i \in 1..Len(d \o o) => (d \o o)[i] = IF i <= Len(d) THEN d[i] ELSE o[i - Len(d)]
    BY <1>1, <1>2, ConcatProperties
  <2>3. i > Len(d) => i - Len(d) \in 1..(Len(o) + 1)
    BY <1>1, <1>2
  <2> QED  BY <2>1, <2>2, <2>3, <1>1, <1>2
<1> QED  BY <1>1, <1>2, <1>3 DEF Longer

LEMMA FlowTaken ==
    ASSUME NEW S, NEW d \in Seq(S), NEW o \in Seq(S), d # <<>>
    PROVE  /\ Tail(d) \in Seq(S) /\ Head(d) \in S
           /\ Len(d \o o) \in Nat \ {0} /\ (d \o o)[1] = Head(d)
           /\ Tail(d) \o o \in Seq(S)
           /\ Len(Tail(d) \o o) = Len(d \o o) - 1
           /\ \A i \in 1..Len(Tail(d) \o o) : (Tail(d) \o o)[i] = (d \o o)[i + 1]
<1>1. /\ Head(d) \in S /\ Tail(d) \in Seq(S) /\ Len(Tail(d)) = Len(d) - 1
      /\ Len(d) \in Nat \ {0} /\ Head(d) = d[1] /\ Len(o) \in Nat
      /\ \A i \in 1..Len(Tail(d)) : Tail(d)[i] = d[i + 1]
  BY HeadTailProperties, EmptySeq, LenProperties
<1>2. /\ Tail(d) \o o \in Seq(S) /\ d \o o \in Seq(S)
      /\ Len(Tail(d) \o o) = Len(d) - 1 + Len(o) /\ Len(d \o o) = Len(d) + Len(o)
  BY <1>1, ConcatProperties
<1>3. (d \o o)[1] = Head(d)
  BY <1>1, <1>2, ConcatProperties
<1>4. ASSUME NEW i \in 1..Len(Tail(d) \o o) PROVE (Tail(d) \o o)[i] = (d \o o)[i + 1]
  <2>1. (Tail(d) \o o)[i] = IF i <= Len(d) - 1 THEN Tail(d)[i] ELSE o[i - (Len(d) - 1)]
    BY <1>1, <1>2, ConcatProperties
  <2>2. i + 1 \in 1..Len(d \o o)
    BY <1>1, <1>2
  <2>3. (d \o o)[i + 1] = IF i + 1 <= Len(d) THEN d[i + 1] ELSE o[i + 1 - Len(d)]
    BY <1>1, <1>2, <2>2, ConcatProperties
  <2>4. i <= Len(d) - 1 => Tail(d)[i] = d[i + 1]
    BY <1>1, <1>2
  <2>5. i - (Len(d) - 1) = i + 1 - Len(d)
    BY <1>1, <1>2
  <2> QED  BY <2>1, <2>3, <2>4, <2>5, <1>1, <1>2
<1> QED  BY <1>1, <1>2, <1>3, <1>4

(***************************************************************************)
(* What a frame decodes as, and what a task may write.                     *)
(***************************************************************************)
LEMMA Codes ==
    /\ FrameKinds = {"Pong", "Ok", "Error", "Text", "Config", "Audio", "ModelList",
                     "Chunk", "Final", "Candidates"}
    /\ \A k \in FrameKinds : Tag[k] \in 2..8
    /\ DOMAIN Plain = {"ping", "get_config", "set_config", "set_mode", "set_api_key",
                       "rime_install_extra", "append", "session_end", "tts", "ocr",
                       "asr", "list_models"}
BY DEF FrameKinds, Tag, Plain

LEMMA PlainCodes ==
    \A kind \in DOMAIN Plain :
        /\ Plain[kind] \in FrameKinds
        /\ AsResponse[Tag[Plain[kind]]] = Plain[kind]
        /\ AsResponse[Tag["Error"]] # Plain[kind]
        /\ kind \notin Streams /\ kind \notin {"rime", "cancel"}
BY Codes DEF Plain, AsResponse, Tag, Streams

LEMMA EventCodes ==
    /\ AsEvent[Tag["Error"]] = "Error" /\ AsEvent[Tag["Ok"]] = "Final"
    /\ AsEvent[Tag["Chunk"]] = "Chunk" /\ AsEvent[Tag["Final"]] = "Final"
    /\ AsEvent[Tag["Candidates"]] = "Candidates"
    /\ AsResponse[Tag["Ok"]] = "Ok"
BY DEF AsEvent, AsResponse, Tag

LEMMA FlowTypes ==
    ASSUME ConnectionTypes
    PROVE  /\ Flow \in Seq(FrameSet) /\ Len(Flow) \in Nat
           /\ \A i \in 1..Len(Flow) : Flow[i] \in FrameSet
           /\ Flow = <<>> <=> Len(Flow) = 0
           /\ Flow = <<>> <=> down = <<>> /\ out = <<>>
<1>1. down \in Seq(FrameSet) /\ out \in Seq(FrameSet)
  BY DEF ConnectionTypes
<1>2. Flow \in Seq(FrameSet)
  BY <1>1, ConcatProperties DEF Flow
<1>3. Flow = <<>> <=> down = <<>> /\ out = <<>>
  BY <1>1, ConcatEqualIffEmpty DEF Flow
<1> QED  BY <1>2, <1>3, LenProperties, ElementOfSeq, EmptySeq

(***************************************************************************)
(* A call ends.                                                            *)
(***************************************************************************)
LEMMA ResultAdded ==
    ASSUME ConnectionInv, NEW r \in ResultSet, results' = Append(results, r),
           UNCHANGED served,
           r.verdict \in {"ok", "error"} /\ r.kind # "cancel" => r.from = Len(results) + 1,
           r.verdict = "error" => r.frame = "Error",
           r.verdict = "ok" /\ r.kind \in DOMAIN Plain => r.frame = Plain[r.kind],
           r.verdict = "ok" /\ r.kind = "rime" => r.frame = "Candidates",
           HandlersAnswer /\ r.verdict = "closed" => Len(results) + 1 \notin served
    PROVE  /\ results' \in Seq(ResultSet) /\ Len(results') = Len(results) + 1
           /\ OwnAnswer' /\ (HandlersAnswer => ClosedUnserved')
<1>1. results \in Seq(ResultSet) /\ Len(results) \in Nat /\ DOMAIN results = 1..Len(results)
  BY LenProperties DEF ConnectionInv, ConnectionTypes
<1>2. /\ results' \in Seq(ResultSet) /\ Len(results') = Len(results) + 1
      /\ \A i \in 1..(Len(results) + 1) :
            results'[i] = IF i = Len(results) + 1 THEN r ELSE results[i]
  BY <1>1, AppendProperties
<1>3. DOMAIN results' = 1..(Len(results) + 1)
  BY <1>2, LenProperties
<1>4. OwnAnswer'
  <2> SUFFICES ASSUME NEW i \in 1..(Len(results) + 1)
               PROVE  LET q == results'[i] IN
                      /\ q.verdict \in {"ok", "error"} /\ q.kind # "cancel" => q.from = i
                      /\ q.verdict = "error" => q.frame = "Error"
                      /\ q.verdict = "ok" /\ q.kind \in DOMAIN Plain => q.frame = Plain[q.kind]
                      /\ q.verdict = "ok" /\ q.kind = "rime" => q.frame = "Candidates"
    BY <1>3 DEF OwnAnswer
  <2>1. CASE i = Len(results) + 1
    BY <2>1, <1>2
  <2>2. CASE i # Len(results) + 1
    <3>1. i \in DOMAIN results /\ results'[i] = results[i]
      BY <2>2, <1>1, <1>2
    <3> QED  BY <3>1 DEF ConnectionInv, OwnAnswer
  <2> QED  BY <2>1, <2>2
<1>5. HandlersAnswer => ClosedUnserved'
  <2> SUFFICES ASSUME HandlersAnswer,
                      NEW i \in 1..(Len(results) + 1), results'[i].verdict = "closed"
               PROVE  i \notin served
    BY <1>3 DEF ClosedUnserved
  <2>1. CASE i = Len(results) + 1
    BY <2>1, <1>2
  <2>2. CASE i # Len(results) + 1
    <3>1. i \in DOMAIN results /\ results'[i] = results[i]
      BY <2>2, <1>1, <1>2
    <3> QED  BY <3>1 DEF ConnectionInv, ClosedUnserved
  <2> QED  BY <2>1, <2>2
<1> QED  BY <1>2, <1>4, <1>5

LEMMA IdleType ==
    /\ Idle \in CallSet /\ Idle.kind = "ping"
    /\ Idle.at = "none"
BY Codes DEF Idle, CallKinds, CallSet

LEMMA Returned ==
    ASSUME ConnectionInv, InCall,
           NEW verdict \in {"ok", "error", "closed", "timeout"}, NEW from,
           from.number \in Nat, from.kind \in FrameKinds \cup {"none"},
           Return(verdict, from),
           verdict \in {"ok", "error"} /\ call.kind # "cancel" => from.number = call.number,
           verdict = "error" => from.kind = "Error",
           verdict = "ok" /\ call.kind \in DOMAIN Plain => from.kind = Plain[call.kind],
           verdict = "ok" /\ call.kind = "rime" => from.kind = "Candidates",
           HandlersAnswer /\ verdict = "closed" => call.number \notin served,
           UNCHANGED <<next_id, serverVars, up>>,
           pending_events' = <<>>, down' \in Seq(FrameSet),
           verdict = "ok" /\ call.kind # "cancel" => up = <<>> /\ Flow' = <<>> /\ Live = {}
    PROVE  ConnectionInv'
<1> DEFINE r == [kind |-> call.kind, id |-> call.id, verdict |-> verdict,
                 from |-> from.number, frame |-> from.kind]
<1>1. /\ results' = Append(results, r) /\ call' = Idle
      /\ wire' = IF verdict = "ok" /\ call.kind # "cancel" THEN wire ELSE "gone"
      /\ UNCHANGED <<reader, tasks, out, served>>
  BY DEF Return, serverVars
<1>2. /\ call \in CallSet
      /\ call.number = Len(results) + 1
  BY DEF ConnectionInv, ConnectionTypes, Numbering, InCall
<1>3. r \in ResultSet
  BY <1>2 DEF ResultSet, CallSet
<1>4. /\ results' \in Seq(ResultSet) /\ Len(results') = Len(results) + 1
      /\ OwnAnswer' /\ (HandlersAnswer => ClosedUnserved')
  <2> HIDE DEF r
  <2>1. /\ r.kind = call.kind /\ r.verdict = verdict
        /\ r.from = from.number /\ r.frame = from.kind
    BY DEF r
  <2> QED  BY <1>1, <1>2, <1>3, <2>1, ResultAdded
<1>5. ConnectionTypes'
  <2>1. wire' \in {"open", "closed", "gone"}
    BY <1>1 DEF ConnectionInv, ConnectionTypes
  <2> QED  BY <1>1, <1>4, <2>1, IdleType DEF ConnectionInv, ConnectionTypes
<1>6. ~InCall' /\ ~Asking'
  BY <1>1, IdleType DEF InCall, Asking
<1>7. Numbering'
  <2>1. \A n \in served' : n \in 1..Len(results')
    <3>1. Len(results) \in Nat
      BY LenProperties DEF ConnectionInv, ConnectionTypes
    <3> QED  BY <1>1, <1>2, <1>4, <3>1 DEF ConnectionInv, Numbering
  <2>2. Live' = Live
    BY <1>1 DEF Live
  <2> QED  BY <1>1, <1>6, <2>1, <2>2 DEF ConnectionInv, Numbering
<1>8. RequestOnItsWay' /\ AnswerOnItsWay' /\ CancelOnItsWay'
  BY <1>6 DEF RequestOnItsWay, AnswerOnItsWay, CancelOnItsWay
<1> QED  BY <1>4, <1>5, <1>7, <1>8 DEF ConnectionInv

(***************************************************************************)
(* A call begins.                                                          *)
(***************************************************************************)
LEMMA PieceFacts ==
    ASSUME NEW c \in CallSet
    PROVE  /\ Pieces(c) \in Seq(PieceSet) /\ Len(Pieces(c)) \in {1, 2}
           /\ \A i \in 1..Len(Pieces(c)) :
                /\ Pieces(c)[i] \in PieceSet
                /\ Pieces(c)[i].kind = c.kind /\ Pieces(c)[i].id = c.id
                /\ Pieces(c)[i].number = c.number
                /\ Pieces(c)[i].part # "head" => i = Len(Pieces(c))
           /\ c.kind \in Large => Len(Pieces(c)) = 2 /\ Pieces(c)[1].part = "head"
           /\ c.kind \notin Large => Len(Pieces(c)) = 1
<1> DEFINE p(part) == [part |-> part, kind |-> c.kind, id |-> c.id, number |-> c.number]
<1>1. p("head") \in PieceSet /\ p("rest") \in PieceSet /\ p("whole") \in PieceSet
  BY DEF CallSet, PieceSet
<1>2. CASE c.kind \in Large
  <2>1. Pieces(c) = <<p("head"), p("rest")>>
    BY <1>2 DEF Pieces
  <2> QED  BY <2>1, <1>1, <1>2
<1>3. CASE c.kind \notin Large
  <2>1. Pieces(c) = <<p("whole")>>
    BY <1>3 DEF Pieces
  <2> QED  BY <2>1, <1>1, <1>3
<1> QED  BY <1>2, <1>3

LEMMA CallBegins ==
    ASSUME ConnectionInv, ~InCall, call' \in CallSet, call'.at \in {"rest", "answer"},
           call'.kind # "cancel", call'.number = Len(results) + 1,
           wire' = "open", Flow' = <<>>, Live' = {},
           \A i \in 1..Len(up') :
                /\ Asked(up'[i], call')
                /\ up'[i].part # "head" => i = Len(up') /\ call'.at # "rest",
           call'.at = "rest" => call'.kind \in Large,
           UNCHANGED <<results, served>>
    PROVE  Numbering' /\ RequestOnItsWay' /\ AnswerOnItsWay' /\ CancelOnItsWay'
<1>1. call'.number \notin served' /\ \A n \in served' : n \in 1..Len(results')
  <2>1. Len(results) \in Nat
    BY LenProperties DEF ConnectionInv, ConnectionTypes
  <2> QED  BY <2>1 DEF ConnectionInv, Numbering
<1>2. InCall' /\ Asking'
  BY DEF InCall, Asking
<1>3. Numbering'
  BY <1>1, <1>2 DEF Numbering
<1>4. RequestOnItsWay'
  <2>1. \A i \in 1..Len(up') : up'[i].part # "head" => i = Len(up') /\ call'.at # "rest"
    OBVIOUS
  <2>2. \A i \in 1..Len(up') : Asked(up'[i], call')
    OBVIOUS
  <2> QED  BY <1>1, <1>2, <2>1, <2>2 DEF RequestOnItsWay
<1> QED  BY <1>1, <1>2, <1>3, <1>4 DEF AnswerOnItsWay, CancelOnItsWay

LEMMA ConnectKeeps ==
    ASSUME ConnectionInv, ConnectVerified
    PROVE  ConnectionInv'
<1> DEFINE c == [kind |-> "ping", id |-> 1, number |-> Len(results) + 1, at |-> "answer"]
<1>1. /\ wire = "gone" /\ wire' = "open" /\ call' = c /\ up' = Pieces(c)
      /\ next_id' = 2 /\ pending_events' = <<>> /\ down' = <<>> /\ out' = <<>>
      /\ reader' = "start" /\ tasks' = {} /\ UNCHANGED <<results, served>>
  BY DEF ConnectVerified
<1>2. ~InCall
  BY <1>1 DEF ConnectionInv, Numbering
<1>3. c \in CallSet
  <2>1. Len(results) \in Nat
    BY LenProperties DEF ConnectionInv, ConnectionTypes
  <2> QED  BY <2>1, Codes DEF CallSet, CallKinds
<1>4. up' \in Seq(PieceSet)
      /\ \A i \in 1..Len(up') : Asked(up'[i], call') /\ (up'[i].part # "head" => i = Len(up'))
  BY <1>1, <1>3, PieceFacts DEF Asked
<1>5. Flow' = <<>> /\ Live' = {}
  BY <1>1, ConcatEmptySeq, EmptySeq DEF Flow, Live
<1>6. ConnectionTypes'
  BY <1>1, <1>3, <1>4, EmptySeq DEF ConnectionInv, ConnectionTypes
<1>7. Numbering' /\ RequestOnItsWay' /\ AnswerOnItsWay' /\ CancelOnItsWay'
  BY <1>1, <1>2, <1>3, <1>4, <1>5, CallBegins
<1>8. OwnAnswer' /\ (HandlersAnswer => ClosedUnserved')
  BY <1>1 DEF ConnectionInv, OwnAnswer, ClosedUnserved
<1> QED  BY <1>6, <1>7, <1>8 DEF ConnectionInv

LEMMA CallKeeps ==
    ASSUME ConnectionInv, NEW kind \in Kinds, Call(kind)
    PROVE  ConnectionInv'
<1> DEFINE c == [kind |-> kind, id |-> next_id, number |-> Len(results) + 1,
                 at |-> IF kind \in Large THEN "rest" ELSE "answer"]
<1>1. /\ wire = "open" /\ ~InCall /\ call' = c /\ up' = Append(up, Pieces(c)[1])
      /\ next_id' = next_id + 1
      /\ UNCHANGED <<pending_events, results, reader, tasks, out, served, down, wire>>
  BY DEF Call, Write, InCall, serverVars
<1>2. kind \in CallKinds /\ kind # "cancel"
  BY ConnectionAssumption, PlainCodes DEF CallKinds, Streams
<1>3. c \in CallSet
  <2>1. Len(results) \in Nat
    BY LenProperties DEF ConnectionInv, ConnectionTypes
  <2> QED  BY <2>1, <1>2 DEF CallSet, ConnectionInv, ConnectionTypes
<1>4. up = <<>> /\ Flow = <<>> /\ Live = {}
  BY <1>1 DEF ConnectionInv, Numbering
<1>5. c.kind = kind /\ (c.at = "rest" => kind \in Large) /\ (kind \in Large => c.at = "rest")
  OBVIOUS
<1>6. /\ up' = <<Pieces(c)[1]>> /\ Pieces(c)[1] \in PieceSet
      /\ Asked(Pieces(c)[1], c)
      /\ kind \in Large => Pieces(c)[1].part = "head"
  <2> HIDE DEF c
  <2>1. 1 \in 1..Len(Pieces(c))
    <3>1. Len(Pieces(c)) \in {1, 2}
      BY <1>3, PieceFacts
    <3> QED  BY <3>1
  <2>2. /\ Pieces(c)[1] \in PieceSet
        /\ Pieces(c)[1].kind = c.kind /\ Pieces(c)[1].id = c.id
        /\ Pieces(c)[1].number = c.number
    BY <1>3, <2>1, PieceFacts
  <2>3. c.kind \in Large => Pieces(c)[1].part = "head"
    BY <1>3, PieceFacts
  <2>4. up' = <<Pieces(c)[1]>>
    BY <1>1, <1>4
  <2> QED  BY <1>5, <2>2, <2>3, <2>4 DEF Asked
<1>7. /\ up' \in Seq(PieceSet) /\ Len(up') = 1
      /\ \A i \in 1..Len(up') :
            /\ Asked(up'[i], call')
            /\ up'[i].part # "head" => i = Len(up') /\ call'.at # "rest"
  <2> DEFINE q == Pieces(c)[1]
  <2>1. up' = <<q>> /\ q \in PieceSet /\ Asked(q, call') /\ (call'.at = "rest" => q.part = "head")
    BY <1>1, <1>6, <1>5
  <2> HIDE DEF q
  <2>2. Len(<<q>>) = 1 /\ <<q>>[1] = q /\ <<q>> \in Seq(PieceSet)
    BY <2>1
  <2> QED  BY <2>1, <2>2
<1>8. Flow' = Flow /\ Live' = Live
  BY <1>1 DEF Flow, Live
<1>9. ConnectionTypes'
  BY <1>1, <1>3, <1>7 DEF ConnectionInv, ConnectionTypes
<1>10. Numbering' /\ RequestOnItsWay' /\ AnswerOnItsWay' /\ CancelOnItsWay'
  BY <1>1, <1>2, <1>3, <1>4, <1>7, <1>8, CallBegins
<1>11. OwnAnswer' /\ (HandlersAnswer => ClosedUnserved')
  BY <1>1 DEF ConnectionInv, OwnAnswer, ClosedUnserved
<1> QED  BY <1>9, <1>10, <1>11 DEF ConnectionInv

LEMMA WriteRestKeeps ==
    ASSUME ConnectionInv, WriteRest
    PROVE  ConnectionInv'
<1>1. /\ wire = "open" /\ call.at = "rest" /\ call' = [call EXCEPT !.at = "answer"]
      /\ up' = Append(up, Pieces(call)[2])
      /\ UNCHANGED <<next_id, pending_events, results, reader, tasks, out, served, down, wire>>
  BY DEF WriteRest, serverVars
<1>2. call \in CallSet /\ up \in Seq(PieceSet) /\ InCall
  BY <1>1 DEF ConnectionInv, ConnectionTypes, InCall
<1>3. Asking
  BY <1>1, <1>2 DEF ConnectionInv, CancelOnItsWay, Asking
<1>4. call.kind \in Large /\ call.number \notin served /\ Flow = <<>> /\ Live = {}
  BY <1>1, <1>3 DEF ConnectionInv, RequestOnItsWay
<1> DEFINE p == Pieces(call)[2]
<1>5. /\ p \in PieceSet /\ p.kind = call.kind /\ p.id = call.id /\ p.number = call.number
  <2>1. Len(Pieces(call)) = 2
    BY <1>2, <1>4, PieceFacts
  <2> QED  BY <1>2, <2>1, PieceFacts
<1>6. /\ call' \in CallSet /\ call'.kind = call.kind /\ call'.id = call.id
      /\ call'.number = call.number /\ call'.at = "answer"
  BY <1>1, <1>2 DEF CallSet
<1>7. /\ up' \in Seq(PieceSet) /\ Len(up') = Len(up) + 1 /\ Len(up) \in Nat
      /\ \A i \in 1..Len(up') : up'[i] = IF i = Len(up) + 1 THEN p ELSE up[i]
  BY <1>1, <1>2, <1>5, AppendProperties, LenProperties
<1> HIDE DEF p
<1>8. /\ \A i \in 1..Len(up') : Asked(up'[i], call')
      /\ \A i \in 1..Len(up') : up'[i].part # "head" => i = Len(up')
  <2> SUFFICES ASSUME NEW i \in 1..Len(up')
               PROVE  Asked(up'[i], call') /\ (up'[i].part # "head" => i = Len(up'))
    OBVIOUS
  <2>1. CASE i = Len(up')
    BY <2>1, <1>5, <1>6, <1>7 DEF Asked
  <2>2. CASE i # Len(up')
    <3>1. i \in 1..Len(up) /\ up'[i] = up[i]
      BY <2>2, <1>7
    <3>2. Asked(up[i], call) /\ up[i].part = "head"
      BY <3>1, <1>1, <1>3 DEF ConnectionInv, RequestOnItsWay
    <3> QED  BY <3>1, <3>2, <1>6 DEF Asked
  <2> QED  BY <2>1, <2>2
<1>9. InCall' /\ Asking' /\ Flow' = Flow /\ Live' = Live
  BY <1>1, <1>3, <1>6 DEF InCall, Asking, Flow, Live
<1>10. ConnectionTypes'
  BY <1>1, <1>6, <1>7 DEF ConnectionInv, ConnectionTypes
<1>11. Numbering'
  BY <1>1, <1>2, <1>6, <1>9 DEF ConnectionInv, Numbering
<1>12. RequestOnItsWay'
  BY <1>1, <1>4, <1>6, <1>8, <1>9 DEF RequestOnItsWay
<1>13. AnswerOnItsWay' /\ CancelOnItsWay'
  BY <1>1, <1>4, <1>6, <1>9 DEF AnswerOnItsWay, CancelOnItsWay, Asking
<1>14. OwnAnswer' /\ (HandlersAnswer => ClosedUnserved')
  BY <1>1 DEF ConnectionInv, OwnAnswer, ClosedUnserved
<1> QED  BY <1>10, <1>11, <1>12, <1>13, <1>14 DEF ConnectionInv

(***************************************************************************)
(* Steps that leave the call, the frames in flight and the live handlers   *)
(* as they are.                                                            *)
(***************************************************************************)
LEMMA Kept ==
    ASSUME ConnectionInv, UNCHANGED <<call, results, served, up>>, Flow' = Flow, Live' = Live
    PROVE  /\ RequestOnItsWay' /\ AnswerOnItsWay' /\ CancelOnItsWay'
           /\ OwnAnswer' /\ (HandlersAnswer => ClosedUnserved')
           /\ InCall' = InCall
<1>1. InCall' = InCall /\ Asking' = Asking
  BY DEF InCall, Asking
<1>2. RequestOnItsWay'
  BY <1>1 DEF ConnectionInv, RequestOnItsWay
<1>3. AnswerOnItsWay'
  BY <1>1 DEF ConnectionInv, AnswerOnItsWay, Expected
<1>4. CancelOnItsWay'
  BY <1>1 DEF ConnectionInv, CancelOnItsWay
<1> QED  BY <1>1, <1>2, <1>3, <1>4 DEF ConnectionInv, OwnAnswer, ClosedUnserved

LEMMA QuietKeeps ==
    ASSUME ConnectionInv,
           \/ DropClient \/ IdleTimeout \/ WriteFrame \/ CloseWire
           \/ \E t \in tasks : HandlerReturns(t)
           \/ UNCHANGED connectionVars
    PROVE  ConnectionInv'
<1>1. CASE DropClient
  <2>1. /\ ~InCall /\ wire' = "gone"
        /\ UNCHANGED <<call, next_id, pending_events, results, reader, tasks, out, served, up, down>>
    BY <1>1 DEF DropClient, clientVars, serverVars, InCall
  <2>2. Flow' = Flow /\ Live' = Live
    BY <2>1 DEF Flow, Live
  <2>3. ConnectionTypes' /\ Numbering'
    BY <2>1, <2>2, Kept DEF ConnectionInv, ConnectionTypes, Numbering
  <2> QED  BY <2>1, <2>2, <2>3, Kept DEF ConnectionInv
<1>2. CASE IdleTimeout
  <2>1. /\ UNCHANGED <<call, next_id, pending_events, results, tasks, out, served, up, down, wire>>
        /\ reader' \in {"done", "start", "lost"}
    BY <1>2 DEF IdleTimeout, clientVars
  <2>2. Flow' = Flow /\ Live' = Live
    BY <2>1 DEF Flow, Live
  <2>3. ConnectionTypes' /\ Numbering'
    BY <2>1, <2>2, Kept DEF ConnectionInv, ConnectionTypes, Numbering
  <2> QED  BY <2>1, <2>2, <2>3, Kept DEF ConnectionInv
<1>3. CASE WriteFrame
  <2>1. /\ wire = "open" /\ out # <<>>
        /\ down' = Append(down, Head(out)) /\ out' = Tail(out)
        /\ UNCHANGED <<call, next_id, pending_events, results, reader, tasks, served, up, wire>>
    BY <1>3 DEF WriteFrame, clientVars
  <2>2. /\ down' \in Seq(FrameSet) /\ out' \in Seq(FrameSet) /\ Flow' = Flow
    BY <2>1, FlowMoves DEF ConnectionInv, ConnectionTypes, Flow
  <2>3. Live' = Live
    BY <2>1 DEF Live
  <2>4. ConnectionTypes' /\ Numbering'
    BY <2>1, <2>2, <2>3, Kept DEF ConnectionInv, ConnectionTypes, Numbering
  <2> QED  BY <2>1, <2>2, <2>3, <2>4, Kept DEF ConnectionInv
<1>4. CASE CloseWire
  <2>1. /\ wire = "open" /\ wire' = "closed" /\ tasks = {} /\ out = <<>>
        /\ UNCHANGED <<call, next_id, pending_events, results, reader, tasks, out, served, up, down>>
    BY <1>4 DEF CloseWire, clientVars, serverVars
  <2>2. Flow' = Flow /\ Live' = Live
    BY <2>1 DEF Flow, Live
  <2>3. ConnectionTypes' /\ Numbering'
    BY <2>1, <2>2, Kept DEF ConnectionInv, ConnectionTypes, Numbering
  <2> QED  BY <2>1, <2>2, <2>3, Kept DEF ConnectionInv
<1>5. ASSUME NEW t \in tasks, HandlerReturns(t) PROVE ConnectionInv'
  <2>1. /\ t.over /\ tasks' = tasks \ {t} /\ wire # "gone"
        /\ UNCHANGED <<call, next_id, pending_events, results, reader, out, served, up, down, wire>>
    BY <1>5 DEF HandlerReturns, clientVars
  <2>2. Flow' = Flow /\ Live' = Live
    BY <2>1 DEF Flow, Live
  <2>3. ConnectionTypes' /\ Numbering'
    BY <2>1, <2>2, Kept DEF ConnectionInv, ConnectionTypes, Numbering
  <2> QED  BY <2>1, <2>2, <2>3, Kept DEF ConnectionInv
<1>6. CASE UNCHANGED connectionVars
  <2>1. UNCHANGED <<call, next_id, pending_events, results, reader, tasks, out, served, up, down, wire>>
    BY <1>6 DEF connectionVars, clientVars, serverVars
  <2>2. Flow' = Flow /\ Live' = Live
    BY <2>1 DEF Flow, Live
  <2>3. ConnectionTypes' /\ Numbering'
    BY <2>1, <2>2, Kept DEF ConnectionInv, ConnectionTypes, Numbering
  <2> QED  BY <2>1, <2>2, <2>3, Kept DEF ConnectionInv
<1> QED  BY <1>1, <1>2, <1>3, <1>4, <1>5, <1>6

(***************************************************************************)
(* The client reads.                                                       *)
(***************************************************************************)
\* The frame the client reads next, while its call is not a cancellation.
LEMMA NextFrame ==
    ASSUME ConnectionInv, Asking, down # <<>>
    PROVE  /\ call.number \in served /\ up = <<>>
           /\ Head(down) \in FrameSet /\ Head(down) = Flow[1]
           /\ Len(Flow) \in Nat \ {0} /\ Expected(Head(down), call)
           /\ down' = Tail(down) /\ out' = out =>
                /\ down' \in Seq(FrameSet)
                /\ Len(Flow') = Len(Flow) - 1 /\ Flow' \in Seq(FrameSet)
                /\ \A i \in 1..Len(Flow') : Flow'[i] = Flow[i + 1]
                /\ Len(Flow) = 1 => Flow' = <<>>
           /\ LastKind(call.kind, Head(down)) => Len(Flow) = 1 /\ Live = {}
           /\ call.kind \in Streams => (Head(down).kind = "Ok" <=> call.at = "answer")
<1>1. down \in Seq(FrameSet) /\ out \in Seq(FrameSet)
  BY DEF ConnectionInv, ConnectionTypes
<1>2. /\ Tail(down) \in Seq(FrameSet) /\ Head(down) \in FrameSet
      /\ Len(Flow) \in Nat \ {0} /\ Flow[1] = Head(down)
      /\ Tail(down) \o out \in Seq(FrameSet)
      /\ Len(Tail(down) \o out) = Len(Flow) - 1
      /\ \A i \in 1..Len(Tail(down) \o out) : (Tail(down) \o out)[i] = Flow[i + 1]
  BY <1>1, FlowTaken DEF Flow
<1>3. ASSUME down' = Tail(down), out' = out
      PROVE  /\ down' \in Seq(FrameSet)
             /\ Len(Flow') = Len(Flow) - 1 /\ Flow' \in Seq(FrameSet)
             /\ \A i \in 1..Len(Flow') : Flow'[i] = Flow[i + 1]
             /\ Len(Flow) = 1 => Flow' = <<>>
  <2>1. Flow' = Tail(down) \o out
    BY <1>3 DEF Flow
  <2>2. Flow' \in Seq(FrameSet) /\ Len(Flow') = Len(Flow) - 1
    BY <2>1, <1>2
  <2>3. Len(Flow) = 1 => Flow' = <<>>
    BY <2>2, EmptySeq
  <2> QED  BY <2>1, <2>2, <2>3, <1>2, <1>3
<1>4. call.number \in served /\ up = <<>>
  <2>1. Flow # <<>>
    BY <1>1, ConcatEqualIffEmpty DEF Flow
  <2> QED  BY <2>1 DEF ConnectionInv, RequestOnItsWay
<1>5. 1 \in 1..Len(Flow)
  BY <1>2
<1>6. /\ Expected(Flow[1], call)
      /\ LastKind(call.kind, Flow[1]) => 1 = Len(Flow) /\ Live = {}
      /\ call.kind \in Streams => (Flow[1].kind = "Ok" <=> call.at = "answer")
  BY <1>4, <1>5 DEF ConnectionInv, AnswerOnItsWay
<1> QED  BY <1>2, <1>3, <1>4, <1>6

\* A frame that does not end the call: it waits for the next one.
LEMMA ReadsOn ==
    ASSUME ConnectionInv, Asking, down # <<>>, down' = Tail(down),
           ~LastKind(call.kind, Head(down)),
           NEW at \in {"answer", "started", "events"}, call' = [call EXCEPT !.at = at],
           call.at # "rest",
           call.kind \in Streams <=> at # "answer",
           UNCHANGED <<next_id, pending_events, results, serverVars, up, wire>>
    PROVE  ConnectionInv'
<1>1. UNCHANGED <<reader, tasks, out, served>>
  BY DEF serverVars
<1>2. call \in CallSet /\ InCall /\ call.kind # "cancel"
  BY DEF ConnectionInv, ConnectionTypes, Asking
<1>3. /\ call' \in CallSet /\ call'.kind = call.kind /\ call'.id = call.id
      /\ call'.number = call.number /\ call'.at = at
  BY <1>2 DEF CallSet
<1>4. InCall' /\ Asking' /\ Live' = Live
  BY <1>1, <1>2, <1>3 DEF InCall, Asking, Live
<1>5. /\ call.number \in served /\ up = <<>>
      /\ Len(Flow) \in Nat \ {0} /\ Flow[1] = Head(down)
      /\ down' \in Seq(FrameSet)
      /\ Len(Flow') = Len(Flow) - 1 /\ Flow' \in Seq(FrameSet)
      /\ \A i \in 1..Len(Flow') : Flow'[i] = Flow[i + 1]
  BY <1>1, NextFrame
<1>6. ConnectionTypes'
  BY <1>1, <1>3, <1>5 DEF ConnectionInv, ConnectionTypes
<1>7. Numbering'
  <2>1. wire # "closed" \/ (tasks' = {} /\ out' = <<>>)
    BY <1>1 DEF ConnectionInv, Numbering
  <2> QED  BY <2>1, <1>1, <1>2, <1>3, <1>4 DEF ConnectionInv, Numbering
<1>8. RequestOnItsWay'
  <2>1. up' = <<>> /\ Len(up') = 0
    BY <1>5, EmptySeq
  <2>2. call'.number \in served' /\ call'.at # "rest"
    BY <1>1, <1>3, <1>5
  <2>3. call'.at \in {"started", "events"} => call'.kind \in Streams
    BY <1>3
  <2> QED  BY <2>1, <2>2, <2>3 DEF RequestOnItsWay
<1>9. AnswerOnItsWay'
  <2> DEFINE n == Len(Flow')
  <2>1. n \in Nat /\ n = Len(Flow) - 1
    BY <1>5
  <2>2. \A t \in Live' : Asked(t, call')
    BY <1>2, <1>3, <1>4, <1>5 DEF ConnectionInv, AnswerOnItsWay, Asked
  <2>3. \A t, u \in Live' : t = u
    BY <1>4, <1>5 DEF ConnectionInv, AnswerOnItsWay
  <2>4. ASSUME NEW i \in 1..n
        PROVE  /\ Expected(Flow'[i], call')
               /\ LastKind(call'.kind, Flow'[i]) => i = n /\ Live' = {}
               /\ call'.kind \in Streams => Flow'[i].kind # "Ok"
    <3>1. i + 1 \in 1..Len(Flow) /\ Flow'[i] = Flow[i + 1] /\ i + 1 # 1
      BY <2>1, <1>5
    <3>2. /\ Expected(Flow[i + 1], call)
          /\ LastKind(call.kind, Flow[i + 1]) => i + 1 = Len(Flow) /\ Live = {}
          /\ call.kind \in Streams => Flow[i + 1].kind # "Ok"
      BY <3>1, <1>5 DEF ConnectionInv, AnswerOnItsWay
    <3> QED  BY <3>1, <3>2, <2>1, <1>3, <1>4 DEF Expected
  <2>5. Live' # {} \/ (Flow' # <<>> /\ LastKind(call'.kind, Flow'[n])) \/ ~HandlersAnswer
    <3>1. CASE Live # {} \/ ~HandlersAnswer
      BY <3>1, <1>4
    <3>2. CASE Live = {} /\ HandlersAnswer
      <4>1. Flow # <<>> /\ LastKind(call.kind, Flow[Len(Flow)])
        BY <3>2, <1>5 DEF ConnectionInv, AnswerOnItsWay
      <4>2. Len(Flow) # 1
        BY <4>1, <1>5
      <4>3. n \in 1..n /\ Flow'[n] = Flow[Len(Flow)]
        <5>1. n \in 1..n /\ n + 1 = Len(Flow)
          BY <4>2, <1>5, <2>1
        <5> QED  BY <5>1, <1>5
      <4>4. Flow' # <<>>
        BY <4>2, <1>5, EmptySeq
      <4> QED  BY <4>1, <4>3, <4>4, <1>3
    <3> QED  BY <3>1, <3>2
  <2>6. call'.kind \in Streams => call'.at # "answer"
    BY <1>3
  <2>7. call.kind \in Streams => \A t \in Live : t.sent # 0
    <3>1. Flow # <<>>
      BY <1>5, EmptySeq
    <3> QED  BY <3>1, <1>5 DEF ConnectionInv, AnswerOnItsWay
  <2>8. call'.kind \in Streams =>
           /\ \A i \in 1..Len(Flow') :
                 Flow'[i].kind = "Ok" <=> (i = 1 /\ call'.at = "answer")
           /\ \A t \in Live' : t.sent = 0 <=> (call'.at = "answer" /\ Flow' = <<>>)
    BY <2>4, <2>6, <2>7, <1>3, <1>4
  <2> HIDE DEF n
  <2>9. \A i \in 1..Len(Flow') :
           /\ Expected(Flow'[i], call')
           /\ LastKind(call'.kind, Flow'[i]) => i = Len(Flow') /\ Live' = {}
    BY <2>4 DEF n
  <2> QED  BY <2>2, <2>3, <2>5, <2>8, <2>9 DEF AnswerOnItsWay, n
<1>10. CancelOnItsWay'
  BY <1>2, <1>3 DEF CancelOnItsWay
<1>11. OwnAnswer' /\ (HandlersAnswer => ClosedUnserved')
  BY <1>1 DEF ConnectionInv, OwnAnswer, ClosedUnserved
<1> QED  BY <1>6, <1>7, <1>8, <1>9, <1>10, <1>11 DEF ConnectionInv

LEMMA ReadAnswerKeeps ==
    ASSUME ConnectionInv, ReadAnswer
    PROVE  ConnectionInv'
<1> DEFINE f == Head(down)
<1>1. /\ wire # "gone" /\ call.at = "answer" /\ down # <<>> /\ down' = Tail(down)
      /\ UNCHANGED <<next_id, serverVars, up>>
      /\ \/ /\ ~Mine(f) /\ call.kind \in Strict
            /\ Return("error", f) /\ UNCHANGED pending_events
         \/ /\ ~Mine(f) /\ call.kind \notin Strict
            /\ pending_events' = IF call.kind = "rime" THEN Append(pending_events, f)
                                 ELSE pending_events
            /\ UNCHANGED <<call, results, wire>>
         \/ /\ Mine(f) /\ IsAnswer(f) /\ call.kind \in Streams
            /\ call' = [call EXCEPT !.at = "started"]
            /\ UNCHANGED <<pending_events, results, wire>>
         \/ /\ Mine(f) /\ IsAnswer(f) /\ call.kind \notin Streams
            /\ Return("ok", f) /\ UNCHANGED pending_events
         \/ /\ Mine(f) /\ ~IsAnswer(f) /\ PassedOver(f)
            /\ UNCHANGED <<call, pending_events, results, wire>>
         \/ /\ Mine(f) /\ ~IsAnswer(f) /\ ~PassedOver(f)
            /\ Return("error", f) /\ UNCHANGED pending_events
  BY DEF ReadAnswer
<1>2. /\ call \in CallSet /\ InCall /\ pending_events = <<>>
      /\ down \in Seq(FrameSet) /\ out \in Seq(FrameSet)
      /\ UNCHANGED <<reader, tasks, out, served>>
  BY <1>1 DEF ConnectionInv, ConnectionTypes, InCall, serverVars
<1>3. CASE call.kind = "cancel"
  <2>1. /\ call.kind \notin Strict /\ call.kind \notin Streams /\ call.kind # "rime"
        /\ call.kind # "list_models" /\ call.kind \notin DOMAIN Plain
        /\ IsAnswer(f)
    BY <1>3, Codes DEF Strict, Streams, IsAnswer
  <2>2. /\ f \in FrameSet /\ Tail(down) \in Seq(FrameSet)
        /\ Len(Flow) \in Nat \ {0} /\ Flow[1] = f
        /\ Len(Tail(down) \o out) = Len(Flow) - 1
        /\ \A i \in 1..Len(Tail(down) \o out) : (Tail(down) \o out)[i] = Flow[i + 1]
    BY <1>1, <1>2, FlowTaken DEF Flow
  <2>3. CASE Mine(f)
    <3>1. Return("ok", f) /\ pending_events' = <<>>
      BY <1>1, <1>2, <2>1, <2>3
    <3>2. f.number \in Nat /\ f.kind \in FrameKinds
      BY <2>2 DEF FrameSet
    <3> QED  BY <3>1, <3>2, <1>1, <1>2, <1>3, <2>1, <2>2, Returned
  <2>4. CASE ~Mine(f)
    <3>1. f.id # call.id /\ UNCHANGED <<call, results, wire, pending_events>>
      BY <1>1, <2>1, <2>4 DEF Mine
    <3>2. ConnectionTypes'
      BY <1>1, <1>2, <2>2, <3>1 DEF ConnectionInv, ConnectionTypes
    <3>3. InCall' /\ ~Asking' /\ Live' = Live
      BY <1>2, <1>3, <3>1 DEF InCall, Asking, Live
    <3>4. Numbering'
      <4>1. wire # "closed" \/ (tasks' = {} /\ out' = <<>>)
        BY <1>2 DEF ConnectionInv, Numbering
      <4> QED  BY <4>1, <1>1, <1>2, <3>1, <3>3 DEF ConnectionInv, Numbering
    <3>5. CancelOnItsWay'
      <4>1. ASSUME NEW i \in 1..Len(Flow), Flow[i].id = call.id
            PROVE  \E j \in 1..Len(Flow') : Flow'[j].id = call'.id
        <5>1. i # 1
          BY <4>1, <2>2, <3>1
        <5>2. Flow' = Tail(down) \o out
          BY <1>1, <1>2 DEF Flow
        <5>3. i - 1 \in 1..Len(Flow') /\ i - 1 + 1 = i
          BY <5>1, <5>2, <2>2
        <5>4. Flow'[i - 1] = Flow[i]
          BY <5>2, <5>3, <2>2
        <5> QED  BY <4>1, <5>3, <5>4, <3>1
      <4>2. /\ call'.at = "answer" /\ \A i \in 1..Len(up') : Asked(up'[i], call')
            /\ call'.number \in served' =>
                 \/ \E t \in Live : Asked(t, call)
                 \/ \E i \in 1..Len(Flow) : Flow[i].id = call.id
        BY <1>1, <1>2, <1>3, <3>1 DEF ConnectionInv, CancelOnItsWay
      <4> QED  BY <4>1, <4>2, <3>1, <3>3 DEF CancelOnItsWay
    <3>6. RequestOnItsWay' /\ AnswerOnItsWay'
      BY <3>3 DEF RequestOnItsWay, AnswerOnItsWay
    <3>7. OwnAnswer' /\ (HandlersAnswer => ClosedUnserved')
      BY <1>2, <3>1 DEF ConnectionInv, OwnAnswer, ClosedUnserved
    <3> QED  BY <3>2, <3>4, <3>5, <3>6, <3>7 DEF ConnectionInv
  <2> QED  BY <2>3, <2>4
<1>4. CASE call.kind # "cancel"
  <2>1. Asking
    BY <1>2, <1>4 DEF Asking
  <2>2. /\ call.number \in served /\ up = <<>>
        /\ f \in FrameSet /\ Expected(f, call) /\ down' \in Seq(FrameSet)
        /\ LastKind(call.kind, f) => Flow' = <<>> /\ Live = {}
        /\ call.kind \in Streams => f.kind = "Ok"
    <3>1. /\ f \in FrameSet /\ Expected(f, call) /\ call.number \in served /\ up = <<>>
          /\ call.kind \in Streams => f.kind = "Ok"
      BY <1>1, <2>1, NextFrame
    <3>2. /\ down' \in Seq(FrameSet) /\ (Len(Flow) = 1 => Flow' = <<>>)
          /\ LastKind(call.kind, f) => Len(Flow) = 1 /\ Live = {}
      BY <1>1, <1>2, <2>1, NextFrame
    <3> QED  BY <3>1, <3>2
  <2> HIDE DEF f
  <2>3. /\ f.kind \in FrameKinds /\ f.done \in BOOLEAN /\ f.number = call.number
        /\ f.number \in Nat /\ f.tag = Tag[f.kind] /\ f.id = call.id
    BY <2>2 DEF Expected, FrameSet
  <2>4. Mine(f)
    BY <2>3 DEF Mine
  <2>5. CASE call.kind \in DOMAIN Plain
    <3>1. /\ f.kind \in {Plain[call.kind], "Error"} /\ LastKind(call.kind, f)
          /\ call.kind \notin Streams /\ call.kind # "rime"
      BY <2>2, <2>5, PlainCodes DEF Expected, LastKind
    <3>2. /\ IsAnswer(f) <=> f.kind = Plain[call.kind]
          /\ ~PassedOver(f)
      BY <3>1, <2>3, <2>5, <1>4, PlainCodes DEF IsAnswer, PassedOver
    <3>3. CASE IsAnswer(f)
      <4>1. Return("ok", f) /\ pending_events' = <<>>
        BY <1>1, <1>2, <2>4, <3>1, <3>3
      <4> QED  BY <4>1, <1>1, <1>2, <2>2, <2>3, <3>1, <3>2, <3>3, Returned
    <3>4. CASE ~IsAnswer(f)
      <4>1. Return("error", f) /\ pending_events' = <<>> /\ f.kind = "Error"
        BY <1>1, <1>2, <2>4, <3>1, <3>2, <3>4
      <4> QED  BY <4>1, <1>1, <1>2, <2>2, <2>3, Returned
    <3> QED  BY <3>3, <3>4
  <2>6. CASE call.kind = "rime"
    <3>1. /\ f.kind \in {"Ok", "Error"} \/ (f.kind = "Candidates" /\ f.done)
          /\ call.kind \notin Streams /\ call.kind \notin DOMAIN Plain
      BY <2>2, <2>6, Codes DEF Expected, Streams
    <3>2. CASE f.kind = "Ok"
      <4>1. ~IsAnswer(f) /\ PassedOver(f) /\ ~LastKind(call.kind, f)
        BY <2>3, <2>6, <3>1, <3>2, EventCodes DEF IsAnswer, PassedOver, LastKind
      <4>2. UNCHANGED <<call, pending_events, results, wire>>
        BY <1>1, <2>4, <4>1
      <4>3. call' = [call EXCEPT !.at = "answer"]
        BY <4>2, <1>1, <1>2 DEF CallSet
      <4> QED  BY <4>1, <4>2, <4>3, <1>1, <2>1, <3>1, ReadsOn DEF f
    <3>3. CASE f.kind = "Error"
      <4>1. ~IsAnswer(f) /\ ~PassedOver(f) /\ LastKind(call.kind, f)
        BY <2>3, <2>6, <3>3, EventCodes DEF IsAnswer, PassedOver, LastKind
      <4>2. Return("error", f) /\ pending_events' = <<>>
        BY <1>1, <1>2, <2>4, <4>1
      <4> QED  BY <4>2, <1>1, <1>2, <2>2, <2>3, <3>3, Returned
    <3>4. CASE f.kind = "Candidates" /\ f.done
      <4>1. IsAnswer(f) /\ LastKind(call.kind, f)
        BY <2>3, <2>6, <3>4, EventCodes DEF IsAnswer, LastKind
      <4>2. Return("ok", f) /\ pending_events' = <<>>
        BY <1>1, <1>2, <2>4, <3>1, <4>1
      <4> QED  BY <4>1, <4>2, <1>1, <1>2, <2>2, <2>3, <3>1, <3>4, Returned
    <3> QED  BY <3>1, <3>2, <3>3, <3>4
  <2>7. CASE call.kind \in Streams
    <3>1. IsAnswer(f) /\ ~LastKind(call.kind, f)
      BY <2>2, <2>3, <2>7, <1>4, EventCodes, Codes DEF IsAnswer, LastKind, Streams
    <3>2. /\ call' = [call EXCEPT !.at = "started"]
          /\ UNCHANGED <<pending_events, results, wire>>
      BY <1>1, <2>4, <2>7, <3>1
    <3> QED  BY <3>1, <3>2, <1>1, <2>1, <2>7, ReadsOn DEF f
  <2> QED  BY <1>2, <1>4, <2>5, <2>6, <2>7 DEF CallSet, CallKinds
<1> QED  BY <1>3, <1>4

LEMMA NextEventKeeps ==
    ASSUME ConnectionInv, NextEvent
    PROVE  ConnectionInv'
<1> DEFINE f == Head(down)
<1>1. /\ wire # "gone" /\ call.at \in {"started", "events"}
      /\ UNCHANGED <<next_id, serverVars, up>>
      /\ call \in CallSet /\ InCall /\ pending_events = <<>>
      /\ UNCHANGED <<reader, tasks, out, served>>
  BY DEF NextEvent, ConnectionInv, ConnectionTypes, InCall, serverVars
<1>2. Asking /\ call.kind \in Streams
  BY <1>1 DEF ConnectionInv, CancelOnItsWay, RequestOnItsWay, Asking
<1>3. /\ down # <<>> /\ down' = Tail(down)
      /\ IF f.id = call.id
         THEN TakeEvent(f) /\ UNCHANGED pending_events
         ELSE /\ pending_events' = Append(pending_events, f)
              /\ UNCHANGED <<call, results, wire>>
  <2>1. DOMAIN pending_events = {}
    BY <1>1, EmptySeq
  <2> QED  BY <2>1 DEF NextEvent
<1>4. /\ f \in FrameSet /\ Expected(f, call) /\ down' \in Seq(FrameSet) /\ up = <<>>
      /\ LastKind(call.kind, f) => Flow' = <<>> /\ Live = {}
      /\ f.kind # "Ok"
  <2>1. /\ f \in FrameSet /\ Expected(f, call) /\ up = <<>>
        /\ call.kind \in Streams => (f.kind = "Ok" <=> call.at = "answer")
    BY <1>2, <1>3, NextFrame
  <2>2. /\ down' \in Seq(FrameSet) /\ (Len(Flow) = 1 => Flow' = <<>>)
        /\ LastKind(call.kind, f) => Len(Flow) = 1 /\ Live = {}
    BY <1>1, <1>2, <1>3, NextFrame
  <2> QED  BY <2>1, <2>2, <1>1, <1>2
<1> HIDE DEF f
<1>5. /\ f.kind \in FrameKinds /\ f.done \in BOOLEAN /\ f.number = call.number
      /\ f.number \in Nat /\ f.tag = Tag[f.kind] /\ f.id = call.id
  BY <1>4 DEF Expected, FrameSet
<1>6. /\ call.kind = "generate" => f.kind \in {"Chunk", "Final", "Error"}
      /\ call.kind = "candidates" => f.kind \in {"Candidates", "Error"}
      /\ call.kind \in {"generate", "candidates"}
  BY <1>2, <1>4 DEF Expected, Streams
<1>7. EndsStream(f) <=> LastKind(call.kind, f)
  BY <1>5, <1>6, EventCodes, Codes DEF EndsStream, LastKind
<1>8. TakeEvent(f) /\ pending_events' = <<>>
  BY <1>1, <1>3, <1>5
<1>9. CASE EndsStream(f)
  <2>1. Return(IF AsEvent[f.tag] = "Error" THEN "error" ELSE "ok", f)
    BY <1>8, <1>9 DEF TakeEvent
  <2>2. AsEvent[f.tag] = "Error" <=> f.kind = "Error"
    BY <1>5, <1>6, EventCodes
  <2>3. call.kind \notin DOMAIN Plain /\ call.kind # "rime" /\ call.kind # "cancel"
    BY <1>6, Codes
  <2>4. CASE f.kind = "Error"
    <3>1. Return("error", f)
      BY <2>1, <2>2, <2>4
    <3> QED  BY <3>1, <2>3, <2>4, <1>1, <1>4, <1>5, <1>8, Returned
  <2>5. CASE f.kind # "Error"
    <3>1. Return("ok", f)
      BY <2>1, <2>2, <2>5
    <3> QED  BY <3>1, <2>3, <2>5, <1>1, <1>4, <1>5, <1>7, <1>8, <1>9, Returned
  <2> QED  BY <2>4, <2>5
<1>10. CASE ~EndsStream(f)
  <2>1. call' = [call EXCEPT !.at = "events"] /\ UNCHANGED <<results, wire>>
    BY <1>8, <1>10 DEF TakeEvent
  <2> QED  BY <2>1, <1>1, <1>2, <1>3, <1>7, <1>8, <1>10, ReadsOn DEF f
<1> QED  BY <1>9, <1>10

LEMMA CancelOwnStreamKeeps ==
    ASSUME ConnectionInv, CancelOwnStream
    PROVE  ConnectionInv'
<1> DEFINE r == [kind |-> "generate", id |-> call.id, verdict |-> "ok",
                 from |-> call.number, frame |-> "abandoned"]
<1>1. /\ wire = "open" /\ call.at = "started" /\ call.kind = "generate"
      /\ call' = [call EXCEPT !.kind = "cancel", !.at = "answer", !.number = Len(results) + 2]
      /\ results' = Append(results, r) /\ up' = up \o Pieces(call')
      /\ UNCHANGED <<next_id, pending_events, reader, tasks, out, served, down, wire>>
  BY DEF CancelOwnStream, serverVars
<1>2. /\ call \in CallSet /\ InCall /\ Asking /\ up \in Seq(PieceSet)
      /\ call.number = Len(results) + 1 /\ Len(results) \in Nat
  BY <1>1, LenProperties DEF ConnectionInv, ConnectionTypes, Numbering, InCall, Asking
<1>3. /\ call' \in CallSet /\ call'.kind = "cancel" /\ call'.id = call.id
      /\ call'.at = "answer" /\ call'.number = Len(results) + 2
  <2>1. "cancel" \in CallKinds /\ Len(results) + 2 \in Nat
    BY <1>2 DEF CallKinds
  <2> QED  BY <1>1, <1>2, <2>1 DEF CallSet
<1>4. up = <<>>
  BY <1>1, <1>2 DEF ConnectionInv, RequestOnItsWay
<1>5. r \in ResultSet
  BY <1>2 DEF ResultSet, CallSet, CallKinds, Streams
<1>6. /\ results' \in Seq(ResultSet) /\ Len(results') = Len(results) + 1
      /\ OwnAnswer' /\ (HandlersAnswer => ClosedUnserved')
  <2> HIDE DEF r
  <2>1. /\ r.kind = "generate" /\ r.verdict = "ok"
        /\ r.from = call.number /\ "generate" \notin DOMAIN Plain
    BY Codes DEF r
  <2> QED  BY <1>1, <1>2, <1>5, <2>1, ResultAdded
<1>7. up' \in Seq(PieceSet) /\ \A i \in 1..Len(up') : Asked(up'[i], call')
  <2> DEFINE q == Pieces(call')
  <2>1. q \in Seq(PieceSet) /\ \A i \in 1..Len(q) : Asked(q[i], call')
    BY <1>3, PieceFacts DEF Asked
  <2>2. up' = q
    BY <1>1, <1>4, <2>1, ConcatEmptySeq
  <2> HIDE DEF q
  <2> QED  BY <2>1, <2>2
<1>8. InCall' /\ ~Asking'
  BY <1>3 DEF InCall, Asking
<1>9. ConnectionTypes'
  BY <1>1, <1>3, <1>6, <1>7 DEF ConnectionInv, ConnectionTypes
<1>10. /\ \A n \in served' : n \in 1..Len(results')
  BY <1>1, <1>2, <1>6 DEF ConnectionInv, Numbering
<1>11. Numbering'
  BY <1>1, <1>2, <1>3, <1>6, <1>8, <1>10 DEF Numbering
<1>12. call'.number \notin served'
  BY <1>2, <1>3, <1>6, <1>10
<1>13. RequestOnItsWay' /\ AnswerOnItsWay' /\ CancelOnItsWay'
  BY <1>3, <1>7, <1>8, <1>12 DEF RequestOnItsWay, AnswerOnItsWay, CancelOnItsWay
<1> QED  BY <1>6, <1>9, <1>11, <1>13 DEF ConnectionInv

LEMMA HangUpKeeps ==
    ASSUME ConnectionInv, ReadEof \/ GivesUpHandshake
    PROVE  ConnectionInv'
<1>1. InCall
  BY DEF ReadEof, GivesUpHandshake, InCall
<1>2. /\ UNCHANGED <<next_id, pending_events, serverVars, up, down>>
      /\ pending_events' = <<>> /\ down' \in Seq(FrameSet)
      /\ NoFrame.number \in Nat /\ NoFrame.kind = "none"
  BY DEF ReadEof, GivesUpHandshake, ConnectionInv, ConnectionTypes, NoFrame
<1>3. CASE ReadEof
  <2>1. wire = "closed" /\ down = <<>> /\ Return("closed", NoFrame)
    BY <1>3 DEF ReadEof
  <2>2. tasks = {} /\ out = <<>>
    BY <2>1 DEF ConnectionInv, Numbering
  <2>3. Live = {} /\ Flow = <<>>
    BY <2>1, <2>2, EmptySeq, ConcatEmptySeq DEF Live, Flow
  <2>4. HandlersAnswer => call.number \notin served
    <3>1. CASE call.kind = "cancel"
      <4>1. Len(Flow) = 0
        BY <2>3, EmptySeq
      <4> QED  BY <1>1, <2>3, <3>1, <4>1 DEF ConnectionInv, CancelOnItsWay
    <3>2. CASE call.kind # "cancel"
      BY <1>1, <2>3, <3>2 DEF ConnectionInv, AnswerOnItsWay, Asking
    <3> QED  BY <3>1, <3>2
  <2> QED  BY <1>1, <1>2, <2>1, <2>4, Returned
<1>4. CASE GivesUpHandshake
  <2>1. Return("timeout", NoFrame)
    BY <1>4 DEF GivesUpHandshake
  <2> QED  BY <1>1, <1>2, <2>1, Returned
<1> QED  BY <1>3, <1>4

(***************************************************************************)
(* The server reads a piece of a request.                                  *)
(***************************************************************************)
LEMMA TaskStarts ==
    ASSUME NEW p \in PieceSet
    PROVE  [number |-> p.number, kind |-> p.kind, id |-> p.id, sent |-> 0,
            over |-> FALSE] \in TaskSet
BY DEF PieceSet, TaskSet

LEMMA TaskGoesOn ==
    ASSUME NEW t \in TaskSet, NEW n \in Nat, NEW over \in BOOLEAN
    PROVE  [t EXCEPT !.sent = n, !.over = over] \in TaskSet
BY DEF TaskSet

LEMMA ReadKeeps ==
    ASSUME ConnectionInv, Read
    PROVE  ConnectionInv'
<1> DEFINE p == Head(up)
           t == [number |-> p.number, kind |-> p.kind, id |-> p.id, sent |-> 0,
                 over |-> FALSE]
<1>1. /\ wire = "open" /\ up # <<>> /\ up' = Tail(up)
      /\ UNCHANGED <<call, next_id, pending_events, results, out, down, wire>>
      /\ \/ /\ p.part # "head" /\ Accept(p)
         \/ /\ UNCHANGED <<tasks, served>> /\ reader' \in {"start", "body", "lost", "done"}
  BY DEF Read, clientVars
<1>2. /\ p \in PieceSet /\ p = up[1] /\ Len(up) \in Nat \ {0}
      /\ up' \in Seq(PieceSet) /\ Len(up') = Len(up) - 1
      /\ \A i \in 1..Len(up') : up'[i] = up[i + 1]
      /\ Len(up) = 1 => up' = <<>>
  <2>1. up \in Seq(PieceSet)
    BY DEF ConnectionInv, ConnectionTypes
  <2>2. /\ p \in PieceSet /\ p = up[1] /\ Len(up) \in Nat \ {0}
        /\ Tail(up) \in Seq(PieceSet) /\ Len(Tail(up)) = Len(up) - 1
        /\ \A i \in 1..Len(Tail(up)) : Tail(up)[i] = up[i + 1]
    BY <1>1, <2>1, HeadTailProperties, EmptySeq
  <2>3. ASSUME Len(up) = 1 PROVE Tail(up) = <<>>
    <3>1. Len(Tail(up)) = 0
      BY <2>2, <2>3
    <3> QED  BY <2>2, <3>1, EmptySeq
  <2> QED  BY <1>1, <2>2, <2>3
<1>3. InCall /\ call \in CallSet /\ call.number = Len(results) + 1
  BY <1>1 DEF ConnectionInv, ConnectionTypes, Numbering
<1>4. InCall' /\ Asking' = Asking /\ Flow' = Flow
  BY <1>1, <1>3 DEF InCall, Asking, Flow
<1>5. Asked(p, call)
  <2>1. 1 \in 1..Len(up)
    BY <1>2
  <2> QED  BY <2>1, <1>2, <1>3 DEF ConnectionInv, RequestOnItsWay, CancelOnItsWay, Asking
<1>6. \A i \in 1..Len(up') : i + 1 \in 1..Len(up) /\ up'[i] = up[i + 1]
  BY <1>2
<1>7. OwnAnswer'
  BY <1>1 DEF ConnectionInv, OwnAnswer
<1> HIDE DEF p, t
<1>8. CASE UNCHANGED <<tasks, served>> /\ reader' \in {"start", "body", "lost", "done"}
  <2>1. Live' = Live
    BY <1>8 DEF Live
  <2>2. ConnectionTypes' /\ Numbering'
    BY <1>1, <1>2, <1>3, <1>4, <1>8 DEF ConnectionInv, ConnectionTypes, Numbering
  <2>3. RequestOnItsWay'
    <3> SUFFICES ASSUME Asking
                 PROVE  RequestOnItsWay'
      BY <1>4 DEF RequestOnItsWay
    <3>1. \A i \in 1..Len(up) : Asked(up[i], call)
                /\ (up[i].part # "head" => i = Len(up) /\ call.at # "rest")
      BY DEF ConnectionInv, RequestOnItsWay
    <3>2. ASSUME NEW i \in 1..Len(up')
          PROVE  /\ Asked(up'[i], call')
                 /\ up'[i].part # "head" => i = Len(up') /\ call'.at # "rest"
      <4>1. /\ Asked(up[i + 1], call)
            /\ up[i + 1].part # "head" => i + 1 = Len(up) /\ call.at # "rest"
        BY <1>6, <3>1
      <4>2. up'[i] = up[i + 1] /\ call' = call
        BY <1>1, <1>6
      <4>3. i + 1 = Len(up) => i = Len(up')
        BY <1>2
      <4> QED  BY <4>1, <4>2, <4>3
    <3>3. call.number \notin served
      BY <1>1 DEF ConnectionInv, RequestOnItsWay
    <3> QED  BY <3>2, <3>3, <1>1, <1>4, <1>8, <2>1 DEF ConnectionInv, RequestOnItsWay
  <2>4. AnswerOnItsWay'
    BY <1>1, <1>4, <1>8, <2>1 DEF ConnectionInv, AnswerOnItsWay, Expected
  <2>5. CancelOnItsWay'
    BY <1>1, <1>3, <1>4, <1>6, <1>8, <2>1 DEF ConnectionInv, CancelOnItsWay
  <2> QED  BY <1>1, <1>7, <1>8, <2>2, <2>3, <2>4, <2>5 DEF ConnectionInv, ClosedUnserved
<1>9. CASE p.part # "head" /\ Accept(p)
  <2>1. /\ reader' = "start" /\ served' = served \cup {call.number}
        /\ tasks' = tasks \cup {t}
    BY <1>5, <1>9 DEF Accept, Asked, t
  <2>2. t \in TaskSet /\ ~t.over /\ t.sent = 0 /\ Asked(t, call)
    BY <1>2, <1>5, TaskStarts DEF Asked, t
  <2>3. Live' = Live \cup {t}
    BY <2>1, <2>2 DEF Live
  <2>4. ConnectionTypes' /\ Numbering'
    <3>1. served' \subseteq Nat
      BY <1>3, <2>1 DEF ConnectionInv, ConnectionTypes, CallSet
    <3>2. tasks' \subseteq TaskSet
      BY <2>1, <2>2 DEF ConnectionInv, ConnectionTypes
    <3>3. ConnectionTypes'
      BY <1>1, <1>2, <2>1, <3>1, <3>2 DEF ConnectionInv, ConnectionTypes
    <3> QED  BY <3>3, <1>1, <1>3, <1>4, <2>1 DEF ConnectionInv, Numbering
  <2>5. (HandlersAnswer => ClosedUnserved')
    <3>1. \A i \in DOMAIN results : i # call.number
      BY <1>3, LenProperties DEF ConnectionInv, ConnectionTypes
    <3> QED  BY <1>1, <2>1, <3>1 DEF ConnectionInv, ClosedUnserved
  <2>6. CASE ~Asking
    <3>1. call.kind = "cancel"
      BY <1>3, <2>6 DEF Asking
    <3>2. CancelOnItsWay'
      <4>1. call.at = "answer" /\ \A i \in 1..Len(up) : Asked(up[i], call)
        BY <1>3, <3>1 DEF ConnectionInv, CancelOnItsWay
      <4>2. \A i \in 1..Len(up') : Asked(up'[i], call')
        BY <1>1, <1>6, <4>1
      <4>3. \E x \in Live' : Asked(x, call')
        BY <1>1, <2>2, <2>3
      <4> QED  BY <1>1, <4>1, <4>2, <4>3 DEF CancelOnItsWay
    <3> QED  BY <1>4, <1>7, <2>4, <2>5, <2>6, <3>2
             DEF ConnectionInv, RequestOnItsWay, AnswerOnItsWay
  <2>7. CASE Asking
    <3>1. Flow = <<>> /\ Live = {} /\ call.at \in {"rest", "answer"}
      BY <1>1, <2>7 DEF ConnectionInv, RequestOnItsWay
    <3>2. Len(up) = 1 /\ call.at # "rest"
      <4>1. 1 \in 1..Len(up) /\ up[1].part # "head"
        BY <1>2, <1>9
      <4> QED  BY <2>7, <4>1 DEF ConnectionInv, RequestOnItsWay
    <3>3. up' = <<>> /\ Len(up') = 0 /\ call'.at = "answer" /\ call.number \in served'
      BY <1>1, <1>2, <2>1, <3>1, <3>2
    <3>4. Flow' = <<>> /\ Len(Flow') = 0 /\ Live' = {t}
      BY <1>4, <2>3, <3>1, EmptySeq
    <3>5. RequestOnItsWay'
      BY <1>1, <3>3 DEF RequestOnItsWay
    <3>6. AnswerOnItsWay'
      BY <1>1, <2>2, <3>3, <3>4 DEF AnswerOnItsWay
    <3>7. CancelOnItsWay'
      BY <1>1, <2>7 DEF CancelOnItsWay, Asking
    <3> QED  BY <1>7, <2>4, <2>5, <3>5, <3>6, <3>7 DEF ConnectionInv
  <2> QED  BY <2>6, <2>7
<1> QED  BY <1>1, <1>8, <1>9

(***************************************************************************)
(* The handlers.                                                           *)
(***************************************************************************)
LEMMA WritesFacts ==
    ASSUME NEW t \in TaskSet, NEW w \in Writes(t)
    PROVE  /\ w.kind \in FrameKinds /\ w.done \in BOOLEAN /\ w.last \in BOOLEAN
           /\ t.kind \in DOMAIN Plain => w.kind \in {Plain[t.kind], "Error"} /\ w.last
           /\ t.kind = "rime" =>
                 w.kind \in {"Ok", "Error"} \/ (w.kind = "Candidates" /\ w.done)
           /\ t.kind = "generate" => w.kind \in {"Ok", "Chunk", "Final", "Error"}
           /\ t.kind = "candidates" => w.kind \in {"Ok", "Candidates", "Error"}
           /\ t.kind \in Streams => (w.kind = "Ok" <=> t.sent = 0)
           /\ t.kind # "cancel" =>
                 (w.last <=> \/ t.kind \in DOMAIN Plain
                             \/ w.kind = "Error"
                             \/ t.kind = "generate" /\ w.kind = "Final"
                             \/ t.kind \in {"rime", "candidates"}
                                   /\ w.kind = "Candidates" /\ w.done)
<1> DEFINE W(kind, done, last) == [kind |-> kind, done |-> done, last |-> last]
<1>1. t.kind \in CallKinds
  BY DEF TaskSet
<1>2. CASE t.kind \in DOMAIN Plain
  <2>1. w = W(Plain[t.kind], FALSE, TRUE) \/ w = W("Error", FALSE, TRUE)
    BY <1>2 DEF Writes
  <2>2. t.kind \notin Streams /\ t.kind \notin {"rime", "cancel", "generate", "candidates"}
    BY <1>2, PlainCodes DEF Streams
  <2>3. w.kind \in {Plain[t.kind], "Error"} /\ w.done = FALSE /\ w.last = TRUE
    BY <2>1
  <2>4. w.kind \in FrameKinds
    BY <1>2, <2>3, PlainCodes, Codes
  <2> QED  BY <1>2, <2>2, <2>3, <2>4
<1>3. CASE t.kind = "cancel"
  <2>1. t.kind \notin DOMAIN Plain /\ t.kind \notin Streams
    BY <1>3, Codes DEF Streams
  <2>2. w = W("Ok", FALSE, TRUE)
    BY <1>3, <2>1 DEF Writes
  <2> QED  BY <1>3, <2>1, <2>2, Codes
<1>4. CASE t.kind = "rime"
  <2>1. t.kind \notin DOMAIN Plain /\ t.kind \notin Streams
    BY <1>4, Codes DEF Streams
  <2>2. w \in {W("Ok", FALSE, FALSE), W("Error", FALSE, TRUE), W("Candidates", TRUE, TRUE)}
    BY <1>4, <2>1 DEF Writes
  <2>3. \/ w.kind = "Ok" /\ w.done = FALSE /\ w.last = FALSE
        \/ w.kind = "Error" /\ w.done = FALSE /\ w.last = TRUE
        \/ w.kind = "Candidates" /\ w.done = TRUE /\ w.last = TRUE
    BY <2>2
  <2>4. w.kind \in FrameKinds
    BY <2>3, Codes
  <2> QED  BY <1>4, <2>1, <2>3, <2>4
<1>5. CASE t.kind = "generate"
  <2>1. t.kind \notin DOMAIN Plain /\ t.kind \in Streams
    BY <1>5, Codes DEF Streams
  <2>2. IF t.sent = 0 THEN w = W("Ok", FALSE, FALSE)
        ELSE w \in {W("Final", FALSE, TRUE), W("Error", FALSE, TRUE), W("Chunk", FALSE, FALSE)}
    BY <1>5, <2>1 DEF Writes
  <2>3. IF t.sent = 0 THEN w.kind = "Ok" /\ w.done = FALSE /\ w.last = FALSE
        ELSE \/ w.kind \in {"Final", "Error"} /\ w.done = FALSE /\ w.last = TRUE
             \/ w.kind = "Chunk" /\ w.done = FALSE /\ w.last = FALSE
    BY <2>2
  <2>4. w.kind \in FrameKinds
    BY <2>3, Codes
  <2> QED  BY <1>5, <2>1, <2>3, <2>4
<1>6. CASE t.kind = "candidates"
  <2>1. t.kind \notin DOMAIN Plain /\ t.kind \in Streams
    BY <1>6, Codes DEF Streams
  <2>2. IF t.sent = 0 THEN w = W("Ok", FALSE, FALSE)
        ELSE w \in {W("Candidates", TRUE, TRUE), W("Error", FALSE, TRUE),
                    W("Candidates", FALSE, FALSE)}
    BY <1>6, <2>1 DEF Writes
  <2>3. IF t.sent = 0 THEN w.kind = "Ok" /\ w.done = FALSE /\ w.last = FALSE
        ELSE \/ w.kind = "Candidates" /\ w.done = TRUE /\ w.last = TRUE
             \/ w.kind = "Error" /\ w.done = FALSE /\ w.last = TRUE
             \/ w.kind = "Candidates" /\ w.done = FALSE /\ w.last = FALSE
    BY <2>2
  <2>4. w.kind \in FrameKinds
    BY <2>3, Codes
  <2> QED  BY <1>6, <2>1, <2>3, <2>4
<1> QED  BY <1>1, <1>2, <1>3, <1>4, <1>5, <1>6 DEF CallKinds, Streams

LEMMA HandlerWritesKeeps ==
    ASSUME ConnectionInv, NEW t \in tasks, HandlerWrites(t)
    PROVE  ConnectionInv'
<1>1. PICK w \in Writes(t) :
          /\ out' = Append(out, Frame(t, w.kind, w.done))
          /\ tasks' = (tasks \ {t}) \cup {[t EXCEPT !.sent = @ + 1, !.over = w.last]}
  BY DEF HandlerWrites
<1> DEFINE f == Frame(t, w.kind, w.done)
           u == [t EXCEPT !.sent = @ + 1, !.over = w.last]
<1>2. /\ ~t.over /\ wire # "gone" /\ t \in TaskSet
      /\ UNCHANGED <<call, next_id, pending_events, results, reader, served, up, down, wire>>
  BY DEF HandlerWrites, clientVars, ConnectionInv, ConnectionTypes
<1>3. /\ w.kind \in FrameKinds /\ w.done \in BOOLEAN /\ w.last \in BOOLEAN
  BY <1>2, WritesFacts
<1>4. /\ f \in FrameSet /\ f.id = t.id /\ f.kind = w.kind /\ f.done = w.done
      /\ f.number = t.number /\ f.tag = Tag[f.kind]
  BY <1>2, <1>3, Codes DEF Frame, FrameSet, TaskSet
<1>5. /\ u \in TaskSet /\ u.sent = t.sent + 1 /\ u.over = w.last
      /\ u.number = t.number /\ u.kind = t.kind /\ u.id = t.id /\ t.sent \in Nat
  <2>1. /\ t.sent \in Nat /\ u = [t EXCEPT !.sent = t.sent + 1, !.over = w.last]
    BY <1>2 DEF TaskSet
  <2>2. u \in TaskSet
    <3>1. t.sent + 1 \in Nat
      BY <2>1
    <3> QED  BY <1>2, <1>3, <2>1, <3>1, TaskGoesOn
  <2>3. u.sent = t.sent + 1 /\ u.number = t.number /\ u.kind = t.kind /\ u.id = t.id
    BY <1>2, <2>1 DEF TaskSet
  <2>4. u.over = w.last
    BY <1>2, <2>1 DEF TaskSet
  <2> QED  BY <2>1, <2>2, <2>3, <2>4
<1>6. out' = Append(out, f) /\ tasks' = (tasks \ {t}) \cup {u}
  BY <1>1
<1> HIDE DEF f, u
<1>7. t \in Live /\ Live' = (Live \ {t}) \cup (IF w.last THEN {} ELSE {u})
  BY <1>2, <1>3, <1>5, <1>6 DEF Live
<1>8. InCall /\ InCall' /\ Asking' = Asking
  BY <1>2, <1>7 DEF ConnectionInv, Numbering, InCall, Asking
<1>9. /\ out' \in Seq(FrameSet) /\ Flow' \in Seq(FrameSet)
      /\ Len(Flow') = Len(Flow) + 1 /\ Len(Flow) \in Nat
      /\ \A i \in 1..(Len(Flow) + 1) :
            Flow'[i] = IF i = Len(Flow) + 1 THEN f ELSE Flow[i]
  <2>1. down \in Seq(FrameSet) /\ out \in Seq(FrameSet)
    BY DEF ConnectionInv, ConnectionTypes
  <2>2. /\ Append(out, f) \in Seq(FrameSet) /\ down \o Append(out, f) \in Seq(FrameSet)
        /\ Len(down \o Append(out, f)) = Len(Flow) + 1 /\ Len(Flow) \in Nat
        /\ \A i \in 1..(Len(Flow) + 1) : (down \o Append(out, f))[i] =
              IF i = Len(Flow) + 1 THEN f ELSE Flow[i]
    <3>1. f \in FrameSet
      BY <1>4
    <3> HIDE DEF f
    <3>2. /\ Append(out, f) \in Seq(FrameSet) /\ down \o Append(out, f) \in Seq(FrameSet)
          /\ Longer(down \o Append(out, f), down \o out, f)
      BY <2>1, <3>1, FlowGrows
    <3> QED  BY <3>2 DEF Flow, Longer
  <2>3. Flow' = down \o Append(out, f)
    BY <1>2, <1>6 DEF Flow
  <2> QED  BY <1>6, <2>2, <2>3
<1>10. ConnectionTypes' /\ Numbering'
  <2>1. tasks' \subseteq TaskSet
    BY <1>5, <1>6 DEF ConnectionInv, ConnectionTypes
  <2>2. ConnectionTypes'
    BY <1>2, <1>9, <2>1 DEF ConnectionInv, ConnectionTypes
  <2>3. wire # "closed"
    BY DEF ConnectionInv, Numbering
  <2> QED  BY <1>2, <1>8, <2>2, <2>3 DEF ConnectionInv, Numbering
<1>11. OwnAnswer' /\ (HandlersAnswer => ClosedUnserved')
  BY <1>2 DEF ConnectionInv, OwnAnswer, ClosedUnserved
<1>12. CASE ~Asking
  <2>1. call.kind = "cancel"
    BY <1>8, <1>12 DEF Asking
  <2>2. CancelOnItsWay'
    <3>1. ASSUME call.number \in served
          PROVE  \/ \E x \in Live' : Asked(x, call')
                 \/ \E i \in 1..Len(Flow') : Flow'[i].id = call'.id
      <4>1. CASE \E x \in Live : Asked(x, call) /\ x # t
        BY <1>2, <1>7, <4>1
      <4>2. CASE Asked(t, call)
        <5>1. Len(Flow') \in 1..Len(Flow') /\ Flow'[Len(Flow')] = f
          BY <1>9
        <5> QED  BY <5>1, <1>2, <1>4, <4>2 DEF Asked
      <4>3. CASE \E i \in 1..Len(Flow) : Flow[i].id = call.id
        <5>1. PICK i \in 1..Len(Flow) : Flow[i].id = call.id
          BY <4>3
        <5>2. i \in 1..Len(Flow') /\ Flow'[i] = Flow[i]
          BY <5>1, <1>9
        <5> QED  BY <5>1, <5>2, <1>2
      <4> QED  BY <3>1, <4>1, <4>2, <4>3, <1>8, <2>1 DEF ConnectionInv, CancelOnItsWay
    <3> QED  BY <3>1, <1>2, <1>8, <2>1 DEF ConnectionInv, CancelOnItsWay
  <2> QED  BY <1>8, <1>10, <1>11, <1>12, <2>2
           DEF ConnectionInv, RequestOnItsWay, AnswerOnItsWay
<1>13. CASE Asking
  <2>1. call.number \in served
    BY <1>7, <1>13 DEF ConnectionInv, RequestOnItsWay
  <2>2. Asked(t, call) /\ \A x \in Live : x = t
    BY <1>7, <1>13, <2>1 DEF ConnectionInv, AnswerOnItsWay
  <2>3. call.kind # "cancel" /\ t.kind = call.kind
    BY <1>13, <2>2 DEF Asking, Asked
  <2>4. Live' = IF w.last THEN {} ELSE {u}
    BY <1>7, <2>2
  <2>5. RequestOnItsWay'
    BY <1>2, <1>8, <1>13, <2>1 DEF ConnectionInv, RequestOnItsWay
  <2>6. Expected(f, call) /\ (LastKind(call.kind, f) <=> w.last)
    <3>1. Expected(f, call)
      BY <1>2, <1>4, <2>2, <2>3, WritesFacts DEF Expected, Asked
    <3> QED  BY <1>2, <1>3, <1>4, <2>3, <3>1, WritesFacts DEF LastKind
  <2>7. ASSUME NEW i \in 1..Len(Flow')
        PROVE  /\ Expected(Flow'[i], call')
               /\ LastKind(call'.kind, Flow'[i]) => i = Len(Flow') /\ Live' = {}
    <3>1. CASE i = Len(Flow')
      BY <3>1, <1>2, <1>9, <2>4, <2>6
    <3>2. CASE i # Len(Flow')
      <4>1. i \in 1..Len(Flow) /\ Flow'[i] = Flow[i]
        BY <3>2, <1>9
      <4>2. Expected(Flow[i], call) /\ ~LastKind(call.kind, Flow[i])
        BY <4>1, <1>7, <1>13, <2>1 DEF ConnectionInv, AnswerOnItsWay
      <4> QED  BY <4>1, <4>2, <1>2
    <3> QED  BY <3>1, <3>2
  <2>8. Live' # {} \/ (Flow' # <<>> /\ LastKind(call'.kind, Flow'[Len(Flow')]))
    <3>1. Flow'[Len(Flow')] = f /\ Flow' # <<>>
      BY <1>9, EmptySeq
    <3> QED  BY <3>1, <1>2, <2>4, <2>6
  <2>9. ASSUME call.kind \in Streams
        PROVE  /\ \A i \in 1..Len(Flow') :
                     Flow'[i].kind = "Ok" <=> (i = 1 /\ call'.at = "answer")
               /\ \A x \in Live' : x.sent = 0 <=> (call'.at = "answer" /\ Flow' = <<>>)
    <3>1. /\ \A i \in 1..Len(Flow) :
                Flow[i].kind = "Ok" <=> (i = 1 /\ call.at = "answer")
          /\ t.sent = 0 <=> (call.at = "answer" /\ Flow = <<>>)
      BY <1>7, <1>13, <2>1, <2>9 DEF ConnectionInv, AnswerOnItsWay
    <3>2. f.kind = "Ok" <=> t.sent = 0
      BY <1>2, <1>4, <2>3, <2>9, WritesFacts
    <3>3. Flow = <<>> <=> Len(Flow) + 1 = 1
      BY FlowTypes DEF ConnectionInv
    <3>4. ASSUME NEW i \in 1..Len(Flow')
          PROVE  Flow'[i].kind = "Ok" <=> (i = 1 /\ call'.at = "answer")
      <4>1. CASE i = Len(Flow) + 1
        BY <4>1, <1>2, <1>9, <3>1, <3>2, <3>3
      <4>2. CASE i # Len(Flow) + 1
        <5>1. i \in 1..Len(Flow) /\ Flow'[i] = Flow[i]
          BY <4>2, <1>9
        <5> QED  BY <5>1, <3>1, <1>2
      <4> QED  BY <4>1, <4>2
    <3>5. \A x \in Live' : x.sent # 0
      BY <1>5, <2>4
    <3>6. Flow' # <<>>
      BY <1>9, EmptySeq
    <3> QED  BY <3>4, <3>5, <3>6
  <2>10. AnswerOnItsWay'
    <3>1. \A x \in Live' : Asked(x, call')
      BY <1>2, <1>5, <2>2, <2>4 DEF Asked
    <3>2. \A x, y \in Live' : x = y
      BY <2>4
    <3> QED  BY <1>2, <2>7, <2>8, <2>9, <3>1, <3>2 DEF AnswerOnItsWay
  <2>11. CancelOnItsWay'
    BY <1>2, <2>3 DEF CancelOnItsWay
  <2> QED  BY <1>10, <1>11, <2>5, <2>10, <2>11 DEF ConnectionInv
<1> QED  BY <1>12, <1>13

LEMMA HandlerSilentKeeps ==
    ASSUME ConnectionInv, NEW t \in tasks, HandlerSilent(t)
    PROVE  ConnectionInv'
<1> DEFINE u == [t EXCEPT !.over = TRUE]
<1>1. /\ t.kind = "list_models" /\ ~t.over /\ ~ClientBuilds /\ wire # "gone"
      /\ tasks' = (tasks \ {t}) \cup {u} /\ t \in TaskSet
      /\ UNCHANGED <<call, next_id, pending_events, results, reader, out, served, up, down, wire>>
  BY DEF HandlerSilent, clientVars, ConnectionInv, ConnectionTypes
<1>2. u \in TaskSet /\ u.over
  BY <1>1 DEF TaskSet
<1> HIDE DEF u
<1>3. t \in Live /\ Live' = Live \ {t} /\ Flow' = Flow
  BY <1>1, <1>2 DEF Live, Flow
<1>4. InCall /\ InCall' /\ Asking' = Asking
  BY <1>1, <1>3 DEF ConnectionInv, Numbering, InCall, Asking
<1>5. ConnectionTypes' /\ Numbering'
  <2>1. tasks' \subseteq TaskSet
    BY <1>1, <1>2 DEF ConnectionInv, ConnectionTypes
  <2>2. ConnectionTypes'
    BY <1>1, <2>1 DEF ConnectionInv, ConnectionTypes
  <2>3. wire # "closed"
    BY DEF ConnectionInv, Numbering
  <2> QED  BY <1>1, <1>4, <2>2, <2>3 DEF ConnectionInv, Numbering
<1>6. OwnAnswer' /\ (HandlersAnswer => ClosedUnserved')
  BY <1>1 DEF ConnectionInv, OwnAnswer, ClosedUnserved
<1>7. CASE ~Asking
  <2>1. call.kind = "cancel"
    BY <1>4, <1>7 DEF Asking
  <2>2. ~Asked(t, call)
    BY <1>1, <2>1 DEF Asked
  <2>3. CancelOnItsWay'
    BY <1>1, <1>3, <1>4, <2>1, <2>2 DEF ConnectionInv, CancelOnItsWay
  <2> QED  BY <1>4, <1>5, <1>6, <1>7, <2>3
           DEF ConnectionInv, RequestOnItsWay, AnswerOnItsWay
<1>8. CASE Asking
  <2>1. call.number \in served
    BY <1>3, <1>8 DEF ConnectionInv, RequestOnItsWay
  <2>2. Asked(t, call) /\ \A x \in Live : x = t
    BY <1>3, <1>8, <2>1 DEF ConnectionInv, AnswerOnItsWay
  <2>3. ~HandlersAnswer
    BY <1>1, <2>2 DEF ConnectionInv, ConnectionTypes, HandlersAnswer, Asked
  <2>4. Live' = {}
    BY <1>3, <2>2
  <2>5. RequestOnItsWay'
    BY <1>1, <1>3, <1>4, <1>8, <2>1 DEF ConnectionInv, RequestOnItsWay
  <2>6. AnswerOnItsWay'
    BY <1>1, <1>3, <1>4, <1>8, <2>1, <2>3, <2>4 DEF ConnectionInv, AnswerOnItsWay, Expected
  <2>7. CancelOnItsWay'
    BY <1>1, <1>8 DEF CancelOnItsWay, Asking
  <2> QED  BY <1>5, <1>6, <2>5, <2>6, <2>7 DEF ConnectionInv
<1> QED  BY <1>7, <1>8

(***************************************************************************)
(* The connection.                                                         *)
(***************************************************************************)
LEMMA ConnectionInitInv == ConnectionInit => ConnectionInv
<1> SUFFICES ASSUME ConnectionInit PROVE ConnectionInv
  OBVIOUS
<1>1. /\ call \in CallSet /\ call.kind = "ping" /\ next_id \in Nat /\ pending_events = <<>>
      /\ up = <<>> /\ down = <<>> /\ out = <<>> /\ reader = "start" /\ tasks = {}
      /\ wire = "gone" /\ results = <<>> /\ served = {} /\ ~InCall
  BY IdleType DEF ConnectionInit, InCall
<1>2. ConnectionTypes
  BY <1>1, EmptySeq DEF ConnectionTypes
<1>3. Numbering
  BY <1>1 DEF Numbering
<1>4. RequestOnItsWay /\ AnswerOnItsWay /\ CancelOnItsWay
  BY <1>1 DEF RequestOnItsWay, AnswerOnItsWay, CancelOnItsWay, Asking
<1>5. OwnAnswer /\ ClosedUnserved
  <2>1. DOMAIN results = {}
    BY <1>1, EmptySeq
  <2> QED  BY <2>1 DEF OwnAnswer, ClosedUnserved
<1> QED  BY <1>2, <1>3, <1>4, <1>5 DEF ConnectionInv

LEMMA ConnectionStep == ConnectionInv /\ [ConnectionNext]_connectionVars => ConnectionInv'
<1> SUFFICES ASSUME ConnectionInv, [ConnectionNext]_connectionVars PROVE ConnectionInv'
  OBVIOUS
<1>1. CASE ConnectVerified
  BY <1>1, ConnectKeeps
<1>2. ASSUME NEW kind \in Kinds, Call(kind) PROVE ConnectionInv'
  BY <1>2, CallKeeps
<1>3. CASE WriteRest
  BY <1>3, WriteRestKeeps
<1>4. CASE ReadAnswer
  BY <1>4, ReadAnswerKeeps
<1>5. CASE NextEvent
  BY <1>5, NextEventKeeps
<1>6. CASE CancelOwnStream
  BY <1>6, CancelOwnStreamKeeps
<1>7. CASE ReadEof \/ GivesUpHandshake
  BY <1>7, HangUpKeeps
<1>8. CASE Read
  BY <1>8, ReadKeeps
<1>9. CASE DropClient \/ IdleTimeout \/ WriteFrame \/ CloseWire \/ UNCHANGED connectionVars
  BY <1>9, QuietKeeps
<1>10. ASSUME NEW t \in tasks, Handler(t) PROVE ConnectionInv'
  BY <1>10, HandlerWritesKeeps, HandlerSilentKeeps, QuietKeeps DEF Handler
<1> QED  BY <1>1, <1>2, <1>3, <1>4, <1>5, <1>6, <1>7, <1>8, <1>9, <1>10
         DEF ConnectionNext, ServerStep

\* The inductive invariant of a connection.
THEOREM ConnectionInvariant == ConnectionSpec => []ConnectionInv
<1>1. ConnectionInit => ConnectionInv
  BY ConnectionInitInv
<1>2. ConnectionInv /\ [ConnectionNext]_connectionVars => ConnectionInv'
  BY ConnectionStep
<1> QED  BY <1>1, <1>2, PTL DEF ConnectionSpec

\* Whatever the requests, the sizes of the queues and the order of the two
\* sides' steps, a call ends with a frame its own handler wrote, of the kind
\* it waits for (client.rs: request, next_event, rime_candidates; server.rs:
\* handle_connection).
THEOREM OwnAnswerAlways == ConnectionSpec => []OwnAnswer
<1>1. ConnectionInv => OwnAnswer
  BY DEF ConnectionInv
<1> QED  BY <1>1, ConnectionInvariant, PTL

\* A client told that its connection closed never had a handler at work on
\* its request, provided every handler answers before it returns: the one
\* that may not is handle_list_models, when LlmClient::new fails
\* (handler.rs), and the statement excludes it.
THEOREM ClosedUnservedAlways ==
    ASSUME HandlersAnswer
    PROVE  ConnectionSpec => []ClosedUnserved
<1>1. ConnectionInv => ClosedUnserved
  BY DEF ConnectionInv
<1> QED  BY <1>1, ConnectionInvariant, PTL
=============================================================================
