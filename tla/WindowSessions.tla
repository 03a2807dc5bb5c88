--------------------------- MODULE WindowSessions ---------------------------
(***************************************************************************)
(* The names under which the Windows text service files what a window      *)
(* says: every AI request, every committed text and every floating button  *)
(* carries a key made of the number of the TSF context and of the handle   *)
(* of its window (text_service.rs, context_generation,                     *)
(* session_key_for_use).  Both parts are recycled by the system: a context *)
(* is known by its address, a window by a handle.  What is promised to the *)
(* user is that a new window starts with no memory of an old one, and that *)
(* a window's memory goes when the window does.                            *)
(*                                                                         *)
(* One text service of one process: the salt of the process and the number *)
(* of the service, which only tell processes and services apart, are left  *)
(* out of the keys.                                                        *)
(***************************************************************************)
EXTENDS Naturals, Sequences, FiniteSets

CONSTANTS
    Addresses,          \* where context objects can lie
    Handles,            \* window handles
    MaxContextSessions, \* MAX_CONTEXT_SESSIONS
    MaxWindows,         \* bound: windows ever opened
    MaxGenerations,     \* bound: contexts ever numbered
    None

ASSUME SessionAssumption ==
    /\ MaxContextSessions \in Nat \ {0}
    /\ MaxWindows \in Nat
    /\ MaxGenerations \in Nat
    /\ None \notin Addresses \cup Handles
    /\ None \notin [window : 1..MaxWindows, handle : Handles]

VARIABLES
    owner,                   \* the window that has the handle, 0 if none
    opened,                  \* windows opened so far
    host,                    \* the context object at an address
    context,                 \* the context the service works in
    context_generations,     \* number of each context on the list
    context_order,           \* the list, oldest first; it owns its contexts
    next_context_generation,
    last_session_hwnd,
    last_session_key,
    used,                    \* history: which window's words a key was put on
    ended                    \* history: keys whose session was ended

windows == <<owner, opened, host>>
numbers == <<context_generations, context_order, next_context_generation>>
cached == <<last_session_hwnd, last_session_key>>
sessionVars == <<windows, context, numbers, cached, used, ended>>

Contexts == [window : 1..MaxWindows, handle : Handles]

Keys == ({"hwnd"} \X (1..MaxGenerations) \X Handles)
        \cup ({"ctx"} \X (1..MaxGenerations))

SessionTypeOK ==
    /\ owner \in [Handles -> 0..MaxWindows]
    /\ opened \in 0..MaxWindows
    /\ host \in [Addresses -> Contexts \cup {None}]
    /\ context \in Addresses \cup {None}
    /\ context_generations \in [Addresses -> 0..MaxGenerations]
    /\ context_order \in Seq(Addresses)
    /\ Len(context_order) <= MaxContextSessions
    /\ next_context_generation \in 0..MaxGenerations
    /\ last_session_hwnd \in Handles \cup {None}
    /\ last_session_key \in Keys \cup {None}
    /\ used \subseteq [key : Keys, window : 1..MaxWindows]
    /\ ended \subseteq Keys

SessionInit ==
    /\ owner = [h \in Handles |-> 0]
    /\ opened = 0
    /\ host = [a \in Addresses |-> None]
    /\ context = None
    /\ context_generations = [a \in Addresses |-> 0]
    /\ context_order = <<>>
    /\ next_context_generation = 0
    /\ last_session_hwnd = None
    /\ last_session_key = None
    /\ used = {}
    /\ ended = {}

Listed == {context_order[i] : i \in DOMAIN context_order}

\* Fault: the list remembers addresses and does not own the contexts.
OwnedNone == {}

\* The contexts the service keeps alive beside the one it works in.
Owned == Listed

(***************************************************************************)
(* The host.                                                               *)
(***************************************************************************)

Lives(a) ==
    /\ host[a] # None
    /\ owner[host[a].handle] = host[a].window

\* A window opens with a context in it, at an address that is free: neither a
\* window nor the service owns the context that lay there.
OpenWindow(h, a) ==
    /\ owner[h] = 0 /\ opened < MaxWindows
    /\ ~Lives(a) /\ a \notin Owned /\ context # a
    /\ opened' = opened + 1
    /\ owner' = [owner EXCEPT ![h] = opened + 1]
    /\ host' = [host EXCEPT ![a] = [window |-> opened + 1, handle |-> h]]
    /\ UNCHANGED <<context, numbers, cached, used, ended>>

CloseWindow(h) ==
    /\ owner[h] # 0
    /\ owner' = [owner EXCEPT ![h] = 0]
    /\ UNCHANGED <<opened, host, context, numbers, cached, used, ended>>

(***************************************************************************)
(* context_generation: the number of the present context, a new one if it  *)
(* is not on the list; the oldest context leaves a list that is full.      *)
(***************************************************************************)

Generation(c) ==
    IF c \in Listed THEN context_generations[c] ELSE next_context_generation + 1

Capped(order) ==
    IF Len(order) > MaxContextSessions THEN Tail(order) ELSE order

ContextGeneration(c) ==
    \/ /\ c \in Listed
       /\ UNCHANGED numbers
    \/ /\ c \notin Listed
       /\ next_context_generation < MaxGenerations
       /\ next_context_generation' = next_context_generation + 1
       /\ context_order' = Capped(Append(context_order, c))
       /\ context_generations' =
            [a \in Addresses |->
                IF a = c THEN next_context_generation'
                ELSE IF a \in Listed' THEN context_generations[a] ELSE 0]

\* What GetActiveView and GetWnd say of a context: they may fail at any call.
ActiveViewHwnd(c) == {None, host[c].handle}

\* A window's key, or the context's own when its window is not known.
KeyOf(c, seen) ==
    IF seen # None THEN <<"hwnd", Generation(c), seen>>
    ELSE <<"ctx", Generation(c)>>

IsWindow(h) == owner[h] # 0

\* Fault: another window is used, so the last one is closed.
ClosedUnasked(now) ==
    IF last_session_hwnd \notin {None, now} THEN {last_session_key} \ {None}
    ELSE {}

\* The window of the key used last, if another one is used now and it is gone.
Closed(now) ==
    IF /\ last_session_hwnd \notin {None, now}
       /\ ~IsWindow(last_session_hwnd)
    THEN {last_session_key} \ {None} ELSE {}

\* The window is asked for twice, once for the key and once for the cache.
\* Without a context the key is one that is used once and kept nowhere.
SessionKeyForUse(c) ==
    \/ /\ c = None
       /\ UNCHANGED <<numbers, cached, used, ended>>
    \/ /\ c # None
       /\ \E seen, now \in ActiveViewHwnd(c) :
            /\ ContextGeneration(c)
            /\ ended' = ended \cup Closed(now)
            /\ last_session_hwnd' = now
            /\ last_session_key' = KeyOf(c, seen)
            /\ used' = used \cup
                 {[key |-> KeyOf(c, seen), window |-> host[c].window]}

\* A key goes to a context; a commit or a request follows in it.
HandleKey(a) ==
    /\ Lives(a)
    /\ context' = a
    /\ UNCHANGED <<windows, numbers, cached, used, ended>>

(***************************************************************************)
(* Properties.                                                             *)
(***************************************************************************)

\* "a new context generation gives the new window a new session": however
\* handles and addresses are recycled, one key never names two windows.
KeyOfOneWindow ==
    \A u, v \in used : u.key = v.key => u.window = v.window

\* A session is ended only when its window is gone: switching between windows
\* never costs a window its memory.
EndSparesLiveWindows ==
    [][\A u \in used : u.key \in ended' \ ended =>
          \A h \in Handles : owner[h] # u.window]_sessionVars
=============================================================================
