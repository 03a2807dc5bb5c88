--------------------------- MODULE DaemonEndpoint ---------------------------
(***************************************************************************)
(* How a front end finds the daemon: the name of the socket (name.rs), the *)
(* start of a daemon process up to its listening socket (verba-daemon      *)
(* lib.rs, server.rs `serve`), and the callers that try to connect, start  *)
(* a daemon when nobody answers and try again (ipc.rs of both front ends,  *)
(* verba-trigger daemon.rs, the settings panel).                           *)
(*                                                                         *)
(* On Unix the name is one path in the user's data directory and a file is *)
(* left behind by a daemon that was killed.  On Windows the name ends in a *)
(* token that the first daemon writes to a file.  A process is started at  *)
(* most once here: a restart is another member of Daemons.                 *)
(***************************************************************************)
EXTENDS Naturals, Sequences

CONSTANTS Daemons,    \* daemon processes that may be started
          Callers,    \* front ends that call ensure_daemon
          Panels,     \* the callers that are settings panels
          Helpers,    \* the callers that are verba-trigger processes
          None

ASSUME EndpointAssumption ==
    /\ Panels \subseteq Callers
    /\ Helpers \subseteq Callers \ Panels
    /\ None \notin Daemons

VARIABLES
    platform,   \* "unix" or "windows"; never changes
    phase,      \* where each daemon process is in its start
    path,       \* Unix: None, "stale", or the daemon whose socket file it is
    token,      \* Windows: None, "torn", or the daemon that wrote the token file
    pipe,       \* Windows: the name a daemon computed, None while it has none
    caller,     \* each caller's place in ensure_daemon
    tried       \* settings panel: a start was tried already

procVars == <<phase, path, token, pipe>>
callerVars == <<caller, tried>>
endpointVars == <<platform, phase, path, token, pipe, caller, tried>>

Phases == {"unborn", "naming", "writing", "spec", "probing", "clearing",
           "binding", "serving", "gone"}

EndpointTypes ==
    /\ platform \in {"unix", "windows"}
    /\ phase \in [Daemons -> Phases]
    /\ path \in Daemons \cup {None, "stale"}
    /\ token \in Daemons \cup {None, "torn"}
    /\ pipe \in [Daemons -> Daemons \cup {None, "random"}]
    /\ caller \in [Callers -> {"idle", "retrying"}]
    /\ tried \in [Callers -> BOOLEAN]

EndpointInit ==
    /\ platform \in {"unix", "windows"}
    /\ phase = [d \in Daemons |-> "unborn"]
    /\ path \in IF platform = "unix" THEN {None, "stale"} ELSE {None}
    /\ token \in IF platform = "unix" THEN {None} ELSE {None, "torn"}
    /\ pipe = [d \in Daemons |-> None]
    /\ caller = [c \in Callers |-> "idle"]
    /\ tried = [c \in Callers |-> FALSE]

-----------------------------------------------------------------------------
(* Names.                                                                  *)

\* The name a client computes leads to d: the path is d's socket, or d's pipe
\* carries the token of the file.  A file without a valid token gives a name
\* drawn anew at every call, which leads nowhere.
Reaches(d) ==
    /\ phase[d] = "serving"
    /\ \/ /\ platform = "unix"
          /\ path = d
       \/ /\ platform = "windows"
          /\ token \in Daemons
          /\ pipe[d] = token

Reachable == \E d \in Daemons : Reaches(d)

\* ensure_ipc_token: a valid token is kept, anything else is written anew.
EnsureToken(d) ==
    /\ phase[d] = "naming"
    /\ phase' = [phase EXCEPT ![d] = IF token \in Daemons THEN "spec" ELSE "writing"]
    /\ UNCHANGED <<platform, path, token, pipe, callerVars>>

\* fs::write empties the file before it fills it.
TruncateToken(d) ==
    /\ phase[d] = "writing"
    /\ token # "torn"
    /\ token' = "torn"
    /\ UNCHANGED <<platform, phase, path, pipe, callerVars>>

WriteToken(d) ==
    /\ phase[d] = "writing"
    /\ token = "torn"
    /\ token' = d
    /\ phase' = [phase EXCEPT ![d] = "spec"]
    /\ UNCHANGED <<platform, path, pipe, callerVars>>

\* default_socket_spec, evaluated once before run.
ComputeSpec(d) ==
    /\ phase[d] = "spec"
    /\ pipe' = [pipe EXCEPT ![d] = IF token \in Daemons THEN token ELSE "random"]
    /\ phase' = [phase EXCEPT ![d] = "binding"]
    /\ UNCHANGED <<platform, path, token, callerVars>>

-----------------------------------------------------------------------------
(* A daemon process starts.                                                *)

Start == IF platform = "unix" THEN "probing" ELSE "naming"

\* serve: a connection that succeeds means that a daemon runs already.
Probe(d) ==
    /\ phase[d] = "probing"
    /\ phase' = [phase EXCEPT ![d] = IF Reachable THEN "gone" ELSE "clearing"]
    /\ UNCHANGED <<platform, path, token, pipe, callerVars>>

\* serve: whatever socket file is there now is removed.
Clear(d) ==
    /\ phase[d] = "clearing"
    /\ path' = None
    /\ phase' = [phase EXCEPT ![d] = "binding"]
    /\ UNCHANGED <<platform, token, pipe, callerVars>>

\* create_tokio: the bind fails when the name is taken, and the process ends.
Bind(d) ==
    LET free == IF platform = "unix"
                THEN path = None
                ELSE \A e \in Daemons : ~(phase[e] = "serving" /\ pipe[e] = pipe[d]
                                          /\ pipe[d] # "random")
    IN /\ phase[d] = "binding"
       /\ phase' = [phase EXCEPT ![d] = IF free THEN "serving" ELSE "gone"]
       /\ path' = IF free /\ platform = "unix" THEN d ELSE path
       /\ UNCHANGED <<platform, token, pipe, callerVars>>

\* The process is killed, or ends on an error before it serves.  The socket
\* file stays behind.
Crash(d) ==
    /\ phase[d] \notin {"unborn", "gone"}
    /\ phase' = [phase EXCEPT ![d] = "gone"]
    /\ path' = IF path = d THEN "stale" ELSE path
    /\ UNCHANGED <<platform, token, pipe, caller, tried>>

-----------------------------------------------------------------------------
(* The callers.                                                            *)

\* The executable is started when it is found; the caller does not know
\* whether that process will serve.
Spawn ==
    \/ phase' = phase
    \/ \E d \in Daemons :
           /\ phase[d] = "unborn"
           /\ phase' = [phase EXCEPT ![d] = Start]

\* A later try succeeds: the daemon answered Pong.
Connect(c) ==
    /\ caller[c] = "retrying"
    /\ Reachable
    /\ caller' = [caller EXCEPT ![c] = "idle"]
    /\ UNCHANGED <<platform, procVars, tried>>

\* The first try fails: the process is started and the caller tries again.
EnsureDaemon(c) ==
    /\ c \notin Panels \cup Helpers
    /\ caller[c] = "idle"
    /\ ~Reachable
    /\ Spawn
    /\ caller' = [caller EXCEPT ![c] = "retrying"]
    /\ UNCHANGED <<platform, path, token, pipe, tried>>

\* connect_daemon of verba-trigger: without an executable there is nothing to
\* wait for.
ConnectDaemon(c) ==
    /\ c \in Helpers
    /\ caller[c] = "idle"
    /\ ~Reachable
    /\ Spawn
    /\ phase' # phase
    /\ caller' = [caller EXCEPT ![c] = "retrying"]
    /\ UNCHANGED <<platform, path, token, pipe, tried>>

\* A settings panel starts a daemon once in its life.
EnsureDaemonStarted(c) ==
    /\ c \in Panels
    /\ caller[c] = "idle"
    /\ ~Reachable
    /\ ~tried[c]
    /\ tried' = [tried EXCEPT ![c] = TRUE]
    /\ Spawn
    /\ caller' = [caller EXCEPT ![c] = IF phase' = phase THEN "idle" ELSE "retrying"]
    /\ UNCHANGED <<platform, path, token, pipe>>

\* The tries are used up.
GiveUp(c) ==
    /\ caller[c] = "retrying"
    /\ caller' = [caller EXCEPT ![c] = "idle"]
    /\ UNCHANGED <<platform, procVars, tried>>

StartStep(d) ==
    \/ EnsureToken(d)
    \/ TruncateToken(d)
    \/ WriteToken(d)
    \/ ComputeSpec(d)
    \/ Probe(d)
    \/ Clear(d)
    \/ Bind(d)

CallerStep(c) ==
    \/ Connect(c)
    \/ EnsureDaemon(c)
    \/ ConnectDaemon(c)
    \/ EnsureDaemonStarted(c)
    \/ GiveUp(c)
=============================================================================
