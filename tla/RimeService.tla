----------------------------- MODULE RimeService ----------------------------
(***************************************************************************)
(* The daemon's Rime engine (verba-daemon handler.rs, lib.rs; verba-librime *)
(* platform.rs): candidate queries on blocking threads under the engine's   *)
(* mutex, the warm-up at the start, the migration of a 0.1.x user           *)
(* directory, and the installation of extra phrases, which drops the engine.*)
(*                                                                         *)
(* A blocking thread is a job with its request's number, job 0 the warm-up, *)
(* and goes on when its handler has given it up.  Handlers and their timers *)
(* run on the workers of the runtime, and an install that resets the engine *)
(* keeps its worker while it waits for the mutex.                           *)
(***************************************************************************)
EXTENDS Naturals, FiniteSets

CONSTANTS Workers,      \* the runtime's worker threads
          MaxRequests,  \* bound: requests served
          MaxCrashes,   \* bound: times the daemon is killed
          Legacy,       \* a 0.1.x user directory stands beside the executable
          CopyFails,    \* copying it may fail
          None

ASSUME RimeAssumption ==
    /\ Workers \in Nat \ {0}
    /\ MaxRequests \in Nat /\ MaxCrashes \in Nat
    /\ Legacy \in BOOLEAN /\ CopyFails \in BOOLEAN
    /\ None \notin 0..MaxRequests
    /\ None \notin [words : BOOLEAN, extra : BOOLEAN]

VARIABLES
    up,           \* the daemon runs
    engine,       \* the Rime engine: None, or what was deployed
    lock,         \* the job that holds the engine's mutex
    user_dir,     \* the user directory: made, words migrated, extra phrases
    tasks,        \* the requests
    jobs,         \* the blocking threads
    crashes,
    installed     \* history: an install was answered with Ok

vars == <<up, engine, lock, user_dir, tasks, jobs, crashes, installed>>

Requests == 1..MaxRequests
Jobs == 0..MaxRequests
Kinds == {"rime", "install"}

\* What a job does while it holds the mutex.
Locked == {"paths", "copy", "deploy", "query"}

TypeOK ==
    /\ up \in BOOLEAN
    /\ engine \in [words : BOOLEAN, extra : BOOLEAN] \cup {None}
    /\ lock \in Jobs \cup {None}
    /\ lock # None => jobs[lock] \in Locked
    /\ user_dir \in [made : BOOLEAN, words : BOOLEAN, extra : BOOLEAN]
    /\ tasks \in [Requests -> [kind : Kinds \cup {"none"},
                               at : {"none", "wait", "paths", "copy", "reset", "answered"}]]
    /\ jobs \in [Jobs -> {"none", "queued", "merge", "ok", "error"} \cup Locked]
    /\ crashes \in 0..MaxCrashes
    /\ installed \in BOOLEAN

Init ==
    /\ up = FALSE
    /\ engine = None /\ lock = None
    /\ user_dir = [made |-> FALSE, words |-> FALSE, extra |-> FALSE]
    /\ tasks = [n \in Requests |-> [kind |-> "none", at |-> "none"]]
    /\ jobs = [j \in Jobs |-> "none"]
    /\ crashes = 0 /\ installed = FALSE

-----------------------------------------------------------------------------
(* The process.                                                            *)

\* run: the warm-up is queued before the endpoint is opened.
Start ==
    /\ ~up
    /\ up' = TRUE
    /\ jobs' = [jobs EXCEPT ![0] = "queued"]
    /\ UNCHANGED <<engine, lock, user_dir, tasks, crashes, installed>>

\* The process is killed: threads, memory and the mutex are gone.
Crash ==
    /\ up /\ crashes < MaxCrashes
    /\ up' = FALSE
    /\ crashes' = crashes + 1
    /\ tasks' = [n \in Requests |->
                    IF tasks[n].at \in {"none", "answered"} THEN tasks[n]
                    ELSE [tasks[n] EXCEPT !.at = "answered"]]
    /\ jobs' = [j \in Jobs |-> "none"]
    /\ engine' = None /\ lock' = None
    /\ UNCHANGED <<user_dir, installed>>

\* The installs that wait for the mutex, each on a worker of its own: while
\* they are as many as the workers no other handler runs, no timer fires and
\* no request is read.
Blocked == {n \in Requests : tasks[n].at = "reset"}

Free == Cardinality(Blocked) < Workers

\* handle: handle_rime_candidates queues its job at once,
\* handle_rime_install_extra looks for the directories first.
Request(n, kind) ==
    /\ up /\ Free /\ tasks[n].at = "none"
    /\ \A m \in 1..(n - 1) : tasks[m].at # "none"
    /\ tasks' = [tasks EXCEPT ![n] = [kind |-> kind,
                                      at |-> IF kind = "rime" THEN "wait" ELSE "paths"]]
    /\ jobs' = IF kind = "rime" THEN [jobs EXCEPT ![n] = "queued"] ELSE jobs
    /\ UNCHANGED <<up, engine, lock, user_dir, crashes, installed>>

At(n, kind, at) == up /\ Free /\ tasks[n].kind = kind /\ tasks[n].at = at

Goes(n, at) == tasks' = [tasks EXCEPT ![n].at = at]

\* With what it is answered, no later step asks.
Answers(n) == Goes(n, "answered")

-----------------------------------------------------------------------------
(* The Rime engine.                                                        *)

JobAt(j, at) == up /\ jobs[j] = at

JobGoes(j, at) == jobs' = [jobs EXCEPT ![j] = at]

\* rime_query_sync takes the mutex, and loads the engine if there is none.
Lock(j) ==
    /\ JobAt(j, "queued") /\ lock = None
    /\ lock' = j
    /\ JobGoes(j, IF engine = None THEN "paths" ELSE "query")
    /\ UNCHANGED <<up, engine, user_dir, installed, tasks, crashes>>

\* rime_paths and migrate_legacy_user_data: a directory that exists, however
\* it came to be, is not migrated into.
MustMigrate == Legacy /\ ~user_dir.made

Paths(j) ==
    /\ JobAt(j, "paths")
    /\ user_dir' = [user_dir EXCEPT !.made = @ \/ MustMigrate]
    /\ JobGoes(j, IF MustMigrate THEN "copy" ELSE "deploy")
    /\ UNCHANGED <<up, engine, lock, installed, tasks, crashes>>

\* copy_dir_all; a failure is logged and the engine starts without.
Copy(j) ==
    /\ JobAt(j, "copy")
    /\ \E b \in {TRUE, ~CopyFails} : user_dir' = [user_dir EXCEPT !.words = @ \/ b]
    /\ JobGoes(j, "deploy")
    /\ UNCHANGED <<up, engine, lock, installed, tasks, crashes>>

\* RimeEngine::new: the directories, the patch, and the deployment of what
\* the user directory holds now.
Deploy(j) ==
    /\ JobAt(j, "deploy")
    /\ \/ /\ user_dir' = [user_dir EXCEPT !.made = TRUE]
          /\ engine' = [words |-> user_dir.words, extra |-> user_dir.extra]
          /\ JobGoes(j, "query")
          /\ UNCHANGED lock
       \/ /\ JobGoes(j, "error") /\ lock' = None
          /\ UNCHANGED <<engine, user_dir>>
    /\ UNCHANGED <<up, installed, tasks, crashes>>

\* RimeEngine::candidates, in a session of its own; nothing for the warm-up.
Query(j) ==
    /\ JobAt(j, "query")
    /\ \E how \in {"ok", "error"} : JobGoes(j, how)
    /\ lock' = None
    /\ UNCHANGED <<up, engine, user_dir, installed, tasks, crashes>>

\* handle_rime_candidates: the job's result, or none after 30 seconds.
QueryAnswered(n) ==
    /\ At(n, "rime", "wait") /\ jobs[n] \in {"ok", "error"}
    /\ Answers(n)
    /\ UNCHANGED <<up, engine, lock, user_dir, installed, jobs, crashes>>

\* Fault: no time limit.
QueryNeverTimesOut(n) == FALSE /\ UNCHANGED vars

QueryTimesOut(n) ==
    /\ At(n, "rime", "wait") /\ jobs[n] \notin {"ok", "error"}
    /\ Answers(n)
    /\ UNCHANGED <<up, engine, lock, user_dir, installed, jobs, crashes>>

\* handle_rime_install_extra: rime_paths, without the mutex, before the
\* blocking task.
InstallPaths(n) ==
    /\ At(n, "install", "paths")
    /\ user_dir' = [user_dir EXCEPT !.made = @ \/ MustMigrate]
    /\ IF MustMigrate THEN Goes(n, "copy") /\ UNCHANGED jobs
       ELSE Goes(n, "wait") /\ JobGoes(n, "merge")
    /\ UNCHANGED <<up, engine, lock, installed, crashes>>

InstallCopies(n) ==
    /\ At(n, "install", "copy")
    /\ \E b \in {TRUE, ~CopyFails} : user_dir' = [user_dir EXCEPT !.words = @ \/ b]
    /\ Goes(n, "wait") /\ JobGoes(n, "merge")
    /\ UNCHANGED <<up, engine, lock, installed, crashes>>

\* merge_extra_phrases: the entries that are missing are added.
Merge(n) ==
    /\ JobAt(n, "merge")
    /\ \/ /\ user_dir' = [user_dir EXCEPT !.made = TRUE, !.extra = TRUE]
          /\ JobGoes(n, "ok")
       \/ /\ JobGoes(n, "error") /\ UNCHANGED user_dir
    /\ UNCHANGED <<up, engine, lock, installed, tasks, crashes>>

\* Ten seconds: the file may still be written, the engine is not reset.
InstallTimesOut(n) ==
    /\ At(n, "install", "wait") /\ jobs[n] = "merge"
    /\ Answers(n)
    /\ UNCHANGED <<up, engine, lock, user_dir, installed, jobs, crashes>>

InstallFails(n) ==
    /\ At(n, "install", "wait") /\ jobs[n] = "error"
    /\ Answers(n)
    /\ UNCHANGED <<up, engine, lock, user_dir, installed, jobs, crashes>>

\* The file is written: the handler locks the mutex where it runs.
Blocks(n) ==
    /\ At(n, "install", "wait") /\ jobs[n] = "ok"
    /\ Goes(n, "reset")
    /\ UNCHANGED <<up, engine, lock, user_dir, installed, jobs, crashes>>

\* Fault: the engine is dropped without its mutex.
ResetUnlocked(n) ==
    /\ up /\ n \in Blocked
    /\ engine' = None
    /\ installed' = TRUE
    /\ Answers(n)
    /\ UNCHANGED <<up, lock, user_dir, jobs, crashes>>

\* Under the mutex the engine is dropped (Drop calls finalize), and the next
\* query deploys again.
Reset(n) ==
    /\ up /\ n \in Blocked
    /\ lock = None
    /\ engine' = None
    /\ installed' = TRUE
    /\ Answers(n)
    /\ UNCHANGED <<up, lock, user_dir, jobs, crashes>>

-----------------------------------------------------------------------------

HandlerStep(n) ==
    \/ QueryAnswered(n) \/ QueryTimesOut(n)
    \/ InstallPaths(n) \/ InstallCopies(n) \/ InstallTimesOut(n) \/ InstallFails(n)
    \/ Blocks(n) \/ Reset(n)

JobStep(j) == Lock(j) \/ Paths(j) \/ Copy(j) \/ Deploy(j) \/ Query(j) \/ Merge(j)

Next ==
    \/ Start \/ Crash
    \/ \E n \in Requests : HandlerStep(n) \/ \E kind \in Kinds : Request(n, kind)
    \/ \E j \in Jobs : JobStep(j)

Spec == Init /\ [][Next]_vars

\* Tasks are scheduled and timers run while a worker is free (their steps are
\* enabled only then); a job may hang in librime for ever.
FairSpec == Spec /\ \A n \in Requests : WF_vars(HandlerStep(n))

-----------------------------------------------------------------------------
(* Properties.                                                             *)

\* Once an install was answered with Ok, no later query is served by an
\* engine deployed without the phrases (handle_rime_install_extra), even if
\* a deployment was under way when the file was written.
InstalledIsServed ==
    installed => user_dir.extra /\ (engine # None => engine.extra)

\* The engine a query works in is not dropped under it, and whoever deploys
\* one is alone (rime_query_sync; handle_rime_install_extra).
EngineInUse ==
    \A j \in Jobs : jobs[j] \in Locked =>
        lock = j /\ (jobs[j] = "query" => engine # None)

\* Both together: a query works in an engine that stays, with every phrase
\* whose installation was answered before.
EngineServes == EngineInUse /\ InstalledIsServed

\* A query is answered however long the engine takes or hangs
\* (handle_rime_candidates: 30 s), unless the installs that wait for the
\* mutex come to hold every worker behind a job that never gives it back.
QueriesAnswered ==
    \A n \in Requests :
        tasks[n].at \notin {"none", "answered"} /\ tasks[n].kind # "install"
            ~> tasks[n].at = "answered" \/ [](~Free /\ lock # None)
=============================================================================
