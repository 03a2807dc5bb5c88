-------------------------- MODULE RimeService_proofs --------------------------
(***************************************************************************)
(* Proofs about the daemon's Rime engine, for any number of requests and   *)
(* kills, with or without a directory to migrate.  The invariant says      *)
(* besides the properties what a job may be doing for its request: a       *)
(* process that is down has no jobs, a request that is not served yet has  *)
(* none, the job of an installation never takes the mutex, and the phrases *)
(* of an installation that waits for the mutex are written.                *)
(***************************************************************************)
EXTENDS RimeService, TLAPS

JobsOfTasks ==
    \A n \in Requests :
        /\ tasks[n].at = "none" => jobs[n] = "none"
        /\ tasks[n].kind = "install" =>
              /\ jobs[n] \in {"none", "merge", "ok", "error"}
              /\ jobs[n] = "ok" => user_dir.extra
        /\ tasks[n].at = "reset" => tasks[n].kind = "install" /\ user_dir.extra

Inv ==
    /\ TypeOK
    /\ EngineInUse
    /\ InstalledIsServed
    /\ JobsOfTasks
    /\ ~up => engine = None /\ lock = None /\ \A j \in Jobs : jobs[j] = "none"

(***************************************************************************)
(* What the helpers do to the variables.                                   *)
(***************************************************************************)
TaskSet == [kind : Kinds \cup {"none"},
            at : {"none", "wait", "paths", "copy", "reset", "answered"}]
JobSet == {"none", "queued", "merge", "ok", "error"} \cup Locked
DirSet == [made : BOOLEAN, words : BOOLEAN, extra : BOOLEAN]

LEMMA GoesFacts ==
    ASSUME tasks \in [Requests -> TaskSet], NEW n \in Requests,
           NEW at \in {"none", "wait", "paths", "copy", "reset", "answered"}, Goes(n, at)
    PROVE  /\ tasks' \in [Requests -> TaskSet]
           /\ \A m \in Requests :
                /\ tasks'[m].kind = tasks[m].kind
                /\ tasks'[m].at = IF m = n THEN at ELSE tasks[m].at
<1>1. tasks' = [tasks EXCEPT ![n] = [tasks[n] EXCEPT !.at = at]]
  BY DEF Goes
<1>2. [tasks[n] EXCEPT !.at = at] \in TaskSet
  BY DEF TaskSet
<1> QED BY <1>1, <1>2 DEF TaskSet

LEMMA AnswersFacts ==
    ASSUME tasks \in [Requests -> TaskSet], NEW n \in Requests, Answers(n)
    PROVE  /\ tasks' \in [Requests -> TaskSet]
           /\ \A m \in Requests :
                /\ tasks'[m].kind = tasks[m].kind
                /\ tasks'[m].at = IF m = n THEN "answered" ELSE tasks[m].at
BY GoesFacts DEF Answers

LEMMA JobFacts ==
    ASSUME jobs \in [Jobs -> JobSet], NEW j \in Jobs, NEW at \in JobSet,
           JobGoes(j, at)
    PROVE  /\ jobs' \in [Jobs -> JobSet]
           /\ \A i \in Jobs : jobs'[i] = IF i = j THEN at ELSE jobs[i]
BY DEF JobGoes

\* Directories are made, filled and never emptied.
LEMMA DirFacts ==
    ASSUME user_dir \in DirSet, NEW a \in BOOLEAN, NEW b \in BOOLEAN
    PROVE  /\ [user_dir EXCEPT !.made = a] \in DirSet
           /\ [user_dir EXCEPT !.made = a].extra = user_dir.extra
           /\ [user_dir EXCEPT !.words = b] \in DirSet
           /\ [user_dir EXCEPT !.words = b].extra = user_dir.extra
           /\ [user_dir EXCEPT !.made = a, !.extra = TRUE] \in DirSet
           /\ [user_dir EXCEPT !.made = a, !.extra = TRUE].extra = TRUE
BY DEF DirSet

\* The invariant with the sets named.
LEMMA InvParts ==
    Inv <=>
      /\ up \in BOOLEAN /\ installed \in BOOLEAN /\ crashes \in 0..MaxCrashes
      /\ engine \in [words : BOOLEAN, extra : BOOLEAN] \cup {None}
      /\ lock \in Jobs \cup {None}
      /\ lock # None => jobs[lock] \in Locked
      /\ user_dir \in DirSet
      /\ tasks \in [Requests -> TaskSet]
      /\ jobs \in [Jobs -> JobSet]
      /\ EngineInUse /\ InstalledIsServed /\ JobsOfTasks
      /\ ~up => engine = None /\ lock = None /\ \A j \in Jobs : jobs[j] = "none"
BY DEF Inv, TypeOK, DirSet, TaskSet, JobSet

LEMMA InvPartsNext ==
    Inv' <=>
      /\ up' \in BOOLEAN /\ installed' \in BOOLEAN /\ crashes' \in 0..MaxCrashes
      /\ engine' \in [words : BOOLEAN, extra : BOOLEAN] \cup {None}
      /\ lock' \in Jobs \cup {None}
      /\ lock' # None => jobs'[lock'] \in Locked
      /\ user_dir' \in DirSet
      /\ tasks' \in [Requests -> TaskSet]
      /\ jobs' \in [Jobs -> JobSet]
      /\ EngineInUse' /\ InstalledIsServed' /\ JobsOfTasks'
      /\ ~up' => engine' = None /\ lock' = None /\ \A j \in Jobs : jobs'[j] = "none"
BY DEF Inv, TypeOK, DirSet, TaskSet, JobSet

LEMMA Numbers == Requests \subseteq Jobs /\ None \notin Jobs /\ 0 \in Jobs
                 /\ 0 \notin Requests
BY RimeAssumption DEF Requests, Jobs

(***************************************************************************)
(* The invariant.                                                          *)
(***************************************************************************)
\* Nothing runs and nothing is deployed at first.
LEMMA InitInv == Init => Inv
<1> SUFFICES ASSUME Init PROVE Inv
  OBVIOUS
<1>1. tasks \in [Requests -> TaskSet]
  BY DEF Init, TaskSet
<1>2. jobs \in [Jobs -> JobSet] /\ user_dir \in DirSet /\ crashes \in 0..MaxCrashes
  BY RimeAssumption DEF Init, JobSet, DirSet
<1>3. EngineInUse /\ InstalledIsServed /\ JobsOfTasks
  BY Numbers DEF Init, EngineInUse, InstalledIsServed, JobsOfTasks, Locked
<1> QED BY <1>1, <1>2, <1>3, InvParts DEF Init

\* A start queues the warm-up; a kill takes every job.
LEMMA ProcessKeepsInv ==
    ASSUME Inv, Start \/ Crash
    PROVE  Inv'
<1>1. CASE Start
  BY <1>1, InvParts, InvPartsNext, Numbers
     DEF Start, JobSet, EngineInUse, InstalledIsServed, JobsOfTasks, Locked
<1>2. CASE Crash
  <2>1. \A n \in Requests :
          /\ tasks'[n] \in TaskSet
          /\ tasks'[n].at = "none" => tasks[n].at = "none"
          /\ tasks'[n].at # "reset"
    BY <1>2, InvParts DEF Crash, TaskSet
  <2>2. tasks' \in [Requests -> TaskSet]
    BY <1>2, <2>1 DEF Crash
  <2>3. crashes' \in 0..MaxCrashes
    <3>1. crashes \in 0..MaxCrashes /\ crashes < MaxCrashes
      BY <1>2, InvParts DEF Crash
    <3>2. crashes' = crashes + 1 /\ MaxCrashes \in Nat
      BY <1>2, RimeAssumption DEF Crash
    <3> QED BY <3>1, <3>2
  <2>4. jobs' \in [Jobs -> JobSet] /\ \A j \in Jobs : jobs'[j] = "none"
    BY <1>2 DEF Crash, JobSet
  <2>5. EngineInUse' /\ JobsOfTasks'
    BY <2>1, <2>4, Numbers DEF EngineInUse, JobsOfTasks, Locked
  <2>6. InstalledIsServed'
    BY <1>2, InvParts DEF Crash, InstalledIsServed
  <2> QED BY <1>2, <2>2, <2>3, <2>4, <2>5, <2>6, InvParts, InvPartsNext DEF Crash
<1> QED BY <1>1, <1>2

\* A request brings a job of its own, and none before.
LEMMA RequestKeepsInv ==
    ASSUME Inv, NEW n \in Requests, NEW kind \in Kinds, Request(n, kind)
    PROVE  Inv'
<1>1. tasks' \in [Requests -> TaskSet]
  BY InvParts DEF Request, TaskSet
<1>2. /\ tasks'[n].at # "none" /\ tasks'[n].kind = kind
      /\ \A m \in Requests \ {n} : tasks'[m] = tasks[m]
  BY InvParts DEF Request
<1>3. /\ jobs[n] = "none"
      /\ kind = "rime" => jobs'[n] = "queued"
      /\ kind # "rime" => jobs'[n] = "none"
      /\ \A j \in Jobs \ {n} : jobs'[j] = jobs[j]
      /\ jobs' \in [Jobs -> JobSet]
  BY InvParts, Numbers DEF Request, JobsOfTasks, JobSet
<1>4. EngineInUse' /\ InstalledIsServed'
  BY <1>3, InvParts, Numbers DEF Request, EngineInUse, InstalledIsServed, Locked
<1>5. JobsOfTasks'
  BY <1>2, <1>3, InvParts, Numbers DEF Request, JobsOfTasks, Kinds
<1>6. lock' # None => jobs'[lock'] \in Locked
  BY <1>3, InvParts DEF Request, Locked
<1> QED BY <1>1, <1>3, <1>4, <1>5, <1>6, InvParts, InvPartsNext DEF Request

\* The mutex goes to one job, and only its holder deploys and queries.
LEMMA JobKeepsInv ==
    ASSUME Inv, NEW j \in Jobs, JobStep(j)
    PROVE  Inv'
<1>0. /\ \A at \in JobSet : JobGoes(j, at) =>
            /\ jobs' \in [Jobs -> JobSet]
            /\ \A i \in Jobs : jobs'[i] = IF i = j THEN at ELSE jobs[i]
      /\ \A at \in {"paths", "copy", "deploy", "query", "ok", "error"} : at \in JobSet
  BY InvParts, JobFacts DEF JobSet, Locked
<1> USE InvParts, InvPartsNext, Numbers
<1>1. CASE Lock(j)
  BY <1>0, <1>1
     DEF Lock, JobAt, Locked, EngineInUse, InstalledIsServed, JobsOfTasks
<1>2. CASE Paths(j)
  <2>1. user_dir' \in DirSet /\ user_dir'.extra = user_dir.extra
    BY <1>2, DirFacts DEF Paths, MustMigrate
  <2> QED BY <1>0, <1>2, <2>1
     DEF Paths, JobAt, Locked, EngineInUse, InstalledIsServed, JobsOfTasks
<1>3. CASE Copy(j)
  <2>1. user_dir' \in DirSet /\ user_dir'.extra = user_dir.extra
    BY <1>3, DirFacts DEF Copy
  <2> QED BY <1>0, <1>3, <2>1
     DEF Copy, JobAt, Locked, EngineInUse, InstalledIsServed, JobsOfTasks
<1>4. CASE Deploy(j)
  <2>1. user_dir' \in DirSet /\ user_dir'.extra = user_dir.extra
    BY <1>4, DirFacts DEF Deploy
  <2>2. /\ lock = j
        /\ engine' = engine \/ engine' = [words |-> user_dir.words,
                                          extra |-> user_dir.extra]
    BY <1>4 DEF Deploy, JobAt, EngineInUse, Locked
  <2>3. /\ engine' \in [words : BOOLEAN, extra : BOOLEAN] \cup {None}
        /\ engine' # engine => engine'.extra = user_dir.extra
    BY <2>2 DEF DirSet
  <2>4. InstalledIsServed'
    BY <1>4, <2>1, <2>2, <2>3 DEF Deploy, InstalledIsServed
  <2>5. \/ lock' = j /\ engine' # None /\ JobGoes(j, "query")
        \/ lock' = None /\ engine' = engine /\ JobGoes(j, "error")
    BY <1>4, <2>2, RimeAssumption DEF Deploy, DirSet
  <2>6. EngineInUse' /\ (lock' # None => jobs'[lock'] \in Locked)
    BY <1>0, <2>2, <2>5 DEF EngineInUse, Locked
  <2>7. JobsOfTasks'
    BY <1>0, <1>4, <2>1, <2>5 DEF Deploy, JobAt, JobsOfTasks
  <2> QED BY <1>0, <1>4, <2>1, <2>3, <2>4, <2>5, <2>6, <2>7 DEF Deploy, JobAt
<1>5. CASE Query(j)
  BY <1>0, <1>5
     DEF Query, JobAt, Locked, EngineInUse, InstalledIsServed, JobsOfTasks
<1>6. CASE Merge(j)
  <2>1. user_dir' \in DirSet /\ (user_dir.extra => user_dir'.extra)
    BY <1>6, DirFacts DEF Merge
  <2>2. \/ JobGoes(j, "ok") /\ user_dir'.extra
        \/ JobGoes(j, "error")
    BY <1>6, DirFacts DEF Merge
  <2>3. EngineInUse' /\ (lock' # None => jobs'[lock'] \in Locked)
    BY <1>0, <1>6, <2>2 DEF Merge, JobAt, EngineInUse, Locked
  <2>4. JobsOfTasks'
    BY <1>0, <1>6, <2>1, <2>2 DEF Merge, JobAt, JobsOfTasks
  <2>5. InstalledIsServed'
    BY <1>6, <2>1 DEF Merge, InstalledIsServed
  <2> QED BY <1>0, <1>6, <2>1, <2>2, <2>3, <2>4, <2>5 DEF Merge, JobAt
<1> QED BY <1>1, <1>2, <1>3, <1>4, <1>5, <1>6 DEF JobStep

\* A handler answers, or drops the engine when nobody holds the mutex.
LEMMA HandlerKeepsInv ==
    ASSUME Inv, NEW n \in Requests, HandlerStep(n)
    PROVE  Inv'
<1> USE InvParts, InvPartsNext, Numbers
<1>1. ASSUME UNCHANGED <<up, engine, lock, user_dir, installed, jobs, crashes>>,
             Answers(n), tasks[n].at # "none"
      PROVE  Inv'
  BY <1>1, AnswersFacts DEF EngineInUse, InstalledIsServed, JobsOfTasks
<1>2. CASE QueryAnswered(n)
  BY <1>1, <1>2 DEF QueryAnswered, At
<1>3. CASE QueryTimesOut(n)
  BY <1>1, <1>3 DEF QueryTimesOut, At
<1>4. CASE InstallTimesOut(n)
  BY <1>1, <1>4 DEF InstallTimesOut, At
<1>5. CASE InstallFails(n)
  BY <1>1, <1>5 DEF InstallFails, At
<1>6. ASSUME user_dir' \in DirSet, user_dir'.extra = user_dir.extra,
             At(n, "install", "paths") \/ At(n, "install", "copy"),
             \/ Goes(n, "copy") /\ UNCHANGED jobs
             \/ Goes(n, "wait") /\ JobGoes(n, "merge"),
             UNCHANGED <<up, engine, lock, installed, crashes>>
      PROVE  Inv'
  <2>1. /\ tasks' \in [Requests -> TaskSet]
        /\ \A m \in Requests : tasks'[m].kind = tasks[m].kind
                               /\ (tasks'[m].at \in {"none", "reset"} =>
                                     tasks[m].at = tasks'[m].at)
    BY <1>6, GoesFacts
  <2>2. /\ jobs' \in [Jobs -> JobSet]
        /\ \A i \in Jobs : jobs'[i] = jobs[i] \/ (i = n /\ jobs'[i] = "merge")
    BY <1>6, JobFacts DEF JobSet
  <2>3. /\ tasks[n].kind = "install" /\ tasks[n].at # "none" /\ up
        /\ jobs[n] \notin Locked
    BY <1>6 DEF At, JobsOfTasks, Locked
  <2>4. EngineInUse' /\ InstalledIsServed'
    BY <1>6, <2>2 DEF EngineInUse, InstalledIsServed, Locked
  <2>5. lock' # None => jobs'[lock'] \in Locked
    BY <1>6, <2>2, <2>3
  <2>6. JobsOfTasks'
    <3>1. n \in Jobs
      OBVIOUS
    <3>2. tasks'[n].at # "none"
      BY <1>6, GoesFacts
    <3> QED BY <1>6, <2>1, <2>2, <2>3, <3>1, <3>2 DEF JobsOfTasks
  <2> QED BY <1>6, <2>1, <2>2, <2>3, <2>4, <2>5, <2>6
<1>7. CASE InstallPaths(n)
  <2>1. user_dir' \in DirSet /\ user_dir'.extra = user_dir.extra
    BY <1>7, DirFacts DEF InstallPaths, MustMigrate
  <2> QED BY <1>6, <1>7, <2>1 DEF InstallPaths
<1>8. CASE InstallCopies(n)
  <2>1. user_dir' \in DirSet /\ user_dir'.extra = user_dir.extra
    BY <1>8, DirFacts DEF InstallCopies
  <2> QED BY <1>6, <1>8, <2>1 DEF InstallCopies
<1>10. CASE Blocks(n)
  <2>1. user_dir.extra /\ tasks[n].at # "none" /\ tasks[n].kind = "install" /\ up
    BY <1>10 DEF Blocks, At, JobsOfTasks
  <2>2. /\ tasks' \in [Requests -> TaskSet]
        /\ \A m \in Requests :
             /\ tasks'[m].kind = tasks[m].kind
             /\ tasks'[m].at = IF m = n THEN "reset" ELSE tasks[m].at
    BY <1>10, GoesFacts DEF Blocks
  <2> QED BY <1>10, <2>1, <2>2
          DEF Blocks, EngineInUse, InstalledIsServed, JobsOfTasks
<1>9. CASE Reset(n)
  <2>1. user_dir.extra /\ tasks[n].at # "none" /\ up
    BY <1>9 DEF Reset, Blocked, JobsOfTasks
  <2>2. \A j \in Jobs : jobs[j] \notin Locked
    BY <1>9 DEF Reset, EngineInUse
  <2> QED BY <1>9, <2>1, <2>2, AnswersFacts
          DEF Reset, EngineInUse, InstalledIsServed, JobsOfTasks
<1> QED BY <1>2, <1>3, <1>4, <1>5, <1>7, <1>8, <1>9, <1>10 DEF HandlerStep

LEMMA NextKeepsInv == Inv /\ [Next]_vars => Inv'
<1> SUFFICES ASSUME Inv, [Next]_vars PROVE Inv'
  OBVIOUS
<1>1. CASE UNCHANGED vars
  BY <1>1 DEF vars, Inv, TypeOK, EngineInUse, InstalledIsServed, JobsOfTasks
<1>2. CASE Next
  BY <1>2, ProcessKeepsInv, RequestKeepsInv, JobKeepsInv, HandlerKeepsInv DEF Next
<1> QED BY <1>1, <1>2

\* The variables keep their types, and the mutex is held by a job that works
\* under it.
THEOREM TypeCorrect == Spec => []TypeOK
<1>1. Inv => TypeOK
  BY DEF Inv
<1> QED BY <1>1, InitInv, NextKeepsInv, PTL DEF Spec

\* However queries, installations, time limits and kills interleave, a query
\* works in an engine that nobody drops, and one that has every phrase whose
\* installation was answered before (run RimeRequests).
THEOREM EngineAlwaysServes == Spec => []EngineServes
<1>1. Inv => EngineServes
  BY DEF Inv, EngineServes
<1> QED BY <1>1, InitInv, NextKeepsInv, PTL DEF Spec
=============================================================================
