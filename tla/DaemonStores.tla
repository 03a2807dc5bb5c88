---------------------------- MODULE DaemonStores ----------------------------
(***************************************************************************)
(* The daemon's configuration and API key (verba-daemon handler.rs, lib.rs;*)
(* verba-config config.rs): the configuration in memory and in config.toml,*)
(* the key in memory and in the system's keyring, and the OCR and speech   *)
(* calls, which read both and then wait for a provider.  Left out: the key *)
(* a developer sets in the environment, and the rewriting of an old OCR    *)
(* provider at the start.                                                  *)
(*                                                                         *)
(* A request runs as a task of its own: every await, every unlock and every*)
(* file operation is a step.                                               *)
(***************************************************************************)
EXTENDS Naturals, Sequences, FiniteSets

CONSTANTS Fields,       \* configuration keys
          Values,       \* values they take
          Default,      \* the value of a field nobody set
          Bad,          \* a value apply_map rejects
          Keyed,        \* an API key
          MaxRequests,  \* bound: requests served
          MaxOfKind,    \* bound: requests of each kind
          MaxCrashes,   \* bound: times the daemon is killed
          HistoryMax,   \* OCR_HISTORY_MAX
          Absent,       \* no config.toml
          Empty,        \* config.toml truncated, not written yet
          Torn,         \* config.toml that does not parse
          Nothing

RequestKinds == {"set_config", "get_config", "api_key_set", "ocr", "speech"}

ASSUME StoresAssumption ==
    /\ Default \in Values /\ Bad \notin Values
    /\ Nothing # Keyed
    /\ {Absent, Empty, Torn, Nothing} \cap [Fields -> Values] = {}
    /\ Absent # Empty /\ Absent # Torn /\ Empty # Torn
    /\ MaxRequests \in Nat /\ MaxCrashes \in Nat
    /\ MaxOfKind \in [RequestKinds -> Nat]
    /\ HistoryMax \in Nat \ {0}

VARIABLES
    up,           \* the daemon runs
    config,       \* the configuration in memory
    file,         \* config.toml: a configuration, Absent, Empty or Torn
    key, keyring, \* the API key in memory and in the keyring
    ocr_history,  \* OCR results, newest first
    tasks,        \* the requests
    crashes,
    held,         \* history: whole configurations that were in memory
    mixed,        \* history: the stores that hold a mixture of two
    calm          \* history: no rejection, failed save or overlap so far

storeVars == <<config, file, key, keyring, held, mixed, calm>>
daemonVars == <<up, storeVars, ocr_history, tasks, crashes>>

Slots == 1..MaxRequests
Configs == [Fields -> Values]
Unset == [f \in Fields |-> Default]
Changes == UNION {[S -> Values \cup {Bad}] : S \in SUBSET Fields \ {{}}}

\* "whole": history: what the task saw was not a mixture.
Idle == [kind |-> "none", at |-> "none", arg |-> Nothing, saw |-> Nothing,
         whole |-> TRUE, how |-> "none"]

StoresInit ==
    /\ up = FALSE
    /\ config = Unset /\ file \in Configs \cup {Absent}
    /\ key = Nothing /\ keyring \in {Nothing, Keyed}
    /\ ocr_history = <<>>
    /\ tasks = [n \in Slots |-> Idle]
    /\ crashes = 0
    /\ held = {} /\ mixed = {} /\ calm = TRUE

\* The store has a mixture from now on, or nothing of one.
Marks(store, mixture) ==
    mixed' = IF mixture THEN mixed \cup {store} ELSE mixed \ {store}

\* A configuration that is in memory now is one the daemon holds, unless it
\* is a mixture.
Holds == held' = IF "memory" \in mixed' THEN held ELSE held \cup {config'}

-----------------------------------------------------------------------------
(* The process.                                                            *)

\* run and ConfigManager::load: the defaults are written when there is no
\* file, and taken when there is an empty one; one that does not parse keeps
\* the daemon from starting, and a mixture that does is used.
Start ==
    /\ ~up /\ file # Torn
    /\ up' = TRUE
    /\ config' = IF file \in Configs THEN file ELSE Unset
    /\ file' = IF file = Absent THEN Unset ELSE file
    /\ Marks("memory", "file" \in mixed)
    /\ Holds
    /\ key' = keyring
    /\ UNCHANGED <<keyring, calm, ocr_history, tasks, crashes>>

\* The process is killed.
Crash ==
    /\ up /\ crashes < MaxCrashes
    /\ up' = FALSE
    /\ crashes' = crashes + 1
    /\ tasks' = [n \in Slots |->
                    IF tasks[n].at \in {"none", "answered"} THEN tasks[n]
                    ELSE [Idle EXCEPT !.kind = tasks[n].kind, !.at = "answered", !.how = "lost"]]
    /\ ocr_history' = <<>>
    /\ UNCHANGED storeVars

\* handle: the next request, with the first step of its handler.
First == [set_config |-> "apply", get_config |-> "read", api_key_set |-> "keyring",
          ocr |-> "config", speech |-> "config"]

Arguments(kind) ==
    IF kind = "set_config" THEN Changes
    ELSE IF kind = "api_key_set" THEN {Nothing, Keyed} ELSE {Nothing}

InProgress(kind) ==
    \E n \in Slots : tasks[n].kind = kind /\ tasks[n].at # "answered"

Request(n, kind) ==
    /\ up /\ tasks[n].at = "none"
    /\ \A m \in 1..(n - 1) : tasks[m].at # "none"
    /\ Cardinality({m \in 1..(n - 1) : tasks[m].kind = kind}) < MaxOfKind[kind]
    /\ \E arg \in Arguments(kind) :
           tasks' = [tasks EXCEPT ![n] = [kind |-> kind, at |-> First[kind], arg |-> arg,
                                          saw |-> Nothing, whole |-> TRUE, how |-> "none"]]
    /\ calm' = (calm /\ ~(kind \in {"set_config", "api_key_set"} /\ InProgress(kind)))
    /\ UNCHANGED <<up, config, file, key, keyring, held, mixed, ocr_history, crashes>>

At(n, kind, at) == up /\ tasks[n].kind = kind /\ tasks[n].at = at

MovesOn(n, at) == tasks' = [tasks EXCEPT ![n].at = at]

\* The task has read the configuration.
Reads(n, at) ==
    tasks' = [tasks EXCEPT ![n].at = at, ![n].saw = config,
                           ![n].whole = "memory" \notin mixed]

Answers(n, how) ==
    tasks' = [tasks EXCEPT ![n] = [Idle EXCEPT !.kind = tasks[n].kind,
                                               !.at = "answered", !.how = how]]

-----------------------------------------------------------------------------
(* Configuration.                                                          *)

With(change, S) == [f \in Fields |-> IF f \in S THEN change[f] ELSE config[f]]

\* apply_map, under the write lock, in the order of a hash map: what comes
\* before the first bad pair stays applied, a mixture of two configurations.
Apply(n) ==
    /\ At(n, "set_config", "apply")
    /\ LET change == tasks[n].arg
           good == {f \in DOMAIN change : change[f] # Bad}
       IN \/ /\ good = DOMAIN change
             /\ config' = With(change, good)
             /\ MovesOn(n, "clone")
             /\ UNCHANGED <<calm, mixed>>
          \/ /\ good # DOMAIN change
             /\ \E S \in SUBSET good : config' = With(change, S)
             /\ Marks("memory", config' # config \/ "memory" \in mixed)
             /\ Answers(n, "error")
             /\ calm' = FALSE
    /\ Holds
    /\ UNCHANGED <<up, file, key, keyring, ocr_history, crashes>>

\* The configuration is read again, under the read lock, to be saved.
Clone(n) ==
    /\ At(n, "set_config", "clone")
    /\ Reads(n, "save")
    /\ UNCHANGED <<up, storeVars, ocr_history, crashes>>

\* ConfigManager::save, where std::fs::write truncates and then writes from
\* the start of the file.
Truncate(n) ==
    /\ At(n, "set_config", "save")
    /\ file' = Empty
    /\ Marks("file", FALSE)
    /\ MovesOn(n, "write")
    /\ UNCHANGED <<up, config, key, keyring, held, calm, ocr_history, crashes>>

\* What a write that is cut short, or that ends before the text of another
\* save does, may leave: text that does not parse, or pairs of both.
Garbles == file' \in Configs \cup {Torn} /\ Marks("file", TRUE)

\* A failure is only logged; one of the write may leave some of the text.
SaveFails(n) ==
    /\ \/ At(n, "set_config", "save") /\ UNCHANGED <<file, mixed>>
       \/ At(n, "set_config", "write") /\ (Garbles \/ UNCHANGED <<file, mixed>>)
    /\ Answers(n, "ok")
    /\ calm' = FALSE
    /\ UNCHANGED <<up, config, key, keyring, held, ocr_history, crashes>>

\* Fault: only the changed pairs are written over what the file held.
WriteChanges(n) ==
    /\ At(n, "set_config", "write")
    /\ file' = [f \in Fields |-> IF f \in DOMAIN tasks[n].arg THEN tasks[n].arg[f] ELSE Default]
    /\ Marks("file", ~tasks[n].whole)
    /\ Answers(n, "ok")
    /\ UNCHANGED <<up, config, key, keyring, held, calm, ocr_history, crashes>>

\* A file that is not empty was written by a save that began later and ended
\* sooner: over a longer text the two end up mixed.
WriteFile(n) ==
    /\ At(n, "set_config", "write")
    /\ \/ file' = tasks[n].saw /\ Marks("file", ~tasks[n].whole)
       \/ file # Empty /\ Garbles
    /\ Answers(n, "ok")
    /\ UNCHANGED <<up, config, key, keyring, held, calm, ocr_history, crashes>>

GetConfig(n) ==
    /\ At(n, "get_config", "read")
    /\ Answers(n, "ok")
    /\ UNCHANGED <<up, storeVars, ocr_history, crashes>>

\* ApiKeyStore::set and clear, then the copy in memory.
SetKeyring(n) ==
    /\ At(n, "api_key_set", "keyring")
    /\ \/ /\ keyring' = tasks[n].arg /\ MovesOn(n, "memory")
       \/ /\ Answers(n, "error") /\ UNCHANGED keyring
    /\ UNCHANGED <<up, config, file, key, held, mixed, calm, ocr_history, crashes>>

\* Fault: the copy in memory is only made for a key, not for its removal.
SetKeyOnly(n) ==
    /\ At(n, "api_key_set", "memory")
    /\ key' = IF tasks[n].arg = Nothing THEN key ELSE tasks[n].arg
    /\ Answers(n, "ok")
    /\ UNCHANGED <<up, config, file, keyring, held, mixed, calm, ocr_history, crashes>>

SetKey(n) ==
    /\ At(n, "api_key_set", "memory")
    /\ key' = tasks[n].arg
    /\ Answers(n, "ok")
    /\ UNCHANGED <<up, config, file, keyring, held, mixed, calm, ocr_history, crashes>>

-----------------------------------------------------------------------------
(* Providers: OCR, and speech both ways.                                   *)

\* The settings are read under one lock, before anything is awaited.
ReadSettings(n) ==
    \E kind \in {"ocr", "speech"} :
        /\ At(n, kind, "config")
        /\ Reads(n, IF kind = "ocr" THEN "call" ELSE "key")
        /\ UNCHANGED <<up, storeVars, ocr_history, crashes>>

\* TtsClient::from_config and AsrClient::from_config refuse an unusable one.
ReadKey(n) ==
    /\ At(n, "speech", "key")
    /\ \/ MovesOn(n, "call")
       \/ Answers(n, "error")
    /\ UNCHANGED <<up, storeVars, ocr_history, crashes>>

Speak(n) ==
    /\ At(n, "speech", "call")
    /\ \E how \in {"ok", "error"} : Answers(n, how)
    /\ UNCHANGED <<up, storeVars, ocr_history, crashes>>

\* handle_ocr_recognize: the result joins the history when it is there.
Recognize(n) ==
    /\ At(n, "ocr", "call")
    /\ \/ /\ ocr_history' = SubSeq(<<n>> \o ocr_history, 1,
                                   IF Len(ocr_history) < HistoryMax
                                   THEN Len(ocr_history) + 1 ELSE HistoryMax)
          /\ Answers(n, "ok")
       \/ /\ Answers(n, "error") /\ UNCHANGED ocr_history
    /\ UNCHANGED <<up, storeVars, crashes>>

-----------------------------------------------------------------------------

StoreStep(n) ==
    \/ Apply(n) \/ Clone(n) \/ Truncate(n) \/ SaveFails(n) \/ WriteFile(n) \/ GetConfig(n)
    \/ SetKeyring(n) \/ SetKey(n)
    \/ ReadSettings(n) \/ ReadKey(n) \/ Speak(n) \/ Recognize(n)

StoresNext ==
    \/ Start \/ Crash
    \/ \E n \in Slots : StoreStep(n) \/ \E kind \in RequestKinds : Request(n, kind)

StoresSpec == StoresInit /\ [][StoresNext]_daemonVars

-----------------------------------------------------------------------------
(* Properties.                                                             *)

\* Memory, config.toml when it parses, and the settings a provider is called
\* with are configurations that somebody chose as a whole (handler.rs:
\* SetConfig; config.rs: save; handler.rs: the locks are released before the
\* first await).  The exceptions start with a SetConfig that was rejected
\* after its first pairs (against the comment of apply_map), a save that
\* failed half way or two that overlapped; they end, for the file, with the
\* next save of a whole configuration and, for the memory, with the next
\* start from a whole file.
NoMixture ==
    up =>
        /\ "memory" \notin mixed => config \in held
        /\ "file" \notin mixed /\ file \in Configs => file \in held
        /\ \A n \in Slots :
              tasks[n].kind \in {"ocr", "speech"} /\ tasks[n].at = "call" /\ tasks[n].whole
                  => tasks[n].saw \in held
        /\ calm => mixed = {} /\ \A n \in Slots : tasks[n].whole

\* With nothing under way, memory, file and keyring agree, across restarts
\* too, unless a SetConfig was rejected, was not saved, or overlapped
\* another (handler.rs: SetConfig, handle_api_key_set).
QuietStoresAgree ==
    up /\ calm /\ ~InProgress("set_config") /\ ~InProgress("api_key_set") =>
        (file \in Configs => file = config) /\ key = keyring

=============================================================================
