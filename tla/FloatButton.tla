----------------------------- MODULE FloatButton -----------------------------
(***************************************************************************)
(* The floating reply button of the Windows front end: the text service    *)
(* (UI thread) starts a helper process per activation, a thread of its own *)
(* reads what the helper prints, and the timer shows what that thread has  *)
(* put in the queue (text_service.rs: spawn_float_button,                  *)
(* retry_float_button, kill_float_button, drain_trigger_results).  The     *)
(* helper waits for a click, runs capture, OCR and LLM in a thread, and    *)
(* ends with a reply, a failure, a cancellation or a deadline              *)
(* (verba-trigger, float.rs).  The button works under the session key of   *)
(* the window it was started for, hence the module of the keys below.      *)
(***************************************************************************)
EXTENDS WindowSessions

CONSTANTS
    FloatRetryTicks, \* FLOAT_RETRY_TICKS
    Helpers,         \* bound: 1..n, the helpers that can be started
    MaxActivations,  \* bound: activations of the service
    ButtonWindows    \* bound: windows opened where a button was started

ASSUME FloatAssumption ==
    /\ FloatRetryTicks \in Nat
    /\ MaxActivations \in Nat
    /\ ButtonWindows \in Nat
    /\ Helpers = 1..Cardinality(Helpers)
    /\ None \notin Helpers \cup Nat

VARIABLES
    active,          \* between Activate and Deactivate
    activation,      \* history: number of the present activation
    float_retry,     \* attempts left, or None
    float_epoch,
    float_child,     \* the helper whose process handle is kept, or None
    helper,          \* the helper processes
    reader,          \* the threads that read them
    trigger_results, \* what the threads delivered
    shown            \* history: helpers whose reply was shown

serviceVars == <<active, activation, float_retry, float_epoch, float_child>>
floatVars == <<serviceVars, helper, reader, trigger_results, shown>>
buttonVars == <<sessionVars, floatVars>>

Processes ==
    [at : {"none", "idle", "busy", "gone"}, lost : BOOLEAN,
     worker : {"none", "running", "reply", "failed"},
     wrote : BOOLEAN, born : 0..MaxActivations]

Threads == [at : {"none", "starting", "reading", "checked", "done"},
            epoch : Nat]

ButtonTypeOK ==
    /\ SessionTypeOK
    /\ active \in BOOLEAN
    /\ activation \in 0..MaxActivations
    /\ float_retry \in (0..FloatRetryTicks) \cup {None}
    /\ float_epoch \in Nat
    /\ float_child \in Helpers \cup {None}
    /\ helper \in [Helpers -> Processes]
    /\ reader \in [Helpers -> Threads]
    /\ trigger_results \in Seq(Helpers)
    /\ shown \subseteq Helpers

ButtonInit ==
    /\ SessionInit
    /\ active = FALSE
    /\ activation = 0
    /\ float_retry = None
    /\ float_epoch = 0
    /\ float_child = None
    /\ helper = [i \in Helpers |-> [at |-> "none", lost |-> FALSE,
                                    worker |-> "none", wrote |-> FALSE,
                                    born |-> 0]]
    /\ reader = [i \in Helpers |-> [at |-> "none", epoch |-> 0]]
    /\ trigger_results = <<>>
    /\ shown = {}

Runs(i) == helper[i].at \in {"idle", "busy"}

(***************************************************************************)
(* The text service.                                                       *)
(***************************************************************************)

\* Killing a helper that has ended changes nothing.
Killed ==
    [i \in Helpers |-> IF i = float_child /\ Runs(i)
                       THEN [helper[i] EXCEPT !.at = "gone"] ELSE helper[i]]

NextHelper == {i \in Helpers : /\ helper[i].at = "none"
                               /\ \A j \in 1..(i - 1) : helper[j].at # "none"}

\* The process of the old button goes first and its reader's epoch passes;
\* the new process may fail to start.
SpawnStarts(c, birth) ==
    /\ c # None
    /\ SessionKeyForUse(c)
    /\ float_epoch' = float_epoch + 1
    /\ \/ \E i \in NextHelper :
            /\ opened <= ButtonWindows
            /\ helper' = [Killed EXCEPT ![i].at = "idle", ![i].born = birth]
            /\ float_child' = i
            /\ reader' = [reader EXCEPT ![i].at = "starting"]
       \/ /\ helper' = Killed
          /\ float_child' = None
          /\ UNCHANGED reader

\* Nothing starts: for good when the button is switched off, the field takes
\* a password or there is no helper to run; for now when there is no context
\* yet, or no window to put the button at.
NothingStarts ==
    UNCHANGED <<float_epoch, float_child, helper, reader,
                numbers, cached, used, ended>>

SpawnFloatButton(c, birth, settled) ==
    \/ settled /\ SpawnStarts(c, birth)
    \/ NothingStarts

Activate ==
    /\ ~active /\ activation < MaxActivations
    /\ active' = TRUE
    /\ activation' = activation + 1
    /\ \E c \in {a \in Addresses : Lives(a)} \cup {None} :
         \E settled \in BOOLEAN :
            /\ context' = c
            /\ SpawnFloatButton(c, activation + 1, settled)
            /\ float_retry' = IF settled THEN None ELSE FloatRetryTicks
    /\ UNCHANGED <<windows, trigger_results, shown>>

RetryFloatButton ==
    \/ /\ float_retry = None
       /\ NothingStarts /\ UNCHANGED float_retry
    \/ /\ float_retry = 0
       /\ NothingStarts /\ float_retry' = None
    \/ /\ float_retry \in 1..FloatRetryTicks
       /\ \E settled \in BOOLEAN :
            /\ SpawnFloatButton(context, activation, settled)
            /\ float_retry' = IF settled THEN None ELSE float_retry - 1

DrainTriggerResults ==
    /\ trigger_results' = <<>>
    /\ shown' = shown \cup {trigger_results[k] : k \in DOMAIN trigger_results}

OnTimer ==
    /\ active
    /\ RetryFloatButton
    /\ DrainTriggerResults
    /\ UNCHANGED <<active, activation, windows, context>>

\* Fault: only the epoch goes on, the helper stays.
KillByEpoch ==
    /\ float_epoch' = float_epoch + 1
    /\ UNCHANGED helper
    /\ float_child' = None

KillFloatButton ==
    /\ float_epoch' = float_epoch + 1
    /\ helper' = Killed
    /\ float_child' = None

\* The queue of results is not touched.
Deactivate ==
    /\ active
    /\ KillFloatButton
    /\ active' = FALSE
    /\ context' = None
    /\ float_retry' = None
    /\ UNCHANGED <<activation, reader, trigger_results, shown,
                   windows, numbers, cached, used, ended>>

\* A commit or an AI request of the service itself.
UseKey ==
    /\ active
    /\ SessionKeyForUse(context)
    /\ UNCHANGED <<windows, context, floatVars>>

(***************************************************************************)
(* The helper process and the thread that reads it.                        *)
(***************************************************************************)

helperStep == <<sessionVars, serviceVars, reader, trigger_results, shown>>
readerStep == <<sessionVars, serviceVars, helper, shown>>

Click(i) ==
    /\ helper[i].at = "idle"
    /\ helper' = [helper EXCEPT ![i].at = "busy", ![i].worker = "running"]
    /\ UNCHANGED helperStep

\* A reply with text in it, or an empty one, an error or a panic.
PipelineEnds(i) ==
    /\ helper[i].at = "busy" /\ helper[i].worker = "running"
    /\ \E r \in {"reply", "failed"} :
         helper' = [helper EXCEPT ![i].worker = r]
    /\ UNCHANGED helperStep

\* What each end of the helper leaves on its standard output.
Prints(outcome) == outcome = "Reply"

Finish(i, outcome) ==
    helper' = [helper EXCEPT ![i].at = "gone", ![i].wrote = Prints(outcome)]

\* The right button, or the window is closed.
CancelButton(i) ==
    /\ Runs(i)
    /\ Finish(i, "Cancelled")
    /\ UNCHANGED helperStep

HasResult(i) == helper[i].worker \in {"reply", "failed"}

OutcomeFromResult(result) == IF result = "reply" THEN "Reply" ELSE "Failed"

\* about_to_wait looks at the worker first, then at the deadline of waiting
\* for a click or of the pipeline, then at the window it belongs to.
TakeResult(i) ==
    /\ Runs(i) /\ HasResult(i)
    /\ Finish(i, OutcomeFromResult(helper[i].worker))
    /\ UNCHANGED helperStep

Expire(i) ==
    /\ Runs(i) /\ ~HasResult(i)
    /\ Finish(i, "Expired")
    /\ UNCHANGED helperStep

\* Another window is in front: it ends when that has lasted for the grace.
OwnerLost(i) ==
    /\ Runs(i) /\ ~HasResult(i)
    /\ \/ helper[i].lost /\ Finish(i, "Cancelled")
       \/ ~helper[i].lost /\ helper' = [helper EXCEPT ![i].lost = TRUE]
    /\ UNCHANGED helperStep

OwnerBack(i) ==
    /\ Runs(i) /\ ~HasResult(i) /\ helper[i].lost
    /\ helper' = [helper EXCEPT ![i].lost = FALSE]
    /\ UNCHANGED helperStep

\* The thread takes the epoch when it begins, not when it is started.
ReaderBegins(i) ==
    /\ reader[i].at = "starting"
    /\ reader' = [reader EXCEPT ![i] = [at |-> "reading", epoch |-> float_epoch]]
    /\ UNCHANGED <<readerStep, trigger_results>>

\* The end of the output is the end of the process.
ReaderChecks(i) ==
    /\ reader[i].at = "reading" /\ helper[i].at = "gone"
    /\ reader' = [reader EXCEPT ![i].at =
                    IF helper[i].wrote /\ float_epoch = reader[i].epoch
                    THEN "checked" ELSE "done"]
    /\ UNCHANGED <<readerStep, trigger_results>>

\* The lock it holds is the queue's; the epoch may go on in between.
ReaderDelivers(i) ==
    /\ reader[i].at = "checked"
    /\ reader' = [reader EXCEPT ![i].at = "done"]
    /\ trigger_results' = Append(trigger_results, i)
    /\ UNCHANGED readerStep

Host ==
    /\ \/ /\ \/ opened < ButtonWindows
             \/ \A i \in Helpers : helper[i].at = "none"
          /\ \E h \in Handles, a \in Addresses : OpenWindow(h, a)
       \/ \E h \in Handles : CloseWindow(h)
       \/ \E a \in Addresses : active /\ HandleKey(a)
    /\ UNCHANGED floatVars

Service == Activate \/ OnTimer \/ Deactivate \/ UseKey

Helper(i) ==
    \/ Click(i) \/ PipelineEnds(i) \/ CancelButton(i)
    \/ TakeResult(i) \/ Expire(i) \/ OwnerLost(i) \/ OwnerBack(i)

Reader(i) == ReaderBegins(i) \/ ReaderChecks(i) \/ ReaderDelivers(i)

ButtonNext == Host \/ Service \/ \E i \in Helpers : Helper(i) \/ Reader(i)

ButtonSpec == ButtonInit /\ [][ButtonNext]_buttonVars

(***************************************************************************)
(* Properties.                                                             *)
(***************************************************************************)

\* "lifetime = this activation": a button runs only while the service is
\* active and only as the one it can kill, so there is never a second.
ButtonOfThisActivation ==
    \A i \in Helpers : Runs(i) => active /\ float_child = i

\* "a late result is dropped because of its epoch, and does not get into the
\* next activation": what is shown was asked for in this activation.
RepliesStayInActivation ==
    [][\A i \in shown' \ shown : helper[i].born = activation]_buttonVars
=============================================================================
