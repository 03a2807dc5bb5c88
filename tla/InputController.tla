-------------------------- MODULE InputController --------------------------
(***************************************************************************)
(* The macOS input controller (imk.rs) around the composition machine of   *)
(* verba-core.  Everything runs on the main thread, but a call to the host *)
(* waits for its answer in the run loop: keys and CapsLock come in nested, *)
(* while an action is half applied (the timer comes too and turns back at  *)
(* once).  hosted says that such a call is under way; Apply* is what an    *)
(* arm of apply_action does before it and HostReturns what it does after.  *)
(*                                                                         *)
(* Abstractions.                                                           *)
(*  - The host calls of one action are one window for nested callbacks.    *)
(*  - commitComposition and the change of the session come between two     *)
(*    handlers.                                                            *)
(*  - Marked text and composed text are empty or not; the panel and its    *)
(*    data source are what they show.                                      *)
(*  - One controller, and of the requests those it has not given up: the   *)
(*    events of an abandoned one are dropped by their number.              *)
(*  - A key that waits is of a kind; which one it was is decided when it   *)
(*    is routed.  Pasted strings are not modelled.                         *)
(***************************************************************************)
EXTENDS Integers, Sequences, FiniteSets

CONSTANTS
    Letters, Uppers, Puncts, Quotes, PageSize, MaxPinyinBuffer, MaxDeferred,
    MaxPrompt, MaxChunks, Answers, AnswerDone, DuplicateAnswers, LateEvents,
    None,            \* the machine's constants
    Symbols,         \* of " ", "/", "-", "=" and the digits, those that are typed
    MaxPending,      \* model bound: keys waiting in pending_keys
    MaxCaptures      \* model bound: screen captures at work

VARIABLES
    state, pinyin_buffer, candidates, last_candidates_request,
    candidates_in_flight, deferred_intents, pinyin_page, selected_index,
    ocr_preview, rewrite_source, rewrite_preview, ai_preview, prompt,
    last_request, result, quote_open, out, shown,   \* the machine
    ui,            \* where drain_stream or input_text is
    key,           \* the key to be routed, or the kind of key it is, or None
    outer,         \* does a key wait for its own drain?
    steps,         \* actions that are not applied yet
    hosted,        \* what follows the host call that is under way, or "none"
    batch,         \* events drain_stream has taken
    pending_keys,
    active,        \* between activateServer and deactivateServer
    composed, marked,   \* is there composed text; does the host mark text
    left,          \* history: commitComposition left the text the host marks
    panel, data,   \* what the panel shows; the controller's candidates
    slots,         \* the previews whose slot in the controller is filled
    owed,          \* caps_host_cleanup
    expired,       \* whether the preview's deadline has passed
    timer,         \* is the drain timer scheduled
    asked,         \* the pinyin active_candidates stands for, or None
    query,         \* its worker is at it
    named,         \* candidate_pinyin is set
    stream,        \* active_stream: who asked for it, or None
    streaming,     \* its worker is at it
    events,        \* the live events of llm_queue
    captures, text,     \* captures at work; is ocr_result_slot filled
    bubble,        \* float-run: "none", "running" or "ready"
    disturbed      \* history: did a text, a bubble's stream, an owed removal, the slot
                   \* of an old preview or the session's end fall into this composition

M == INSTANCE CompositionMachine

ASSUME InputControllerAssumption ==
    /\ M!MachineAssumption /\ M!KeyAssumption /\ M!NoneAssumption
    /\ Symbols \subseteq {" ", "/", "-", "="} \cup M!Digits
    /\ MaxPending \in Nat /\ MaxCaptures \in Nat

kept == <<state, pinyin_buffer, candidates, last_candidates_request,
          candidates_in_flight, deferred_intents, pinyin_page, selected_index,
          ocr_preview, rewrite_source, rewrite_preview, ai_preview, prompt,
          last_request, result, quote_open>>
machine == <<kept, out, shown>>
handler == <<ui, key, outer, batch>>
doing == <<steps, hosted>>
text_in_host == <<composed, marked, left>>
window == <<panel, data, slots>>
requests == <<asked, query, named, stream, streaming, events>>
captured == <<captures, text, bubble>>
vars == <<machine, handler, doing, pending_keys, active, text_in_host, window, owed,
          expired, timer, requests, captured, disturbed>>

Pinyins == M!Pinyins
Kinds == {"candidates", "overlay", "preview", "comparison"}
Controls == {"Enter", "Back", "Escape"}
Arrows == {"PageDown", "Down"}     \* their mirror images are alike
Printable == Letters \cup Uppers \cup Puncts \cup Quotes \cup Symbols \cup {"\t"}
Keys == Controls \cup Arrows \cup Printable
\* which key it was is decided when it is routed: until then it is of a kind
KeysOf == [kind \in Keys \cup {"any", "char", "control", "other char", "other control"} |->
              CASE kind = "any" -> Keys
                [] kind = "char" -> Printable
                [] kind = "control" -> Controls \cup {"PageDown"}
                [] kind = "other char" -> Printable \ {" ", "1", "2"}
                [] kind = "other control" -> {"Back", "PageDown"}
                [] OTHER -> {kind}]
Composing == state \notin {"Idle", "OcrPreviewing"}
Previewing == state = "OcrPreviewing"
Waiting == hosted # "none"      \* host_call_depth > 0
Doing == steps # <<>> \/ Waiting
AtRest == ui = "idle" /\ ~Doing

Init ==
    /\ M!Init
    /\ ui = "idle" /\ key = None /\ outer = FALSE
    /\ steps = <<>> /\ hosted = "none" /\ batch = <<>>
    /\ pending_keys = <<>>
    /\ active = TRUE
    /\ composed = FALSE /\ marked = FALSE /\ left = FALSE
    /\ panel = "hidden" /\ data = "none" /\ slots = {}
    /\ owed = {} /\ expired = FALSE /\ timer = FALSE
    /\ asked = None /\ query = FALSE /\ named = FALSE
    /\ stream = None /\ streaming = FALSE /\ events = <<>>
    /\ captures = 0 /\ text = FALSE /\ bubble = "none"
    /\ disturbed = FALSE

(***************************************************************************)
(* What the handlers share.                                                *)
(***************************************************************************)
Kept == out' = <<>> /\ shown' = None /\ UNCHANGED kept

OfQuery(e) == e.kind \in {"Candidates", "Failure"}

\* cancel_stream: nothing of the query and of the stream is heard any more
CancelStream ==
    /\ asked' = None /\ query' = FALSE /\ named' = FALSE
    /\ stream' = None /\ streaming' = FALSE /\ events' = <<>>

\* the answer of a query that is given up; of each query there is one at most
DropAnswer ==
    IF \E i \in 1..Len(events) : OfQuery(events[i])
    THEN LET at == CHOOSE i \in 1..Len(events) : OfQuery(events[i])
         IN  events' = SubSeq(events, 1, at - 1) \o SubSeq(events, at + 1, Len(events))
    ELSE UNCHANGED events

\* start_rime_candidates
StartQuery(p) ==
    /\ asked' = p /\ query' = TRUE /\ named' = TRUE
    /\ DropAnswer
    /\ timer' = TRUE
    /\ UNCHANGED <<stream, streaming>>

\* start_llm after the status line and the overlay
StartStream(who) ==
    /\ stream' = who /\ streaming' = TRUE
    /\ asked' = None /\ query' = FALSE /\ named' = FALSE
    /\ events' = <<>>
    /\ timer' = TRUE

\* reset, which leaves the host and the panel alone
Reset ==
    /\ CancelStream
    /\ M!FeedEscape
    /\ data' = "none" /\ composed' = FALSE

\* refresh_candidate_window draws nothing from an empty list
Drawn == IF data = "none" THEN panel ELSE data

\* event: was it an answer, for the pinyin asked last or another, that asked for it
Step(act) == [do |-> act, ask |-> None, event |-> "no"]
Tagged(acts, ask, event) ==
    [i \in 1..Len(acts) |-> [do |-> acts[i], ask |-> ask, event |-> event]]
Requested == IF last_candidates_request' # last_candidates_request
             THEN last_candidates_request' ELSE None

(***************************************************************************)
(* Routing one key: input_text behind its drain, and replay_pending.       *)
(***************************************************************************)
Compares(k) == M!RewritePreviewing /\ k \in {"Enter", " ", "1", "2", "Escape"}
Chosen(k) == IF k = "2" THEN "Source" ELSE IF k = "Escape" THEN "Escape" ELSE "Rewritten"
Confirms(k) == k \in {"1", " ", "Enter"}

\* nothing is left to do with the key
Routed ==
    /\ key' = None
    /\ ui' = IF ui = "input" THEN "idle" ELSE ui
    /\ UNCHANGED <<outer, batch>>
StillRouting(k) ==
    /\ key' = k
    /\ ui' = IF ui = "idle" THEN "input" ELSE ui
    /\ UNCHANGED <<outer, batch>>

\* handle_rewrite_preview_key
RouteComparison(k) ==
    /\ Compares(k)
    /\ M!FeedRewritePreview(Chosen(k))
    /\ steps' = Tagged(out', None, "no")
    /\ slots' = {} /\ data' = "none" /\ panel' = "hidden"
    /\ Routed
    /\ UNCHANGED expired

\* handle_ocr_preview_key, with a deadline that has not passed.  The slot of the
\* controller decides, except for replayed keys; after a commit another key goes on.
PreviewTakesKey == "ocr" \in slots /\ (Previewing \/ ui # "replay")
Intrudes == PreviewTakesKey /\ Composing    \* the slot has outlived its preview
CommitsText(k) == Confirms(k) \/ (k \in Printable /\ k # "2")
RoutePreview(k) ==
    /\ ~Compares(k)
    /\ PreviewTakesKey /\ ~expired
    /\ IF Previewing THEN M!EndOcrPreview ELSE Kept
    /\ slots' = {} /\ data' = "none" /\ panel' = "hidden"
    /\ steps' = IF CommitsText(k)
                THEN <<Step([act |-> "CommitText"])>> ELSE <<>>
    /\ IF k = "Escape" \/ Confirms(k) THEN Routed ELSE StillRouting(k)
    /\ UNCHANGED expired

RouteExpired(k) ==
    /\ ~Compares(k)
    /\ Previewing /\ expired
    /\ M!EndOcrPreview
    /\ slots' = {} /\ data' = "none" /\ panel' = "hidden"
    /\ expired' = FALSE
    /\ StillRouting(k)
    /\ UNCHANGED steps

\* keys for the machine; a key that does nothing to an idle machine is the host's,
\* and so is a vertical arrow without candidates, unless it is replayed
RouteKey(k) ==
    /\ ~Compares(k)
    /\ ~PreviewTakesKey /\ ~(Previewing /\ expired)
    /\ \/ k = "Enter" /\ M!FeedEnter
       \/ k = "Back" /\ M!FeedBackspace
       \/ k = "Escape" /\ M!FeedEscape
       \/ /\ k \in Arrows
          /\ IF state # "Pinyin" \/ (k = "Down" /\ data = "none" /\ ui # "replay")
             THEN Kept
             ELSE IF k = "Down" THEN M!FeedArrow(FALSE) ELSE M!Paginate(1)
       \/ k \in Printable /\ M!FeedChar(k)
    /\ steps' = Tagged(out', Requested, "no")
    /\ Routed
    /\ UNCHANGED <<window, expired>>

\* model bound: how much a key adds to the prompt
Growth(k) ==
    IF k \in Letters \cup {"Back", "Escape"} \cup Arrows THEN 0
    ELSE IF pinyin_buffer # <<>>
    THEN IF k \in {" ", "1", "2", "Enter"} THEN 1 ELSE 2
    ELSE IF k \in {"\t", "Enter"} THEN 0 ELSE 1
WithinBounds(k) == state = "Prompt" => Len(prompt) + Growth(k) <= MaxPrompt

RouteIt(k) ==
    /\ RouteComparison(k) \/ RoutePreview(k) \/ RouteExpired(k) \/ RouteKey(k)
    /\ disturbed' = ((disturbed \/ Intrudes) /\ state' # "Idle")
    /\ UNCHANGED <<hosted, pending_keys, active, text_in_host, owed, timer, requests,
                   captured>>

Route == ~Doing /\ key # None /\ \E k \in KeysOf[key] : WithinBounds(k) /\ RouteIt(k)

(***************************************************************************)
(* apply_action up to the call that waits in the run loop.                 *)
(***************************************************************************)
Applying(acts, next) ==
    /\ steps # <<>> /\ ~Waiting
    /\ Head(steps).do.act \in acts
    /\ steps' = Tail(steps)
    /\ hosted' = next
    /\ UNCHANGED <<handler, pending_keys, active, owed, expired, captured, disturbed>>

Mark(nonempty) == composed' = nonempty /\ marked' = nonempty /\ left' = FALSE
Unmark == marked' = FALSE /\ left' = FALSE

\* an empty list does not empty the data source, except when an answer brings it
ApplyPinyin ==
    LET step == Head(steps)
    IN  /\ Applying({"UpdatePinyin"}, IF step.event = "current" THEN "answer" ELSE "refresh")
        /\ data' = IF step.do.count > 0 \/ step.do.raw THEN "candidates"
                   ELSE IF step.event # "no" THEN "none" ELSE data
        /\ IF step.ask # None THEN StartQuery(step.ask)
           ELSE UNCHANGED <<timer, requests>>
        /\ Mark(TRUE)
        /\ Kept
        /\ UNCHANGED <<panel, slots>>

\* the panel of a result does not follow the machine back into the prompt
ApplyPrompt ==
    /\ Applying({"EnterPrompt", "UpdatePrompt"}, "nothing")
    /\ IF ai_preview = None /\ data = "overlay"
       THEN data' = "none" /\ panel' = "hidden"
       ELSE UNCHANGED <<data, panel>>
    /\ Mark(TRUE)
    /\ Kept
    /\ UNCHANGED <<slots, timer, requests>>

\* first the status line, then the overlay; a stream is asked for after both
ApplyStatus ==
    /\ \/ Applying({"UpdateResult"}, "overlay")
       \/ Applying({"ResultReady", "LlmFailed"}, "ready")
       \/ Applying({"StartLlm", "StartRewrite"}, "own stream")
       \/ Applying({"StartBubble"}, "bubble stream")
    /\ Mark(Composing)
    /\ Kept
    /\ UNCHANGED <<window, timer, requests>>

\* model bound: captures and texts that are not over; a helper is not started twice
Room == /\ bubble = "none"
        /\ captures + (IF text THEN 1 ELSE 0) < MaxCaptures

\* commands that need no stream: speech, a phrase, a capture; and the bubble
ApplyCommand ==
    /\ \/ \E what \in {"speech", "phrase"} \cup (IF Room THEN {"capture"} ELSE {}) :
             Applying({"StartLlm"}, what) /\ Head(steps).do.text # <<>>
       \/ Applying({"StartCapture"}, "bubble")
    /\ Mark(FALSE)
    /\ Kept
    /\ UNCHANGED <<window, timer, requests>>

ApplyRewriteReady ==
    /\ Applying({"RewriteReady"}, IF state = "ResultReady" THEN "comparison" ELSE "none")
    /\ M!BeginRewritePreview(Head(steps).do.rewritten, Head(steps).do.source)
    /\ IF state = "ResultReady"
       THEN slots' = slots \cup {"rewrite"} /\ data' = "comparison" /\ Mark(FALSE)
       ELSE UNCHANGED <<slots, data, text_in_host>>
    /\ UNCHANGED <<panel, timer, requests>>

\* commit empties the marked text before it inserts
ApplyCommit ==
    /\ Applying({"CommitImmediate", "CommitText"}, "commit")
    /\ Unmark
    /\ Kept
    /\ UNCHANGED <<composed, window, timer, requests>>

\* Fault: the stream goes on when its first part is committed
CommitResultKeepsStream ==
    /\ Applying({"CommitResult"}, "commit")
    /\ timer' = FALSE
    /\ Unmark
    /\ Kept
    /\ UNCHANGED <<composed, window, requests>>

ApplyCommitResult ==
    /\ Applying({"CommitResult"}, "commit")
    /\ CancelStream /\ timer' = FALSE
    /\ Unmark
    /\ Kept
    /\ UNCHANGED <<composed, window>>

ApplyCancel ==
    /\ Applying({"Cancel"}, "nothing")
    /\ CancelStream /\ timer' = FALSE
    /\ slots' = {} /\ data' = "none" /\ panel' = "hidden"
    /\ Mark(FALSE)
    /\ Kept

Apply == \/ ApplyPinyin \/ ApplyPrompt \/ ApplyStatus \/ ApplyCommand
         \/ ApplyRewriteReady \/ ApplyCommit \/ ApplyCommitResult \/ ApplyCancel

(***************************************************************************)
(* What follows the host call.                                             *)
(***************************************************************************)
Returning(from) ==
    /\ hosted \in from
    /\ hosted' = "none"
    /\ UNCHANGED <<steps, handler, pending_keys, active, owed, expired, slots>>

\* a list that has become empty leaves the panel as it is, but for the answer to
\* the last question, which hides it
ReturnRefresh ==
    /\ Returning({"nothing", "refresh", "answer", "comparison", "preview", "lost preview"})
    /\ panel' = IF hosted = "answer" /\ data = "none" THEN "hidden"
                ELSE IF hosted = "nothing" THEN panel ELSE Drawn
    /\ timer' = (timer /\ hosted # "comparison")
    /\ Kept
    /\ UNCHANGED <<data, text_in_host, requests, captured, disturbed>>

ReturnOverlay ==
    /\ Returning({"overlay", "ready"})
    /\ data' = "overlay" /\ panel' = "overlay"
    /\ timer' = (timer /\ hosted # "ready")
    /\ Kept
    /\ UNCHANGED <<text_in_host, requests, captured, disturbed>>

ReturnStart ==
    /\ Returning({"own stream", "bubble stream"})
    /\ data' = "overlay" /\ panel' = "overlay"
    /\ StartStream(IF hosted = "own stream" THEN "machine" ELSE "bubble")
    /\ disturbed' = (disturbed \/ (hosted = "bubble stream" /\ state # "Idle"))
    /\ Kept
    /\ UNCHANGED <<text_in_host, captured>>

\* reset, then the command; a phrase is committed at once
ReturnCommand ==
    /\ Returning({"speech", "phrase", "capture", "bubble"})
    /\ Reset
    /\ captures' = IF hosted = "capture" THEN captures + 1 ELSE captures
    /\ bubble' = IF hosted = "bubble" /\ Room THEN "running" ELSE bubble
    /\ panel' = IF hosted = "phrase" THEN "hidden" ELSE panel
    /\ UNCHANGED <<marked, left, timer, text, disturbed>>

\* "end": commitComposition gives up the stream after it has committed
ReturnCommit ==
    /\ Returning({"commit", "held commit", "lost commit", "end"})
    /\ data' = "none" /\ panel' = "hidden" /\ composed' = FALSE
    /\ IF hosted = "end"
       THEN CancelStream /\ timer' = FALSE
       ELSE named' = FALSE /\ UNCHANGED <<timer, asked, query, stream, streaming, events>>
    /\ Kept
    /\ UNCHANGED <<marked, left, captured, disturbed>>

\* deactivateServer once the host's text is cleared: a key that waits since stays
ReturnDeactivate ==
    /\ hosted = "leaving" /\ hosted' = "none"
    /\ active' = FALSE
    /\ Reset
    /\ owed' = {} /\ expired' = FALSE
    /\ disturbed' = FALSE
    /\ UNCHANGED <<handler, steps, pending_keys, marked, left, panel, slots, timer, captured>>

HostReturns == ReturnRefresh \/ ReturnOverlay \/ ReturnStart \/ ReturnCommand
               \/ ReturnCommit \/ ReturnDeactivate

(***************************************************************************)
(* Callbacks nested in a host call.                                        *)
(***************************************************************************)
Held == hosted \in {"preview", "held commit", "lost preview", "lost commit"}

\* drain_stream holds the machine while it shows a recognised text: the key's
\* handler panics, and the panic is swallowed with the host call
NestedKeyPanics ==
    /\ hosted \in {"preview", "held commit"}
    /\ hosted' = IF hosted = "preview" THEN "lost preview" ELSE "lost commit"
    /\ UNCHANGED <<machine, handler, steps, pending_keys, active, text_in_host, window,
                   owed, expired, timer, requests, captured, disturbed>>

\* the previews' keys are looked for before the depth is
NestedComparison(k) ==
    /\ Waiting /\ ~Held
    /\ Compares(k)
    /\ M!FeedRewritePreview(Chosen(k))
    /\ slots' = {} /\ data' = "none" /\ panel' = "hidden"
    /\ Mark(FALSE)
    /\ IF k = "Escape" THEN CancelStream /\ timer' = FALSE
       ELSE named' = FALSE /\ UNCHANGED <<timer, asked, query, stream, streaming, events>>
    /\ UNCHANGED <<handler, doing, pending_keys, active, owed, expired, captured,
                   disturbed>>

NestedPreview(k) ==
    /\ Waiting /\ ~Held
    /\ ~Compares(k) /\ "ocr" \in slots
    /\ IF Previewing THEN M!EndOcrPreview ELSE Kept
    /\ slots' = {} /\ data' = "none" /\ panel' = "hidden"
    /\ IF CommitsText(k) /\ ~(Previewing /\ expired)
       THEN Mark(FALSE) /\ named' = FALSE
       ELSE UNCHANGED <<text_in_host, named>>
    /\ expired' = FALSE
    /\ IF k \in Printable /\ (~Confirms(k) \/ (Previewing /\ expired))
       THEN Len(pending_keys) < MaxPending /\ pending_keys' = Append(pending_keys, k)
       ELSE UNCHANGED pending_keys
    /\ disturbed' = (disturbed \/ Composing)
    /\ UNCHANGED <<handler, doing, active, owed, timer, asked, query, stream, streaming,
                   events, captured>>

\* characters wait, and what the machine alone takes; the rest is the host's
NestedKeyWaits ==
    /\ Waiting /\ ~Held /\ "ocr" \notin slots
    /\ Len(pending_keys) < MaxPending
    /\ \E kind \in IF M!RewritePreviewing THEN {"other char", "other control"}
                  ELSE IF Composing THEN {"char", "control"} ELSE {"char"} :
           pending_keys' = Append(pending_keys, kind)
    /\ UNCHANGED <<machine, handler, doing, active, text_in_host, window, owed,
                   expired, timer, requests, captured, disturbed>>

(***************************************************************************)
(* CapsLock: English keys clear what the Chinese side left, the host's part*)
(* of it later when a host call is under way.                              *)
(***************************************************************************)
Previews == slots # {}
\* Fault: nothing is owed for the text that is still marked
CapsOwesNothing ==
    /\ active
    /\ AtRest \/ (Waiting /\ ~Held)
    /\ composed \/ Previews \/ state # "Idle" \/ pending_keys # <<>>
    /\ Reset
    /\ pending_keys' = <<>>
    /\ slots' = {}
    /\ expired' = (expired /\ ~Previewing)
    /\ IF Waiting
       THEN UNCHANGED <<owed, marked, left, panel>>
       ELSE /\ owed' = {} /\ marked' = (marked /\ ~composed) /\ left' = (left /\ marked')
            /\ panel' = "hidden"
    /\ disturbed' = FALSE
    /\ UNCHANGED <<handler, doing, active, timer, captured>>

\* Fault: English keys take the panel away and leave the machine as it is
CapsForgetsMachine ==
    /\ active
    /\ AtRest
    /\ composed \/ Previews \/ state # "Idle" \/ pending_keys # <<>>
    /\ Kept
    /\ slots' = {} /\ data' = "none" /\ panel' = "hidden"
    /\ pending_keys' = <<>> /\ owed' = {}
    /\ expired' = (expired /\ ~Previewing)
    /\ UNCHANGED <<handler, doing, active, text_in_host, timer, requests, captured,
                   disturbed>>

CapsKey ==
    /\ active
    /\ AtRest \/ (Waiting /\ ~Held)
    /\ composed \/ Previews \/ state # "Idle" \/ pending_keys # <<>>
    /\ Reset
    /\ pending_keys' = <<>>
    /\ slots' = {}
    /\ expired' = (expired /\ ~Previewing)
    /\ IF Waiting
       THEN /\ owed' = owed \cup (IF Previews THEN {"hide"} ELSE {})
                            \cup (IF composed THEN {"clear"} ELSE {})
            /\ UNCHANGED <<marked, left, panel>>
       ELSE /\ owed' = {}
            /\ marked' = (marked /\ ~composed /\ "clear" \notin owed)
            /\ left' = (left /\ marked')
            /\ panel' = IF Previews \/ composed \/ owed # {} THEN "hidden" ELSE panel
    /\ disturbed' = FALSE
    /\ UNCHANGED <<handler, doing, active, timer, captured>>

(***************************************************************************)
(* input_text and drain_stream.                                            *)
(***************************************************************************)
ToDrain == \/ Previewing /\ expired
           \/ pending_keys # <<>> \/ bubble = "ready" \/ text \/ events # <<>>

\* expire_stale_ocr_preview, first of all
Expire ==
    IF Previewing /\ expired
    THEN /\ M!ExpireStaleOcrPreview
         /\ slots' = slots \ {"ocr"}
         /\ expired' = FALSE
    ELSE Kept /\ UNCHANGED <<slots, expired>>
ExpireHides == Previewing /\ expired

\* with nothing to drain the key is routed at once
KeyDown(k) ==
    /\ AtRest /\ active
    /\ ~ToDrain /\ owed = {}
    /\ WithinBounds(k)
    /\ RouteIt(k)

\* what a CapsLock key left undone is done with the next key, then the drain
KeyArrives ==
    /\ AtRest /\ active
    /\ ToDrain \/ owed # {}
    /\ Expire
    /\ owed' = {}
    /\ IF "clear" \in owed THEN Mark(FALSE) /\ data' = "none"
       ELSE UNCHANGED <<text_in_host, data>>
    /\ panel' = IF owed # {} \/ ExpireHides THEN "hidden" ELSE panel
    /\ disturbed' = ((disturbed /\ ~ExpireHides) \/ (owed # {} /\ Composing))
    /\ ui' = "replay" /\ outer' = TRUE
    /\ UNCHANGED <<doing, key, batch, pending_keys, active, timer, requests, captured>>

TimerFires ==
    /\ AtRest /\ timer
    /\ ToDrain
    /\ Expire
    /\ panel' = IF ExpireHides THEN "hidden" ELSE panel
    /\ ui' = "replay"
    /\ disturbed' = (disturbed /\ ~ExpireHides)
    /\ UNCHANGED <<doing, key, outer, batch, pending_keys, active, text_in_host, data,
                   owed, timer, requests, captured>>

Draining(at) == ui = at /\ ~Doing /\ key = None

ReplayKey ==
    /\ Draining("replay")
    /\ pending_keys # <<>>
    /\ key' = Head(pending_keys)
    /\ pending_keys' = Tail(pending_keys)
    /\ UNCHANGED <<machine, ui, outer, batch, doing, active, text_in_host, window, owed,
                   expired, timer, requests, captured, disturbed>>

\* the bubble's text becomes a prompt, whatever the machine is at; a template
\* without its place is refused
TakeBubble ==
    /\ Draining("replay")
    /\ pending_keys = <<>>
    /\ bubble' = IF bubble = "ready" THEN "none" ELSE bubble
    /\ steps' \in {<<>>} \cup (IF bubble = "ready"
                               THEN {<<Step([act |-> "StartBubble"])>>} ELSE {})
    /\ ui' = "slots"
    /\ UNCHANGED <<machine, key, outer, batch, hosted, pending_keys, active, text_in_host,
                   window, owed, expired, timer, requests, captures, text, disturbed>>

\* the drain is over: the key that asked for it is next
Drained ==
    /\ ui' = IF ~outer THEN "idle" ELSE "input"
    /\ key' = IF outer THEN "any" ELSE None
    /\ outer' = FALSE

\* a recognised text: a preview, or the document at once
TakeText ==
    /\ Draining("slots") /\ text
    /\ text' = FALSE
    /\ IF ~outer THEN M!BeginOcrPreview(<<M!OcrText>>) ELSE Kept
    /\ IF ~outer /\ ~Composing
       THEN /\ hosted' = "preview"
            /\ slots' = slots \cup {"ocr"} /\ data' = "preview"
            /\ expired' = FALSE
            /\ Mark(FALSE)
       ELSE /\ hosted' = IF ~outer THEN "held commit" ELSE "commit"
            /\ Unmark
            /\ UNCHANGED <<slots, data, expired, composed>>
    /\ disturbed' = (disturbed \/ Composing)
    /\ Drained
    /\ UNCHANGED <<batch, steps, pending_keys, active, panel, owed, timer, requests,
                   captures, bubble>>

TakeEvents ==
    /\ Draining("slots") /\ ~text
    /\ batch' = events
    /\ events' = <<>>
    /\ ui' = "batch"
    /\ UNCHANGED <<machine, key, outer, doing, pending_keys, active, text_in_host,
                   window, owed, expired, timer, asked, query, named, stream, streaming,
                   captured, disturbed>>

\* feed_stream_event
FeedStream ==
    LET e == Head(batch)
    IN  /\ \/ e.kind = "Chunk" /\ M!OnLlmChunk /\ UNCHANGED stream
           \/ e.kind = "Final" /\ M!OnLlmDone /\ stream' = None
           \/ e.kind = "Error" /\ M!OnLlmError /\ stream' = None
        /\ steps' = Tagged(out', None, "no")
        /\ UNCHANGED <<asked, named, data, panel>>

\* feed_candidates_event: an answer's commands reach the host, its requests do
\* not; the last question's hides the panel if the list is empty in the end.
\* After a failure the machine is told of the pinyin that was asked for.
FeedCandidates ==
    LET e == Head(batch)
        current == named /\ asked = e.pinyin
    IN  /\ \/ /\ e.kind = "Candidates"
              /\ M!OnLlmCandidates(e.pinyin, e.count, TRUE)
              /\ steps' = Tagged(out', None, IF current THEN "current" ELSE "other")
              /\ panel' = IF out' = <<>> /\ current /\ data = "none"
                          THEN "hidden" ELSE panel
           \/ /\ e.kind = "Failure" /\ named
              /\ M!OnLlmCandidates(asked, 0, TRUE)
              /\ steps' = Tagged(out', None, "no")
              /\ UNCHANGED panel
           \/ /\ e.kind = "Failure" /\ ~named
              /\ Kept
              /\ UNCHANGED <<steps, panel>>
        /\ asked' = None /\ named' = FALSE
        /\ UNCHANGED <<stream, data>>

Feed ==
    /\ Draining("batch") /\ batch # <<>>
    /\ batch' = Tail(batch)
    /\ IF OfQuery(Head(batch)) THEN FeedCandidates ELSE FeedStream
    /\ UNCHANGED <<ui, key, outer, hosted, pending_keys, active, text_in_host, slots,
                   owed, expired, timer, query, streaming, events, captured, disturbed>>

BatchDone ==
    /\ Draining("batch") /\ batch = <<>>
    /\ Drained
    /\ UNCHANGED <<machine, batch, doing, pending_keys, active, text_in_host, window,
                   owed, expired, timer, requests, captured, disturbed>>

(***************************************************************************)
(* The session's callbacks.                                                *)
(***************************************************************************)
\* commitComposition: only a text that is not empty is committed, and only the
\* commit clears the composed text, the panel and its data.  What has none, a
\* slash or a stream before its first part, the host goes on marking.
HostEndsComposition ==
    /\ AtRest /\ active
    /\ M!FeedEscape
    /\ disturbed' = FALSE
    /\ expired' = (expired /\ ~Previewing)
    /\ IF state \in {"Pinyin", "Prompt"}
          \/ (state \in {"Streaming", "ResultReady", "Failed"} /\ result > 0)
       THEN hosted' = "end" /\ Unmark /\ UNCHANGED <<timer, requests>>
       ELSE /\ CancelStream /\ timer' = FALSE
            /\ left' = marked
            /\ UNCHANGED <<hosted, marked>>
    /\ UNCHANGED <<handler, steps, pending_keys, active, composed, window, owed, captured>>

\* deactivateServer up to clearing the host's text: a window for nested keys
Deactivate ==
    /\ AtRest /\ active
    /\ hosted' = "leaving"
    /\ CancelStream /\ timer' = FALSE
    /\ bubble' = "none"
    /\ pending_keys' = <<>>
    /\ slots' = {} /\ data' = "none" /\ panel' = "hidden"
    /\ Mark(FALSE)
    /\ disturbed' = TRUE
    /\ Kept
    /\ UNCHANGED <<handler, steps, active, owed, expired, captures, text>>

\* the empty marked text is set before the first key: a window for nested keys
Activate ==
    /\ AtRest /\ ~active
    /\ active' = TRUE
    /\ Reset
    /\ slots' = {}
    /\ Unmark
    /\ hosted' = "nothing"
    /\ UNCHANGED <<handler, steps, pending_keys, panel, owed, expired, timer, captured,
                   disturbed>>

(***************************************************************************)
(* The workers and the clock.  Only a drain reads what a worker writes, so *)
(* a worker's step in the middle of a handler is the same as one before or *)
(* after it.                                                               *)
(***************************************************************************)
Main == <<machine, handler, doing, pending_keys, active, text_in_host, window, owed,
          timer, disturbed>>

QueryEnds ==
    /\ AtRest /\ query
    /\ query' = FALSE
    /\ \/ \E n \in Answers \cup {0} :
             events' = Append(events, [kind |-> "Candidates", pinyin |-> asked, count |-> n])
       \/ events' = Append(events, [kind |-> "Failure"])
    /\ UNCHANGED <<Main, expired, asked, named, stream, streaming, captured>>

Chunks == Len(SelectSeq(events \o batch, LAMBDA e : e.kind = "Chunk"))
StreamSends ==
    /\ AtRest /\ streaming
    /\ result + Chunks < MaxChunks
    /\ events' = Append(events, [kind |-> "Chunk"])
    /\ UNCHANGED <<Main, expired, asked, query, named, stream, streaming, captured>>

StreamEnds ==
    /\ AtRest /\ streaming
    /\ streaming' = FALSE
    /\ \E k \in {"Final", "Error"} : events' = Append(events, [kind |-> k])
    /\ UNCHANGED <<Main, expired, asked, query, named, stream, captured>>

\* ocr_result_slot holds one text, the newest; an empty one is not put there
CaptureEnds ==
    /\ AtRest /\ captures > 0
    /\ captures' = captures - 1
    /\ text' \in {text, TRUE}
    /\ UNCHANGED <<Main, expired, requests, bubble>>

BubbleEnds ==
    /\ AtRest /\ bubble = "running"
    /\ bubble' \in {"none", "ready"}
    /\ UNCHANGED <<Main, expired, requests, captures, text>>

\* OCR_PREVIEW_TTL
DeadlinePasses ==
    /\ Previewing /\ ~expired
    /\ expired' = TRUE
    /\ UNCHANGED <<Main, requests, captured>>

BubbleClick ==
    /\ AtRest /\ active
    /\ Room
    /\ bubble' = "running"
    /\ UNCHANGED <<Main, expired, requests, captures, text>>

Nested == \/ NestedKeyPanics \/ NestedKeyWaits
          \/ \E k \in Keys : NestedComparison(k) \/ NestedPreview(k)
Drain == TimerFires \/ ReplayKey \/ TakeBubble \/ TakeText \/ TakeEvents \/ Feed
         \/ BatchDone
Session == HostEndsComposition \/ Deactivate \/ Activate \/ BubbleClick
Workers == QueryEnds \/ StreamSends \/ StreamEnds \/ CaptureEnds \/ BubbleEnds

Next ==
    \/ \E k \in Keys : KeyDown(k)
    \/ KeyArrives \/ CapsKey \/ Route \/ Apply \/ HostReturns \/ Nested
    \/ Drain \/ Session \/ Workers \/ DeadlinePasses

Spec == Init /\ [][Next]_vars

-----------------------------------------------------------------------------
(***************************************************************************)
(* Properties.                                                             *)
(***************************************************************************)
\* While a preview, a comparison or a result takes keys of its own, the panel
\* shows it: no key is taken by something that is not on the screen.
ModeIsVisible ==
    AtRest /\ ~disturbed =>
        /\ Previewing => panel = "preview"
        /\ M!RewritePreviewing => panel = "comparison"
        /\ ai_preview # None => panel = "overlay"

\* Whatever the controller waits for is polled: there is no query and no stream
\* while the timer is stopped.
WaitedForIsPolled == AtRest /\ (asked # None \/ stream # None) => timer

\* Text the host still marks belongs to a composition, its removal is owed, or
\* commitComposition left it; and the controller still knows of it: it is what
\* CapsLock, deactivateServer and the next text take away.
MarkedIsOwed ==
    AtRest /\ marked =>
        /\ Composing \/ left \/ "clear" \in owed
        /\ composed \/ "clear" \in owed

UnderWay(p) ==
    asked = p /\ (query \/ \E i \in 1..Len(events) : OfQuery(events[i]))

\* While a pinyin blocks the keys, its candidates are on their way, as long as
\* nothing came into the composition from outside.
RequestUnderWay ==
    AtRest /\ state = "Pinyin" /\ candidates_in_flight
        /\ ~disturbed =>
        UnderWay(last_candidates_request)

\* Both together: what is awaited is under way, and its answer will be fetched.
WaitsAreServed == RequestUnderWay /\ WaitedForIsPolled
=============================================================================
