---------------------------- MODULE TextService ----------------------------
(***************************************************************************)
(* The Windows text service (text_service.rs) around the composition       *)
(* machine of verba-core: how a key reaches the machine, what the machine  *)
(* answers does to the host's composition and to the candidate window, how *)
(* candidate queries, AI streams and screen captures come back, and what   *)
(* switching modes or leaving the window takes away.                       *)
(*                                                                         *)
(* The machine is CompositionMachine, unchanged: M!FeedChar and the others *)
(* are the calls, out is what the call returned.  All handlers run on one  *)
(* thread, the host's; ui says where in a handler it is, and only worker   *)
(* threads and the clock move while it is not "idle".                      *)
(*                                                                         *)
(* Abstractions.                                                           *)
(*  - The candidate window is what it shows, not where; overlay, OCR       *)
(*    preview, comparison and candidates share the one window.             *)
(*  - An AI stream is a slot; current is the slot whose epoch is           *)
(*    stream_epoch, or None after a bump.  How a cancel reaches the daemon *)
(*    is StreamCancellation's subject.                                     *)
(*  - Captured and recognised texts are all alike and only counted.        *)
(***************************************************************************)
EXTENDS Integers, Sequences, FiniteSetsExt

CONSTANTS
    Letters, Uppers, Puncts, Quotes, PageSize, MaxPinyinBuffer, MaxDeferred,
    MaxPrompt, MaxChunks, Answers, AnswerDone, DuplicateAnswers, LateEvents,
    None,            \* the machine's constants
    Slots,           \* model bound: AI streams that have not left every trace
    MaxStreams,      \* model bound: AI streams that are not over
    MaxQueries,      \* model bound: candidate queries that are not over
    MaxCaptures,     \* model bound: captures and recognised texts
    EditsFail,       \* may the host refuse an edit session?
    HostEndsInEdit   \* may the host end the composition within an edit?

VARIABLES
    state, pinyin_buffer, candidates, last_candidates_request,
    candidates_in_flight, deferred_intents, pinyin_page, selected_index,
    ocr_preview, rewrite_source, rewrite_preview, ai_preview, prompt,
    last_request, result, quote_open, out, shown,   \* the machine
    ui,            \* where the host's thread is
    key,           \* the key being handled
    before,        \* the machine's state when handle_key_down was entered
    steps,         \* actions the machine returned that are not applied yet
    batch,         \* events on_timer has taken from the queue
    active,        \* between tsf_activate and tsf_deactivate
    ime_chinese,
    composition,   \* whether the service holds a composition
    panel,         \* what the candidate window shows
    expired,       \* whether the preview's deadline has passed
    pending,       \* candidate_req_pending, or None
    busy,          \* candidate_request_busy
    started,       \* query threads that have not set the flag yet, by pinyin
    working,       \* query threads at work, by pinyin
    current,       \* the stream of the current epoch, or None
    streams,       \* what became of each slot's worker
    sent,          \* chunks a stream has sent
    chunks,        \* the queue of events
    captures,      \* capture and recognition threads at work
    results        \* trigger_results

M == INSTANCE CompositionMachine

ASSUME TextServiceAssumption ==
    /\ M!MachineAssumption /\ M!KeyAssumption /\ M!NoneAssumption
    /\ None \notin Slots

kept == <<state, pinyin_buffer, candidates, last_candidates_request,
          candidates_in_flight, deferred_intents, pinyin_page, selected_index,
          ocr_preview, rewrite_source, rewrite_preview, ai_preview, prompt,
          last_request, result, quote_open>>
machine == <<kept, out, shown>>
handler == <<ui, key, before, steps, batch>>
mode == <<active, ime_chinese>>
queries == <<pending, busy, started, working>>
ai == <<current, streams, sent>>
capture == <<captures, results>>
vars == <<machine, handler, mode, composition, panel, expired, queries, ai,
          chunks, capture>>

Pinyins == M!Pinyins
Events == [kind : {"Candidates"}, pinyin : Pinyins, count : Answers \cup {0}]
          \cup [kind : {"Chunk", "Final", "Error"}, slot : Slots]
Controls == {"Enter", "Back", "Escape"}
Arrows == {"PageDown", "Down"}   \* their mirror images are alike
Printable == Letters \cup Uppers \cup Puncts \cup Quotes
             \cup {" ", "/", "-", "=", "1", "2", "\t"}
Keys == Controls \cup Arrows \cup Printable
Composing == state \notin {"Idle", "OcrPreviewing"}
Previewing == state = "OcrPreviewing"

Init ==
    /\ M!Init
    /\ ui = "idle" /\ key = None /\ before = None
    /\ steps = <<>> /\ batch = <<>>
    /\ active = TRUE /\ ime_chinese = TRUE
    /\ composition = FALSE
    /\ panel = "hidden"
    /\ expired = FALSE
    /\ pending = None /\ busy = FALSE
    /\ started = [p \in Pinyins |-> 0]
    /\ working = [p \in Pinyins |-> 0]
    /\ current = None
    /\ streams = [s \in Slots |-> "free"]
    /\ sent = [s \in Slots |-> 0]
    /\ chunks = <<>>
    /\ captures = 0 /\ results = 0

(***************************************************************************)
(* What the handlers share.                                                *)
(***************************************************************************)
\* CompositionMachine::new()
NewMachine ==
    /\ M!ClearCompositionState
    /\ state' = "Idle"
    /\ prompt' = <<>> /\ last_request' = None /\ result' = 0
    /\ quote_open' = [c \in Quotes |-> FALSE]
    /\ out' = <<>> /\ shown' = None

Queries(p) == started[p] + working[p]
Answered(p) == {i \in 1..Len(chunks) :
                   chunks[i].kind = "Candidates" /\ chunks[i].pinyin = p}
\* queries whose answer the machine has not seen, the waiting one included
QueriesOpen ==
    FoldSet(LAMBDA p, n : n + Queries(p) + Cardinality(Answered(p)),
            IF pending = None THEN 0 ELSE 1, Pinyins)

\* start_rime_candidates: the thread sets the flag itself, later
StartQuery(p) ==
    /\ started' = [started EXCEPT ![p] = @ + 1]
    /\ pending' = None
    /\ UNCHANGED <<busy, working>>

ScheduleQuery(p) ==
    IF busy
    THEN pending' = p /\ UNCHANGED <<busy, started, working>>
    ELSE StartQuery(p)

CancelQuery == pending' = None /\ UNCHANGED <<busy, started, working>>

\* what cancel_stream does beside CancelQuery
CancelLlm ==
    /\ current' = None
    /\ streams' = [s \in Slots |->
                      IF s = current /\ streams[s] = "open" THEN "cancelled"
                      ELSE streams[s]]
    /\ UNCHANGED sent

\* the machine is replaced while its stream goes on
LeaveStream ==
    /\ streams' = [s \in Slots |->
                      IF s = current /\ streams[s] = "open" THEN "orphan"
                      ELSE streams[s]]
    /\ UNCHANGED <<current, sent>>

Unused(s) ==
    /\ streams[s] = "free"
    /\ Cardinality({t \in Slots : streams[t] # "free"}) < MaxStreams
    /\ \A i \in 1..Len(chunks) :
          chunks[i].kind # "Candidates" => chunks[i].slot # s
    /\ s # current
StartStream ==
    \E s \in Slots :
        /\ Unused(s)
        /\ current' = s
        /\ streams' = [streams EXCEPT ![s] = "open"]
        /\ sent' = [sent EXCEPT ![s] = 0]

(***************************************************************************)
(* Keys.                                                                   *)
(***************************************************************************)
\* idle_claim_char, pinyin_claim_char
Claims(k) ==
    CASE state = "Idle" -> k \in Printable \ {" ", "-", "=", "1", "2", "\t"}
      [] state = "Pinyin" -> k # "\t"
      [] OTHER -> k \notin Arrows

\* how much a key adds to the prompt
Growth(k) ==
    IF k \in Letters \cup {"Back", "Escape"} THEN 0
    ELSE IF pinyin_buffer # <<>>
    THEN IF k \in {" ", "1", "2", "Enter"} THEN 1 ELSE 2
    ELSE IF k \in {"\t", "Enter"} THEN 0 ELSE 1

\* the user does not outrun the model bounds
WithinBounds(k) ==
    /\ QueriesOpen < MaxQueries
    /\ state \in {"Prompt", "ResultReady", "Failed"} => \E s \in Slots : Unused(s)
    /\ state = "Prompt" => Len(prompt) + Growth(k) <= MaxPrompt

\* OnTestKeyDown; a key it does not claim goes to the host and changes nothing
Claimed(k) ==
    /\ ui = "idle" /\ active
    /\ (Previewing /\ ~expired) \/ ime_chinese
    /\ Claims(k) /\ WithinBounds(k)

\* Time passes between OnTestKeyDown and OnKeyDown.  It can only end a preview,
\* so the two are apart here, and one step everywhere else.
TestKeyDown(k) ==
    /\ Claimed(k)
    /\ Previewing
    /\ ui' = "claimed"
    /\ key' = k
    /\ UNCHANGED <<machine, before, steps, batch, mode, composition, panel,
                   expired, queries, ai, chunks, capture>>

\* the action a call returned is applied next, with the request it carried
Returned ==
    /\ steps' = [i \in 1..Len(out') |->
                   [do |-> out'[i],
                    ask |-> IF last_candidates_request' # last_candidates_request
                            THEN last_candidates_request' ELSE None,
                    event |-> FALSE]]
    /\ ui' = IF out' = <<>> THEN "idle" ELSE "applying"
    /\ UNCHANGED batch

\* the call itself, with the state that was read on entry
Feed(k, was) ==
    /\ IF k \in Arrows
       THEN was = "Pinyin" /\ \/ k = "PageDown" /\ M!Paginate(1)
                              \/ k = "Down" /\ M!FeedArrow(FALSE)
       ELSE \/ k = "Enter" /\ M!FeedEnter
            \/ k = "Back" /\ M!FeedBackspace
            \/ k = "Escape" /\ M!FeedEscape
            \/ k \in Printable /\ M!FeedChar(k)
    /\ Returned
    /\ UNCHANGED <<mode, composition, panel, expired, queries, ai, chunks, capture>>

Compares(k) == M!RewritePreviewing /\ k \in {"Enter", " ", "1", "2", "Escape"}

KeyDown(k) ==
    /\ Claimed(k)
    /\ ~Previewing /\ ~Compares(k)
    /\ Feed(k, state)
    /\ UNCHANGED <<key, before>>

\* the comparison takes its own keys
KeyDownRewrite(k) ==
    /\ Claimed(k)
    /\ Compares(k)
    /\ M!FeedRewritePreview(IF k = "2" THEN "Source"
                            ELSE IF k = "Escape" THEN "Escape" ELSE "Rewritten")
    /\ panel' = "hidden"
    /\ Returned
    /\ UNCHANGED <<key, before, mode, composition, expired, queries, ai, chunks,
                   capture>>

\* Fault: the deadline is left to the timer.
ExpiredByTimerOnly == FALSE
Overdue == expired

KeyDownPreview ==
    /\ ui = "claimed"
    /\ Previewing /\ ~Overdue
    /\ key \in {"Enter", " ", "1", "Escape"}
    /\ M!FeedOcrPreview(IF key = "Escape" THEN "Escape" ELSE "Confirm")
    /\ panel' = "hidden"
    /\ expired' = FALSE
    /\ Returned
    /\ key' = None
    /\ UNCHANGED <<before, mode, composition, queries, ai, chunks, capture>>

\* any other key ends the preview, and goes to the host or on to the machine;
\* so does every key when the deadline has passed
KeyDownEndsPreview ==
    /\ ui = "claimed"
    /\ Previewing
    /\ Overdue \/ key \notin {"Enter", " ", "1", "Escape"}
    /\ M!EndOcrPreview
    /\ panel' = "hidden"
    /\ expired' = FALSE
    /\ IF ~Overdue /\ (~ime_chinese \/ key = "\t")
       THEN ui' = "idle" /\ key' = None /\ UNCHANGED before
       ELSE ui' = "routing" /\ before' = state /\ UNCHANGED key
    /\ UNCHANGED <<steps, batch, mode, composition, queries, ai, chunks, capture>>

KeyDownGoesOn ==
    /\ ui = "routing"
    /\ Feed(key, before)
    /\ key' = None /\ before' = None

\* Ctrl+Alt+O, claimed in both modes
Hotkey ==
    /\ ui = "idle" /\ active
    /\ ~Composing
    /\ captures + results < MaxCaptures
    /\ captures' = captures + 1
    /\ UNCHANGED <<machine, handler, mode, composition, panel, expired, queries,
                   ai, chunks, results>>

(***************************************************************************)
(* apply_action.                                                           *)
(***************************************************************************)
Outcomes == {"works"} \cup (IF EditsFail THEN {"fails"} ELSE {})
                      \cup (IF HostEndsInEdit THEN {"ended"} ELSE {})

\* the machine is left alone; what it returned has been taken
Kept ==
    /\ out' = <<>> /\ shown' = None
    /\ UNCHANGED kept

\* set_preedit.  The host may end the composition within the call: then
\* OnCompositionTerminated has run before the reference is put back.
SetPreedit(edit) ==
    /\ composition' = (composition \/ edit # "fails")
    /\ IF edit = "ended" THEN NewMachine ELSE Kept

Taken == /\ steps' = Tail(steps)
         /\ ui' = IF Len(steps) = 1 THEN "idle" ELSE "applying"
         /\ UNCHANGED <<key, before, batch, mode, chunks, results>>

Applying(acts) ==
    /\ ui = "applying"
    /\ Head(steps).do.act \in acts
    /\ Taken

\* an empty list keeps what the window shows
ApplyPinyin ==
    /\ Applying({"UpdatePinyin"})
    /\ \E edit \in Outcomes :
          LET step == Head(steps)
              returns == edit = "fails" /\ ~step.event
              left == IF edit = "ended" THEN "hidden" ELSE panel
          IN  /\ SetPreedit(edit)
              /\ panel' = IF ~returns /\ (step.do.count > 0 \/ step.do.raw)
                          THEN "candidates" ELSE left
              /\ IF ~returns /\ step.ask # None THEN ScheduleQuery(step.ask)
                 ELSE IF edit = "ended" THEN CancelQuery
                 ELSE UNCHANGED queries
              /\ IF edit = "ended" THEN CancelLlm ELSE UNCHANGED ai
    /\ UNCHANGED <<expired, captures>>

\* the result overlay does not follow the machine back into the prompt
ApplyPrompt ==
    /\ Applying({"EnterPrompt", "UpdatePrompt"})
    /\ \E edit \in Outcomes :
          /\ SetPreedit(edit)
          /\ panel' = IF ai_preview = None \/ edit = "ended" THEN "hidden" ELSE panel
          /\ IF edit = "ended" THEN CancelQuery /\ CancelLlm
             ELSE UNCHANGED <<queries, ai>>
    /\ UNCHANGED <<expired, captures>>

ApplyResult ==
    /\ Applying({"UpdateResult"})
    /\ \E edit \in Outcomes :
          /\ SetPreedit(edit)
          /\ panel' = IF edit = "fails" THEN panel ELSE "overlay"
          /\ IF edit = "ended" THEN CancelQuery /\ CancelLlm
             ELSE UNCHANGED <<queries, ai>>
    /\ UNCHANGED <<expired, captures>>

\* the state line that a Final or an Error leaves behind
ApplyPreedit ==
    /\ Applying({"Preedit"})
    /\ \E edit \in Outcomes :
          /\ SetPreedit(edit)
          /\ panel' = IF edit = "ended" THEN "hidden" ELSE panel
          /\ IF edit = "ended" THEN CancelQuery /\ CancelLlm
             ELSE UNCHANGED <<queries, ai>>
    /\ UNCHANGED <<expired, captures>>

\* the answer is asked for, and its place shown, before it comes
ApplyStart ==
    /\ Applying({"StartLlm", "StartRewrite"})
    /\ \E edit \in Outcomes :
          /\ SetPreedit(edit)
          /\ IF edit = "ended" THEN CancelQuery ELSE UNCHANGED queries
    /\ panel' = "overlay"
    /\ StartStream
    /\ UNCHANGED <<expired, captures>>

\* commands that need no stream: a phrase, speech, a screenshot, dictation
ApplyCommand(captured) ==
    /\ Applying({"StartLlm"})
    /\ captures + results + captured <= MaxCaptures
    /\ captures' = captures + captured
    /\ NewMachine
    /\ composition' = FALSE
    /\ panel' = "hidden"
    /\ UNCHANGED <<expired, queries, ai>>

ApplyStartCapture ==
    /\ Applying({"StartCapture"})
    /\ NewMachine
    /\ composition' = FALSE
    /\ panel' = "hidden"
    /\ UNCHANGED <<expired, queries, ai, captures>>

ApplyReady ==
    /\ Applying({"ResultReady", "LlmFailed"})
    /\ Kept
    /\ panel' = IF Head(steps).do.act = "ResultReady" \/ ai_preview = "Failed"
                THEN "overlay" ELSE panel
    /\ UNCHANGED <<composition, expired, queries, ai, captures>>

ApplyRewriteReady ==
    /\ Applying({"RewriteReady"})
    /\ M!BeginRewritePreview(Head(steps).do.rewritten, Head(steps).do.source)
    /\ panel' = IF state = "ResultReady" THEN "comparison" ELSE panel
    /\ UNCHANGED <<composition, expired, queries, ai, captures>>

ApplyCommit ==
    /\ Applying({"CommitImmediate"})
    /\ Kept
    /\ panel' = "hidden"
    /\ composition' = FALSE
    /\ CancelQuery
    /\ UNCHANGED <<expired, ai, captures>>

\* a refused edit returns before cancel_stream
ApplyCommitResult ==
    /\ Applying({"CommitResult"})
    /\ Kept
    /\ panel' = "hidden"
    /\ composition' = FALSE
    /\ CancelQuery
    /\ \/ CancelLlm
       \/ composition /\ EditsFail /\ UNCHANGED ai
    /\ UNCHANGED <<expired, captures>>

ApplyCancel ==
    /\ Applying({"Cancel"})
    /\ Kept
    /\ panel' = "hidden"
    /\ composition' = FALSE
    /\ \/ CancelQuery /\ CancelLlm
       \/ composition /\ EditsFail /\ UNCHANGED <<queries, ai>>
    /\ UNCHANGED <<expired, captures>>

Apply ==
    \/ ApplyPinyin \/ ApplyPrompt \/ ApplyResult \/ ApplyPreedit
    \/ ApplyStart \/ (\E n \in {0, 1} : ApplyCommand(n)) \/ ApplyStartCapture
    \/ ApplyReady \/ ApplyRewriteReady
    \/ ApplyCommit \/ ApplyCommitResult \/ ApplyCancel

(***************************************************************************)
(* on_timer.                                                               *)
(***************************************************************************)
OfThisEpoch(e) == e.kind # "Candidates" => e.slot = current

TakeBatch ==
    /\ batch' = chunks
    /\ chunks' = <<>>
    /\ ui' = IF chunks = <<>> THEN "idle" ELSE "collecting"

\* the deadline first, then the query that was waiting for its turn
Tick ==
    /\ ui = "idle" /\ active
    /\ \/ /\ Previewing /\ expired
          /\ M!ExpireStaleOcrPreview
          /\ panel' = "hidden"
          /\ expired' = FALSE
       \/ /\ ~(Previewing /\ expired)
          /\ UNCHANGED <<machine, panel, expired>>
    /\ IF pending # None /\ ~busy THEN StartQuery(pending) ELSE UNCHANGED queries
    /\ IF results = 0 THEN TakeBatch
       ELSE ui' = "draining" /\ UNCHANGED <<batch, chunks>>
    /\ UNCHANGED <<key, before, steps, mode, composition, ai, capture>>

\* drain_trigger_results: a preview where the machine takes one, else the text
\* goes straight into the document, and the host may end the composition there
DrainResult ==
    /\ ui = "draining"
    /\ results' = results - 1
    /\ \E edit \in Outcomes :
          IF ~Composing
          THEN /\ M!BeginOcrPreview(<<M!OcrText>>)
               /\ panel' = "preview" /\ expired' = FALSE
               /\ UNCHANGED <<composition, queries, ai>>
          ELSE IF edit = "ended"
          THEN /\ NewMachine
               /\ composition' = FALSE
               /\ panel' = "hidden"
               /\ CancelQuery /\ CancelLlm
               /\ UNCHANGED expired
          ELSE /\ M!BeginOcrPreview(<<M!OcrText>>)
               /\ UNCHANGED <<composition, panel, expired, queries, ai>>
    /\ IF results = 1 THEN TakeBatch ELSE UNCHANGED <<ui, batch, chunks>>
    /\ UNCHANGED <<key, before, steps, mode, captures>>

\* of several growing results only the last is drawn
Collected(acts) ==
    LET new == [i \in 1..Len(acts) |-> [do |-> acts[i], ask |-> None, event |-> TRUE]]
        redrawn == /\ new # <<>> /\ new[1].do.act = "UpdateResult"
                   /\ steps # <<>> /\ steps[Len(steps)].do.act = "UpdateResult"
    IN  (IF redrawn THEN SubSeq(steps, 1, Len(steps) - 1) ELSE steps) \o new

StateLine == IF state' \in {"Idle", "OcrPreviewing"} THEN <<>>
             ELSE <<[act |-> "Preedit"]>>

\* collect_steps: the machine sees every event before anything is drawn.  Those
\* of another epoch are dropped; the epoch does not move meanwhile.
Collect ==
    LET e == Head(batch)
    IN  /\ ui = "collecting"
        /\ \/ /\ ~OfThisEpoch(e)
              /\ UNCHANGED <<machine, steps>>
           \/ /\ OfThisEpoch(e)
              /\ e.kind = "Chunk" /\ M!OnLlmChunk
              /\ steps' = Collected(out')
           \/ /\ OfThisEpoch(e)
              /\ e.kind = "Final" /\ M!OnLlmDone
              /\ steps' = Collected(out' \o StateLine)
           \/ /\ OfThisEpoch(e)
              /\ e.kind = "Error" /\ M!OnLlmError
              /\ steps' = Collected(out' \o StateLine)
           \/ /\ e.kind = "Candidates"
              /\ M!OnLlmCandidates(e.pinyin, e.count, TRUE)
              /\ steps' = Collected(out')
        /\ batch' = Tail(batch)
        /\ ui' = IF Len(batch) > 1 THEN "collecting"
                 ELSE IF steps' = <<>> THEN "idle" ELSE "applying"
        /\ UNCHANGED <<key, before, mode, composition, panel, expired, queries, ai,
                       chunks, capture>>

(***************************************************************************)
(* The worker threads and the clock.                                       *)
(***************************************************************************)
Others == <<machine, handler, mode, composition, panel>>

\* BusyGuard::new
QueryStarts(p) ==
    /\ started[p] > 0
    /\ started' = [started EXCEPT ![p] = @ - 1]
    /\ working' = [working EXCEPT ![p] = @ + 1]
    /\ busy' = TRUE
    /\ UNCHANGED <<Others, expired, pending, ai, chunks, capture>>

\* Fault: a query that fails says nothing.
FailsSilently(p) ==
    /\ working[p] > 0
    /\ working' = [working EXCEPT ![p] = @ - 1]
    /\ busy' = FALSE
    /\ \/ UNCHANGED chunks
       \/ \E n \in Answers :
             chunks' = Append(chunks, [kind |-> "Candidates", pinyin |-> p, count |-> n])
    /\ UNCHANGED <<Others, expired, pending, started, ai, capture>>

\* the candidates, or push_rime_fail; the guard is dropped with the thread
QueryEnds(p) ==
    /\ working[p] > 0
    /\ working' = [working EXCEPT ![p] = @ - 1]
    /\ busy' = FALSE
    /\ \E n \in Answers \cup {0} :
          chunks' = Append(chunks, [kind |-> "Candidates", pinyin |-> p, count |-> n])
    /\ UNCHANGED <<Others, expired, pending, started, ai, capture>>

StreamSends(s) ==
    /\ streams[s] # "free"
    /\ sent[s] < MaxChunks
    /\ sent' = [sent EXCEPT ![s] = @ + 1]
    /\ chunks' = Append(chunks, [kind |-> "Chunk", slot |-> s])
    /\ UNCHANGED <<Others, expired, queries, current, streams, capture>>

\* a cancelled worker may leave without a word
StreamEnds(s) ==
    /\ streams[s] # "free"
    /\ streams' = [streams EXCEPT ![s] = "free"]
    /\ sent' = [sent EXCEPT ![s] = 0]
    /\ \/ \E k \in {"Final", "Error"} :
             chunks' = Append(chunks, [kind |-> k, slot |-> s])
       \/ streams[s] = "cancelled" /\ UNCHANGED chunks
    /\ UNCHANGED <<Others, expired, queries, current, capture>>

\* trigger_async ends with a text, or with nothing
CaptureEnds ==
    /\ captures > 0
    /\ captures' = captures - 1
    /\ results' \in {results, results + 1}
    /\ UNCHANGED <<Others, expired, queries, ai, chunks>>

\* OCR_PREVIEW_TTL
DeadlinePasses ==
    /\ Previewing /\ ~expired
    /\ expired' = TRUE
    /\ UNCHANGED <<Others, queries, ai, chunks, capture>>

(***************************************************************************)
(* The host and the user.                                                  *)
(***************************************************************************)
\* Fault: the composition is gone and the machine composes on.
ForgetsCompositionOnly ==
    /\ ui = "idle" /\ active /\ composition
    /\ composition' = FALSE
    /\ panel' = "hidden"
    /\ CancelQuery /\ CancelLlm
    /\ UNCHANGED <<machine, handler, mode, expired, chunks, capture>>

\* OnCompositionTerminated between two handlers
HostEndsComposition ==
    /\ ui = "idle" /\ active /\ composition
    /\ NewMachine
    /\ composition' = FALSE
    /\ panel' = "hidden"
    /\ CancelQuery /\ CancelLlm
    /\ UNCHANGED <<handler, mode, expired, chunks, capture>>

\* Fault: the preview outlives the switch, its window does not.
ToggleKeepsPreview ==
    /\ ui = "idle" /\ active
    /\ ime_chinese' = ~ime_chinese
    /\ IF Composing
       THEN NewMachine /\ composition' = FALSE /\ LeaveStream
       ELSE UNCHANGED <<machine, composition, ai>>
    /\ panel' = "hidden"
    /\ UNCHANGED <<handler, active, expired, queries, chunks, capture>>

\* toggle_ime: Shift alone
Toggle ==
    /\ ui = "idle" /\ active
    /\ ime_chinese' = ~ime_chinese
    /\ IF state # "Idle"
       THEN NewMachine /\ composition' = FALSE /\ LeaveStream
       ELSE UNCHANGED <<machine, composition, ai>>
    /\ panel' = "hidden"
    /\ expired' = FALSE
    /\ UNCHANGED <<handler, active, queries, chunks, capture>>

\* tsf_deactivate does not hide the window
Deactivate ==
    /\ ui = "idle" /\ active
    /\ active' = FALSE
    /\ NewMachine
    /\ composition' = FALSE
    /\ LeaveStream
    /\ panel' = IF panel = "hidden" THEN "hidden" ELSE "orphan"
    /\ expired' = FALSE
    /\ UNCHANGED <<handler, ime_chinese, queries, chunks, capture>>

Activate ==
    /\ ui = "idle" /\ ~active
    /\ active' = TRUE
    /\ ime_chinese' = TRUE
    /\ UNCHANGED <<machine, handler, composition, panel, expired, queries, ai,
                   chunks, capture>>

UserKey(k) == TestKeyDown(k) \/ KeyDown(k) \/ KeyDownRewrite(k)
KeyHandler == KeyDownPreview \/ KeyDownEndsPreview \/ KeyDownGoesOn
Timer == DrainResult \/ Collect
Workers ==
    \/ \E p \in Pinyins : QueryStarts(p) \/ QueryEnds(p)
    \/ \E s \in Slots : StreamSends(s) \/ StreamEnds(s)
    \/ CaptureEnds

Next ==
    \/ \E k \in Keys : UserKey(k)
    \/ Hotkey \/ KeyHandler \/ Apply
    \/ Tick \/ Timer \/ Workers \/ DeadlinePasses
    \/ HostEndsComposition \/ Toggle \/ Deactivate \/ Activate

Spec == Init /\ [][Next]_vars

-----------------------------------------------------------------------------
(***************************************************************************)
(* Properties.                                                             *)
(***************************************************************************)
\* The window and the keys agree: while a preview, a comparison or a result
\* takes keys of its own, the window shows it, and when the window shows one of
\* them its keys are live; candidates are shown only while composing.
WindowMatchesKeys ==
    ui = "idle" =>
        /\ Previewing <=> panel = "preview"
        /\ M!RewritePreviewing <=> panel = "comparison"
        /\ ai_preview # None <=> panel = "overlay"
        /\ panel = "candidates" => pinyin_buffer # <<>>

\* The service holds a composition while the machine composes, and only then:
\* '/' after a candidate is the one state that has no composition yet.
CompositionMatchesMachine ==
    ui = "idle" =>
        /\ composition => Composing
        /\ Composing /\ state # "PendingSlash" => composition

\* A stream that is neither over nor cancelled is the one the machine waits for.
OpenStreamAwaited ==
    ui = "idle" =>
        \A s \in Slots : streams[s] = "open" => s = current /\ state = "Streaming"

UnderWay(p) == pending = p \/ Queries(p) > 0 \/ Answered(p) # {}

\* While a pinyin blocks the keys, its candidates are on their way: every way out
\* of schedule_candidate_request, of a thread and of the timer keeps the request
\* or answers it.
RequestUnderWay ==
    ui = "idle" /\ state = "Pinyin" /\ candidates_in_flight =>
        UnderWay(last_candidates_request)

\* Both together: what is awaited is under way, and what is under way is awaited.
WaitsMatchWork == RequestUnderWay /\ OpenStreamAwaited

\* The texts that may still reach the document.
OnOffer == captures + results + (IF Previewing /\ ~expired THEN 1 ELSE 0)

\* A text reaches the document from its preview, or as a result straight away.
IsOcrCommit ==
    /\ out' # out /\ out' # <<>> /\ out'[1].act = "CommitImmediate"
    /\ out'[1].text = <<M!OcrText>>
IsInserted == results' < results /\ state' # "OcrPreviewing"

\* A recognised text reaches the document at most once, and never after its
\* preview was dismissed, replaced or taken away or its time has passed: only a
\* new capture brings another one on offer, and each that reaches the document
\* is no longer on offer.  From a preview it does so only while the window shows
\* it, without one only while the user composes.
TextUsedOnce ==
    [][ /\ OnOffer' > OnOffer => captures' > captures
        /\ IsOcrCommit \/ IsInserted => OnOffer' < OnOffer
        /\ IsOcrCommit => panel = "preview"
        /\ IsInserted => Composing ]_vars
=============================================================================
