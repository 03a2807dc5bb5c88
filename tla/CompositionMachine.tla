------------------------- MODULE CompositionMachine -------------------------
(***************************************************************************)
(* The composition state machine of verba-core (machine.rs): what every    *)
(* key, every candidate answer and every LLM stream event does to the      *)
(* composition, and the actions the machine hands back to its frontend.    *)
(*                                                                         *)
(* Data abstractions.                                                      *)
(*  - A text is a sequence of tokens: the raw letters of a composition,    *)
(*    the i-th candidate of a pinyin, a key, a result, an OCR text.        *)
(*  - A candidate list is its length: the i-th candidate of pinyin p is    *)
(*    the token Cand(i) of p.  Answers for one pinyin share their prefix,  *)
(*    so appending the candidates not seen yet keeps the longer list.      *)
(*  - dictionary_candidates, committed and commit_offset are always empty  *)
(*    in this single-engine build (machine.rs says so) and are left out;   *)
(*    pinyin_candidates equals llm_candidates and is one variable.         *)
(*  - ocr_preview_deadline is set and cleared with ocr_preview; that it    *)
(*    has passed is the nondeterminism of ExpireStaleOcrPreview.           *)
(***************************************************************************)
EXTENDS Integers, Sequences, FiniteSets

CONSTANTS
    Letters,          \* lower-case letters
    Uppers,           \* upper-case letters
    Puncts,           \* other printable keys, '0' included, without a role
    Quotes,           \* the paired quote keys, each alternating on its own
    PageSize,         \* PINYIN_PAGE_SIZE, 9 in the code
    MaxPinyinBuffer,  \* MAX_PINYIN_BUFFER, 48 in the code
    MaxDeferred,      \* MAX_DEFERRED, 16 in the code
    MaxPrompt,        \* model bound: tokens in a prompt
    MaxChunks,        \* model bound: chunks in a result
    Answers,          \* how many candidates an answer can carry
    AnswerDone,       \* the done flags an answer can carry
    DuplicateAnswers, \* may an answer be delivered twice?
    LateEvents,       \* may stream events arrive when no stream is open?
    None

Digits == {"1", "2", "3", "4", "5", "6", "7", "8", "9"}
Suffixes == Uppers \cup Puncts \cup Quotes
Chars == Letters \cup Suffixes \cup Digits \cup {" ", "/", "-", "=", "\t"}
Kinds == {"raw", "cand", "result", "ocr"}

ASSUME MachineAssumption ==
    /\ PageSize \in 1..9
    /\ MaxPinyinBuffer \in Nat \ {0}
    /\ MaxDeferred \in Nat
    /\ MaxPrompt \in Nat /\ MaxChunks \in Nat
    /\ Answers \subseteq Nat
    /\ AnswerDone \subseteq BOOLEAN
    /\ DuplicateAnswers \in BOOLEAN /\ LateEvents \in BOOLEAN

\* a key has one role, and no mark of a text is a key
ASSUME KeyAssumption ==
    /\ Letters \cap (Suffixes \cup Digits \cup {" ", "/", "-", "=", "\t"}) = {}
    /\ Suffixes \cap (Digits \cup {" ", "/", "-", "=", "\t"}) = {}
    /\ Kinds \cap Chars = {}
    /\ IsFiniteSet(Quotes)

VARIABLES
    state,
    pinyin_buffer, candidates, last_candidates_request, candidates_in_flight,
    deferred_intents, pinyin_page, selected_index,
    ocr_preview, rewrite_source, rewrite_preview, ai_preview,
    prompt, last_request, result,
    quote_open,
    out,     \* the actions returned by the last call
    shown    \* frontend: the page last put on the candidate panel, or None

pinyinVars == <<pinyin_buffer, candidates, last_candidates_request,
                candidates_in_flight, deferred_intents, pinyin_page,
                selected_index>>
previewVars == <<ocr_preview, rewrite_source, rewrite_preview, ai_preview>>
llmVars == <<prompt, last_request, result>>
vars == <<state, pinyinVars, previewVars, llmVars, quote_open, out, shown>>

(***************************************************************************)
(* Texts and returned actions.                                             *)
(***************************************************************************)
Token == [what : Kinds \cup Chars, py : Seq(Letters), rank : Nat]
Text == Seq(Token)
Requests == [prompt : Text, rewrite_source : Text \cup {None}]
Comparisons == [rewritten : Nat, source : Text]

\* None stands for Rust's None: no value is confused with it
ASSUME NoneAssumption ==
    /\ None \notin Seq(Letters) /\ None \notin Text
    /\ None \notin Requests /\ None \notin Comparisons
    /\ None \notin {"Streaming", "Ready", "Failed"}

Key(c) == [what |-> c, py |-> <<>>, rank |-> 0]
Raw == [what |-> "raw", py |-> pinyin_buffer, rank |-> 0]
Cand(i) == [what |-> "cand", py |-> pinyin_buffer, rank |-> i]
ResultText(n) ==
    IF n = 0 THEN <<>> ELSE <<[what |-> "result", py |-> <<>>, rank |-> n]>>

\* commit_pinyin_text when the composition has n candidates
FirstOrRaw(n) == IF n > 0 THEN Cand(1) ELSE Raw

\* punct_commit_text over a run of keys: each paired quote opens (rank 1) or
\* closes (rank 2) by the parity of the same quotes before it
QuotesBefore(keys, i, c) == Cardinality({j \in 1..(i - 1) : keys[j] = c})
Odd(n) == n % 2 = 1
Opens(keys, i) == quote_open[keys[i]] = Odd(QuotesBefore(keys, i, keys[i]))
FoldKeys(keys) ==
    [i \in 1..Len(keys) |->
        [what |-> keys[i], py |-> <<>>,
         rank |-> IF keys[i] \notin Quotes THEN 0
                  ELSE IF Opens(keys, i) THEN 1 ELSE 2]]
\* fault: the quote state is turned once however many quotes are committed
QuotesTurnedOnce(keys) ==
    [c \in Quotes |-> quote_open[c] # (\E j \in 1..Len(keys) : keys[j] = c)]

QuotesAfter(keys) ==
    [c \in Quotes |-> quote_open[c] # Odd(QuotesBefore(keys, Len(keys) + 1, c))]

UpdatePinyin(n, page, sel, raw) ==
    [act |-> "UpdatePinyin", count |-> n, page |-> page, selected |-> sel,
     raw |-> raw]

\* Action::None is the empty sequence
Quiet == out' = <<>> /\ UNCHANGED shown
Emit(action) ==
    /\ out' = <<action>>
    /\ shown' = IF action.act = "UpdatePinyin"
                THEN [count |-> action.count, page |-> action.page,
                      selected |-> action.selected]
                ELSE None
Tell(name) == Emit([act |-> name])
Commit(text) == Emit([act |-> "CommitImmediate", text |-> text])

(***************************************************************************)
(* Shared pieces of the handlers.                                          *)
(***************************************************************************)
ClearCompositionState ==
    /\ pinyin_buffer' = <<>>
    /\ candidates' = 0
    /\ last_candidates_request' = None
    /\ candidates_in_flight' = FALSE
    /\ deferred_intents' = <<>>
    /\ pinyin_page' = 0
    /\ selected_index' = 0
    /\ ocr_preview' = None
    /\ rewrite_source' = None
    /\ rewrite_preview' = None
    /\ ai_preview' = None

Composing == pinyin_buffer # <<>>
BlindWindow == candidates_in_flight /\ candidates = 0

\* display_candidate_texts adds the raw letters once an empty answer is final
ShowsRaw(buffer, n, inFlight) ==
    n = 0 /\ ~inFlight /\ last_candidates_request = buffer

\* pinyin_action: redraw, and ask for candidates of a pinyin not asked last
PinyinAction(buffer, n, page, sel) ==
    LET fresh == buffer # last_candidates_request
    IN  /\ last_candidates_request' = buffer
        /\ candidates_in_flight' = (candidates_in_flight \/ fresh)
        /\ Emit(UpdatePinyin(n, page, sel,
                             ShowsRaw(buffer, n, candidates_in_flight)))

\* fault: removing a letter redraws without asking for the shorter pinyin
BufferToAsksOnlyLonger(buffer) ==
    /\ pinyin_buffer' = buffer
    /\ candidates' = 0
    /\ pinyin_page' = 0
    /\ IF Len(buffer) > Len(pinyin_buffer)
       THEN PinyinAction(buffer, 0, 0, selected_index)
       ELSE Quiet /\ UNCHANGED <<last_candidates_request, candidates_in_flight>>
    /\ UNCHANGED <<deferred_intents, selected_index>>

\* a letter added or removed: refresh_candidates, then pinyin_action
BufferTo(buffer) ==
    /\ pinyin_buffer' = buffer
    /\ candidates' = 0
    /\ pinyin_page' = 0
    /\ PinyinAction(buffer, 0, 0, selected_index)
    /\ UNCHANGED <<deferred_intents, selected_index>>

\* commit one token and the keys after it, and leave the composition
CommitPinyin(next, head, keys) ==
    /\ state' = next
    /\ ClearCompositionState
    /\ quote_open' = QuotesAfter(keys)
    /\ Commit(<<head>> \o FoldKeys(keys))
    /\ UNCHANGED llmVars

\* queue a key of the blind window; a full queue is settled as raw text
Defer(c) ==
    LET queue == Append(deferred_intents, c)
    IN  IF Len(queue) > MaxDeferred
        THEN CommitPinyin("Idle", Raw, queue)
        ELSE /\ deferred_intents' = queue
             /\ UNCHANGED <<state, pinyin_buffer, candidates, pinyin_page,
                            selected_index, previewVars, llmVars, quote_open>>
             /\ IF c = " "
                THEN Quiet /\ UNCHANGED <<last_candidates_request,
                                          candidates_in_flight>>
                ELSE PinyinAction(pinyin_buffer, candidates, pinyin_page,
                                  selected_index)

(***************************************************************************)
(* feed_char, by state.                                                    *)
(***************************************************************************)
\* Idle; a character fed to an OCR preview first ends the preview
FeedIdle(c) ==
    /\ state \in {"Idle", "OcrPreviewing"}
    /\ ocr_preview' = IF state = "OcrPreviewing" THEN None ELSE ocr_preview
    /\ UNCHANGED <<rewrite_source, rewrite_preview, ai_preview, llmVars>>
    /\ \/ /\ c = "/"
          /\ state' = "PendingSlash"
          /\ Tell("UpdatePrompt")
          /\ UNCHANGED <<pinyinVars, quote_open>>
       \/ /\ c \in Letters
          /\ state' = "Pinyin"
          /\ BufferTo(<<c>>)
          /\ UNCHANGED quote_open
       \/ /\ c \notin Letters \cup {"/"}
          /\ state' = "Idle"
          /\ quote_open' = QuotesAfter(<<c>>)
          /\ Commit(FoldKeys(<<c>>))
          /\ UNCHANGED pinyinVars

FeedPendingSlash(c) ==
    /\ state = "PendingSlash"
    /\ UNCHANGED <<pinyinVars, previewVars, last_request, result, quote_open>>
    /\ \/ /\ c = "/"
          /\ state' = "Prompt"
          /\ prompt' = <<>>
          /\ Tell("EnterPrompt")
       \/ /\ c # "/"
          /\ state' = "Idle"
          /\ Commit(<<Key("/"), Key(c)>>)
          /\ UNCHANGED prompt

\* fault: '/' leaves the composition and with it the waiting keys
SlashDropsQueue ==
    /\ state = "Pinyin"
    /\ CommitPinyin("PendingSlash", FirstOrRaw(candidates), <<>>)

\* '/' gives up waiting: the queued keys go out with this commit
FeedPinyinSlash ==
    /\ state = "Pinyin"
    /\ CommitPinyin("PendingSlash", FirstOrRaw(candidates), deferred_intents)

FeedPinyinLetter(c) ==
    /\ state = "Pinyin"
    /\ c \in Letters
    /\ UNCHANGED <<state, previewVars, llmVars, quote_open>>
    /\ IF Len(pinyin_buffer) >= MaxPinyinBuffer
       THEN Quiet /\ UNCHANGED pinyinVars
       ELSE BufferTo(Append(pinyin_buffer, c))

\* fault: a suffix key does not wait for the candidates in flight
SuffixNeverWaits(c) ==
    /\ state = "Pinyin"
    /\ c \in Suffixes \cup {"\t"}
    /\ CommitPinyin("Idle", FirstOrRaw(candidates), <<c>>)

FeedPinyinSuffix(c) ==
    /\ state = "Pinyin"
    /\ c \in Suffixes \cup {"\t"}
    /\ \/ BlindWindow /\ Defer(c)
       \/ ~BlindWindow /\ CommitPinyin("Idle", FirstOrRaw(candidates), <<c>>)

DigitValue(c) ==
    CHOOSE i \in 1..9 : <<"1", "2", "3", "4", "5", "6", "7", "8", "9">>[i] = c

\* select_candidate for a digit: a candidate that is not there is ignored
FeedPinyinDigit(c) ==
    LET rank == pinyin_page * PageSize + DigitValue(c)
    IN  /\ state = "Pinyin"
        /\ c \in Digits
        /\ \/ rank <= candidates /\ CommitPinyin("Idle", Cand(rank), <<>>)
           \/ /\ rank > candidates
              /\ Quiet
              /\ UNCHANGED <<state, pinyinVars, previewVars, llmVars, quote_open>>

\* select_candidate(rank) for a space: what is there is committed; in the blind
\* window the space waits, or settles the raw text if it repeats a waiting one
SpaceAt(rank, repeated) ==
    /\ state = "Pinyin"
    /\ \/ rank <= candidates /\ CommitPinyin("Idle", Cand(rank), <<>>)
       \/ /\ rank > candidates /\ candidates_in_flight
          /\ IF repeated
             THEN CommitPinyin("Idle", Raw,
                      SubSeq(deferred_intents, 1, Len(deferred_intents) - 1))
             ELSE Defer(" ")
       \/ /\ rank > candidates /\ ~candidates_in_flight
          /\ CommitPinyin("Idle", Raw, <<>>)
HighlightedRank == pinyin_page * PageSize + selected_index + 1
SpaceWaits ==
    deferred_intents # <<>> /\ deferred_intents[Len(deferred_intents)] = " "

\* fault: the row is taken for an index into the whole list
SpaceForgetsPage == SpaceAt(selected_index + 1, SpaceWaits)

FeedPinyinSpace == SpaceAt(HighlightedRank, SpaceWaits)

TotalPages == (candidates + PageSize - 1) \div PageSize

\* PageUp/PageDown and '-'/'=' while composing; the pages form a ring
Paginate(step) ==
    /\ state = "Pinyin"
    /\ UNCHANGED <<state, pinyin_buffer, candidates, last_candidates_request,
                   candidates_in_flight, deferred_intents, previewVars, llmVars,
                   quote_open>>
    /\ IF TotalPages <= 1
       THEN Quiet /\ UNCHANGED <<pinyin_page, selected_index>>
       ELSE /\ pinyin_page' = (pinyin_page + TotalPages + step) % TotalPages
            /\ selected_index' = 0
            /\ Emit(UpdatePinyin(candidates, pinyin_page', 0, FALSE))

PageItems(page) ==
    LET left == candidates - page * PageSize
    IN  IF left < PageSize THEN left ELSE PageSize

\* fault: crossing a page border redraws the page left behind
MoveShowsOldPage(page, sel) ==
    /\ pinyin_page' = page
    /\ selected_index' = sel
    /\ PinyinAction(pinyin_buffer, candidates, pinyin_page, sel)

MoveSelection(page, sel) ==
    /\ pinyin_page' = page
    /\ selected_index' = sel
    /\ PinyinAction(pinyin_buffer, candidates, page, sel)

\* feed_arrow_up and feed_arrow_down, across pages
FeedArrow(up) ==
    /\ state = "Pinyin"
    /\ UNCHANGED <<state, pinyin_buffer, candidates, deferred_intents,
                   previewVars, llmVars, quote_open>>
    /\ IF candidates > 0 /\ up /\ selected_index > 0
       THEN MoveSelection(pinyin_page, selected_index - 1)
       ELSE IF candidates > 0 /\ up /\ pinyin_page > 0
       THEN MoveSelection(pinyin_page - 1, PageItems(pinyin_page - 1) - 1)
       ELSE IF candidates > 0 /\ ~up /\ selected_index + 1 < PageItems(pinyin_page)
       THEN MoveSelection(pinyin_page, selected_index + 1)
       ELSE IF candidates > 0 /\ ~up /\ pinyin_page + 1 < TotalPages
       THEN MoveSelection(pinyin_page + 1, 0)
       ELSE Quiet /\ UNCHANGED <<last_candidates_request, candidates_in_flight,
                                 pinyin_page, selected_index>>

(***************************************************************************)
(* The prompt.                                                             *)
(***************************************************************************)
\* append text to the prompt; the bound stands for the user not typing on
PromptGrows(text) ==
    /\ Len(prompt) + Len(text) <= MaxPrompt
    /\ prompt' = prompt \o text
    /\ Tell("UpdatePrompt")
    /\ UNCHANGED <<state, last_request, result, quote_open>>

\* composing inside the prompt: letters extend it, any other key settles it
FeedPromptComposing(c) ==
    /\ state = "Prompt" /\ Composing
    /\ \/ /\ c \in Letters
          /\ UNCHANGED <<state, previewVars, llmVars, quote_open>>
          /\ IF Len(pinyin_buffer) >= MaxPinyinBuffer
             THEN Quiet /\ UNCHANGED pinyinVars
             ELSE BufferTo(Append(pinyin_buffer, c))
       \/ /\ c \in Digits
          /\ \/ /\ DigitValue(c) <= candidates
                /\ PromptGrows(<<Cand(DigitValue(c))>>)
                /\ ClearCompositionState
             \/ /\ DigitValue(c) > candidates
                /\ Quiet
                /\ UNCHANGED <<state, pinyinVars, previewVars, llmVars, quote_open>>
       \/ /\ c \notin Letters \cup Digits
          /\ PromptGrows(IF c = " " THEN <<FirstOrRaw(candidates)>>
                         ELSE <<FirstOrRaw(candidates), Key(c)>>)
          /\ ClearCompositionState

StartPhase(action) ==
    /\ state' = "Streaming"
    /\ result' = 0
    /\ ai_preview' = "Streaming"
    /\ Emit(action)

FeedPromptPlain(c) ==
    /\ state = "Prompt" /\ ~Composing
    /\ \/ /\ c \in Letters
          /\ BufferTo(<<c>>)
          /\ UNCHANGED <<state, previewVars, llmVars, quote_open>>
       \/ /\ c \notin Letters \cup {"\t"}
          /\ PromptGrows(<<Key(c)>>)
          /\ UNCHANGED <<pinyinVars, previewVars>>
       \/ /\ c = "\t" /\ prompt = <<>>
          /\ Tell("StartCapture")
          /\ UNCHANGED <<state, pinyinVars, previewVars, llmVars, quote_open>>
       \/ /\ c = "\t" /\ prompt # <<>>
          /\ StartPhase([act |-> "StartRewrite", text |-> prompt])
          /\ prompt' = <<>>
          /\ rewrite_source' = prompt
          /\ last_request' = [prompt |-> prompt, rewrite_source |-> prompt]
          /\ UNCHANGED <<pinyinVars, ocr_preview, rewrite_preview, quote_open>>

(***************************************************************************)
(* The result overlay.                                                     *)
(***************************************************************************)
\* fault: settling a stream early keeps its rewrite mark
ConfirmKeepsRewriteSource ==
    /\ UNCHANGED <<pinyinVars, ocr_preview, rewrite_source, prompt, last_request,
                   quote_open>>
    /\ IF result = 0
       THEN Quiet /\ UNCHANGED <<state, rewrite_preview, ai_preview, result>>
       ELSE /\ state' = "Idle"
            /\ result' = 0
            /\ rewrite_preview' = None
            /\ ai_preview' = None
            /\ Emit([act |-> "CommitResult", text |-> ResultText(result)])

\* feed_enter on a stream or a result: an empty result is never settled
ConfirmResult ==
    /\ UNCHANGED <<pinyinVars, ocr_preview, prompt, last_request, quote_open>>
    /\ IF result = 0
       THEN /\ Quiet
            /\ UNCHANGED <<state, rewrite_source, rewrite_preview, ai_preview, result>>
       ELSE /\ state' = "Idle"
            /\ result' = 0
            /\ rewrite_source' = None
            /\ rewrite_preview' = None
            /\ ai_preview' = None
            /\ Emit([act |-> "CommitResult", text |-> ResultText(result)])

RetryLastLlm ==
    /\ UNCHANGED <<pinyinVars, ocr_preview, prompt, last_request, quote_open>>
    /\ IF last_request = None
       THEN /\ Quiet
            /\ UNCHANGED <<state, rewrite_source, rewrite_preview, ai_preview, result>>
       ELSE /\ rewrite_preview' = None
            /\ IF last_request.rewrite_source # None
               THEN /\ rewrite_source' = last_request.rewrite_source
                    /\ StartPhase([act |-> "StartRewrite", text |-> last_request.prompt])
               ELSE /\ UNCHANGED rewrite_source
                    /\ StartPhase([act |-> "StartLlm", text |-> last_request.prompt])

EditLastPrompt ==
    /\ prompt' = IF last_request = None THEN prompt ELSE last_request.prompt
    /\ last_request' = None
    /\ state' = "Prompt"
    /\ result' = 0
    /\ rewrite_source' = None
    /\ rewrite_preview' = None
    /\ ai_preview' = None
    /\ Tell("UpdatePrompt")
    /\ UNCHANGED <<pinyinVars, ocr_preview, quote_open>>

AiKeys == {"Confirm", "Retry", "Edit", "Other"}
AiKey(c) == IF c \in {" ", "1"} THEN "Confirm"
            ELSE IF c \in {"r", "R"} THEN "Retry"
            ELSE IF c \in {"e", "E"} THEN "Edit"
            ELSE "Other"

\* fault: the overlay's keys are live in the comparison as well
AiPreviewingByState == state \in {"ResultReady", "Failed"}
AiPreviewing == ai_preview # None

\* feed_ai_preview in ResultReady and Failed; Enter confirms without it
FeedAiPreview(key) ==
    /\ state \in {"ResultReady", "Failed"}
    /\ \/ /\ AiPreviewing /\ key = "Confirm"
          /\ IF state = "Failed" THEN RetryLastLlm ELSE ConfirmResult
       \/ AiPreviewing /\ key = "Retry" /\ RetryLastLlm
       \/ AiPreviewing /\ key = "Edit" /\ EditLastPrompt
       \/ /\ ~AiPreviewing \/ key = "Other"
          /\ Quiet
          /\ UNCHANGED <<state, pinyinVars, previewVars, llmVars, quote_open>>

\* while streaming, space and 1 settle what is there, other keys are swallowed
FeedStreaming(c) ==
    /\ state = "Streaming"
    /\ \/ c \in {" ", "1"} /\ ConfirmResult
       \/ /\ c \notin {" ", "1"}
          /\ Quiet
          /\ UNCHANGED <<state, pinyinVars, previewVars, llmVars, quote_open>>

FeedChar(c) ==
    \/ FeedIdle(c)
    \/ FeedPendingSlash(c)
    \/ c = "/" /\ FeedPinyinSlash
    \/ c = "-" /\ Paginate(-1)
    \/ c = "=" /\ Paginate(1)
    \/ c = " " /\ FeedPinyinSpace
    \/ FeedPinyinLetter(c)
    \/ FeedPinyinSuffix(c)
    \/ FeedPinyinDigit(c)
    \/ FeedPromptComposing(c)
    \/ FeedPromptPlain(c)
    \/ FeedStreaming(c)
    \/ FeedAiPreview(AiKey(c))

(***************************************************************************)
(* Backspace, Enter, Escape.                                               *)
(***************************************************************************)
Front(buffer) == SubSeq(buffer, 1, Len(buffer) - 1)

LeaveTo(next, name) ==
    /\ state' = next
    /\ Tell(name)
    /\ UNCHANGED quote_open

EndOcrPreview ==
    /\ state = "OcrPreviewing"
    /\ state' = "Idle"
    /\ ocr_preview' = None
    /\ Quiet
    /\ UNCHANGED <<pinyinVars, rewrite_source, rewrite_preview, ai_preview,
                   llmVars, quote_open>>
NoAction ==
    Quiet /\ UNCHANGED <<state, pinyinVars, previewVars, llmVars, quote_open>>

FeedBackspace ==
    \/ state \in {"Idle", "Streaming"} /\ NoAction
    \/ /\ state = "PendingSlash"
       /\ LeaveTo("Idle", "Cancel")
       /\ UNCHANGED <<pinyinVars, previewVars, llmVars>>
    \/ /\ state = "Pinyin" /\ Len(pinyin_buffer) > 1
       /\ BufferTo(Front(pinyin_buffer))
       /\ UNCHANGED <<state, previewVars, llmVars, quote_open>>
    \/ /\ state = "Pinyin" /\ Len(pinyin_buffer) <= 1
       /\ ClearCompositionState
       /\ LeaveTo("Idle", "Cancel")
       /\ UNCHANGED llmVars
    \/ /\ state = "Prompt" /\ Len(pinyin_buffer) > 1    \* no request is made here
       /\ pinyin_buffer' = Front(pinyin_buffer)
       /\ candidates' = 0
       /\ pinyin_page' = 0
       /\ LeaveTo("Prompt", "UpdatePrompt")
       /\ UNCHANGED <<last_candidates_request, candidates_in_flight, deferred_intents,
                      selected_index, previewVars, llmVars>>
    \/ /\ state = "Prompt" /\ Len(pinyin_buffer) = 1
       /\ ClearCompositionState
       /\ LeaveTo("Prompt", "UpdatePrompt")
       /\ UNCHANGED llmVars
    \/ /\ state = "Prompt" /\ ~Composing /\ prompt # <<>>
       /\ prompt' = Front(prompt)
       /\ LeaveTo("Prompt", "UpdatePrompt")
       /\ UNCHANGED <<pinyinVars, previewVars, last_request, result>>
    \/ /\ state = "Prompt" /\ ~Composing /\ prompt = <<>>
       /\ LeaveTo("Idle", "Cancel")
       /\ UNCHANGED <<pinyinVars, previewVars, llmVars>>
    \/ FeedAiPreview("Edit")
    \/ EndOcrPreview

FeedEnter ==
    \/ state \in {"Idle", "PendingSlash"} /\ NoAction
    \/ /\ state = "Pinyin"                  \* the raw letters, nothing else
       /\ CommitPinyin("Idle", Raw, <<>>)
    \/ /\ state = "Prompt" /\ Composing
       /\ PromptGrows(<<Raw>>)
       /\ ClearCompositionState
    \/ /\ state = "Prompt" /\ ~Composing
       /\ StartPhase([act |-> "StartLlm", text |-> prompt])
       /\ prompt' = <<>>
       /\ last_request' = [prompt |-> prompt, rewrite_source |-> None]
       /\ UNCHANGED <<pinyinVars, ocr_preview, rewrite_source, rewrite_preview,
                      quote_open>>
    \/ state \in {"Streaming", "ResultReady"} /\ ConfirmResult
    \/ state = "Failed" /\ RetryLastLlm
    \/ EndOcrPreview

\* Escape clears every slot from any state; only last_request survives it
FeedEscape ==
    /\ ClearCompositionState
    /\ UNCHANGED <<last_request, quote_open>>
    /\ \/ state = "Idle" /\ Quiet /\ UNCHANGED <<state, prompt, result>>
       \/ /\ state # "Idle"
          /\ state' = "Idle"
          /\ prompt' = <<>>
          /\ result' = 0
          /\ Tell("Cancel")

(***************************************************************************)
(* The previews.                                                           *)
(***************************************************************************)
OcrText == [what |-> "ocr", py |-> <<>>, rank |-> 0]

\* fault: the recognised text is shown in whatever state the machine is
BeginOcrAnywhere(text) ==
    /\ UNCHANGED <<pinyinVars, rewrite_source, ai_preview, llmVars, quote_open>>
    /\ IF text # <<>>
       THEN /\ state' = "OcrPreviewing"
            /\ ocr_preview' = text
            /\ rewrite_preview' = None
            /\ Emit([act |-> "OcrPreview", text |-> text])
       ELSE Quiet /\ UNCHANGED <<state, ocr_preview, rewrite_preview>>

BeginOcrPreview(text) ==
    /\ UNCHANGED <<pinyinVars, rewrite_source, ai_preview, llmVars, quote_open>>
    /\ IF state \in {"Idle", "OcrPreviewing"} /\ text # <<>>
       THEN /\ state' = "OcrPreviewing"
            /\ ocr_preview' = text
            /\ rewrite_preview' = None
            /\ Emit([act |-> "OcrPreview", text |-> text])
       ELSE Quiet /\ UNCHANGED <<state, ocr_preview, rewrite_preview>>

\* the frontend routes keys here only while ocr_previewing
FeedOcrPreview(key) ==
    /\ state = "OcrPreviewing"
    /\ state' = "Idle"
    /\ ocr_preview' = None
    /\ UNCHANGED <<pinyinVars, rewrite_source, rewrite_preview, ai_preview,
                   llmVars, quote_open>>
    /\ \/ key = "Confirm" /\ Commit(ocr_preview)
       \/ key = "Escape" /\ Tell("Cancel")
       \/ key = "Other" /\ Quiet

\* the deadline has passed, or the focus has moved
ExpireStaleOcrPreview == EndOcrPreview

\* the frontend's answer to RewriteReady; refused outside ResultReady
BeginRewritePreview(rewritten, source) ==
    /\ Quiet
    /\ UNCHANGED <<state, pinyinVars, rewrite_source, llmVars, quote_open>>
    /\ IF state = "ResultReady"
       THEN /\ rewrite_preview' = [rewritten |-> rewritten, source |-> source]
            /\ ai_preview' = None
            /\ ocr_preview' = None
       ELSE UNCHANGED <<rewrite_preview, ai_preview, ocr_preview>>

RewritePreviewing == rewrite_preview # None /\ state = "ResultReady"

\* the frontend routes keys here only while rewrite_previewing
FeedRewritePreview(key) ==
    /\ RewritePreviewing
    /\ state' = "Idle"
    /\ rewrite_preview' = None
    /\ result' = 0
    /\ UNCHANGED <<pinyinVars, ocr_preview, rewrite_source, ai_preview, prompt,
                   last_request, quote_open>>
    /\ \/ key = "Rewritten" /\ Commit(ResultText(rewrite_preview.rewritten))
       \/ key = "Source" /\ Commit(rewrite_preview.source)
       \/ key = "Escape" /\ Tell("Cancel")

(***************************************************************************)
(* Events.  A frontend drops the events of a stream it has cancelled, so a *)
(* stream is open exactly while the machine is Streaming; LateEvents lets  *)
(* an event through at any time, which the handlers are written to bear.   *)
(***************************************************************************)
StreamEvent == state = "Streaming" \/ LateEvents
Ignored == Quiet /\ UNCHANGED <<state, previewVars, result>>

OnLlmChunk ==
    /\ StreamEvent
    /\ UNCHANGED <<pinyinVars, prompt, last_request, quote_open>>
    /\ \/ /\ state = "Streaming"
          /\ result < MaxChunks
          /\ result' = result + 1
          /\ Tell("UpdateResult")
          /\ UNCHANGED <<state, previewVars>>
       \/ state # "Streaming" /\ Ignored

OnLlmDone ==
    /\ StreamEvent
    /\ UNCHANGED <<pinyinVars, prompt, last_request, quote_open>>
    /\ \/ /\ state = "Streaming"
          /\ state' = "ResultReady"
          /\ ai_preview' = IF ai_preview = None THEN None ELSE "Ready"
          /\ rewrite_source' = None
          /\ Emit(IF rewrite_source = None
                  THEN [act |-> "ResultReady", rewritten |-> result]
                  ELSE [act |-> "RewriteReady", rewritten |-> result,
                        source |-> rewrite_source])
          /\ UNCHANGED <<ocr_preview, rewrite_preview, result>>
       \/ state # "Streaming" /\ Ignored

OnLlmError ==
    /\ StreamEvent
    /\ rewrite_source' = None
    /\ rewrite_preview' = None
    /\ UNCHANGED <<pinyinVars, llmVars, quote_open>>
    /\ IF state \in {"Streaming", "ResultReady", "Failed"}
       THEN /\ state' = "Failed"
            /\ ocr_preview' = None
            /\ ai_preview' = IF ai_preview = None THEN None ELSE "Failed"
            /\ IF state = "ResultReady" THEN Quiet ELSE Tell("LlmFailed")
       ELSE Quiet /\ UNCHANGED <<state, ocr_preview, ai_preview>>

\* replay_deferred_intents once n candidates are final.  A leading space picks
\* candidate 1, or nothing at all when there is none; any other key settles
\* the composition, and what follows is fed to the Idle machine.
DropSpace(keys) == IF keys # <<>> /\ Head(keys) = " " THEN Tail(keys) ELSE keys
\* fault: an empty answer releases the request but leaves the queue waiting
ReplayOnlyWithCandidates(n) ==
    \/ n > 0 /\ CommitPinyin("Idle", FirstOrRaw(n), DropSpace(deferred_intents))
    \/ /\ n = 0
       /\ candidates_in_flight' = FALSE
       /\ Quiet
       /\ UNCHANGED <<state, pinyin_buffer, candidates, last_candidates_request,
                      deferred_intents, pinyin_page, selected_index,
                      previewVars, llmVars, quote_open>>

ReplayDeferredIntents(n) ==
    LET held == n = 0 /\ Head(deferred_intents) = " "
        rest == IF held THEN Tail(deferred_intents) ELSE deferred_intents
    IN  \/ /\ held /\ rest = <<>>
           /\ candidates' = 0
           /\ pinyin_page' = 0
           /\ selected_index' = 0
           /\ deferred_intents' = <<>>
           /\ candidates_in_flight' = FALSE
           /\ Emit(UpdatePinyin(0, 0, 0, ShowsRaw(pinyin_buffer, 0, FALSE)))
           /\ UNCHANGED <<state, pinyin_buffer, last_candidates_request,
                          previewVars, llmVars, quote_open>>
        \/ /\ ~(held /\ rest = <<>>)
           /\ CommitPinyin("Idle", FirstOrRaw(n), DropSpace(rest))

\* an answer for the pinyin on screen; any other is stale.  The list it is
\* compared with is taken when the request is no longer in flight, so one that
\* brings nothing redraws nothing: the raw letters wait for the next key.
OnLlmCandidates(pinyin, n, done) ==
    LET count == IF n > candidates THEN n ELSE candidates
        inFlight == candidates_in_flight /\ ~done
    IN  \/ /\ pinyin # pinyin_buffer
           /\ Quiet
           /\ UNCHANGED <<state, pinyinVars, previewVars, llmVars, quote_open>>
        \/ /\ pinyin = pinyin_buffer
           /\ done /\ deferred_intents # <<>>
           /\ ReplayDeferredIntents(count)
        \/ /\ pinyin = pinyin_buffer
           /\ ~done \/ deferred_intents = <<>>
           /\ candidates' = count
           /\ candidates_in_flight' = inFlight
           /\ selected_index' = IF done \/ count > candidates THEN 0 ELSE selected_index
           /\ IF count > candidates
              THEN Emit(UpdatePinyin(count, pinyin_page, selected_index', FALSE))
              ELSE Quiet
           /\ UNCHANGED <<state, pinyin_buffer, last_candidates_request,
                          deferred_intents, pinyin_page, previewVars, llmVars,
                          quote_open>>

(***************************************************************************)
(* The specification.                                                      *)
(***************************************************************************)
Init ==
    /\ state = "Idle"
    /\ pinyin_buffer = <<>>
    /\ candidates = 0
    /\ last_candidates_request = None
    /\ candidates_in_flight = FALSE
    /\ deferred_intents = <<>>
    /\ pinyin_page = 0
    /\ selected_index = 0
    /\ ocr_preview = None
    /\ rewrite_source = None
    /\ rewrite_preview = None
    /\ ai_preview = None
    /\ prompt = <<>>
    /\ last_request = None
    /\ result = 0
    /\ quote_open = [c \in Quotes |-> FALSE]
    /\ out = <<>>
    /\ shown = None

UserKey ==
    \/ \E c \in Chars : FeedChar(c)
    \/ \E step \in {-1, 1} : Paginate(step)
    \/ \E up \in BOOLEAN : FeedArrow(up)
    \/ FeedBackspace
    \/ FeedEnter
    \/ FeedEscape

PreviewStep ==
    \/ \E text \in {<<>>, <<OcrText>>} : BeginOcrPreview(text)
    \/ \E key \in {"Confirm", "Escape", "Other"} : FeedOcrPreview(key)
    \/ ExpireStaleOcrPreview
    \/ \E key \in {"Rewritten", "Source", "Escape"} : FeedRewritePreview(key)
    \/ /\ out # <<>> /\ out[1].act = "RewriteReady"
       /\ BeginRewritePreview(out[1].rewritten, out[1].source)

LlmEvent == OnLlmChunk \/ OnLlmDone \/ OnLlmError

\* every prefix typed was asked for; the answer to any of them may come
Pinyins == UNION {[1..k -> Letters] : k \in 1..MaxPinyinBuffer}
AnswerEvent ==
    /\ candidates_in_flight \/ DuplicateAnswers
    /\ \E p \in Pinyins, n \in Answers, done \in AnswerDone : OnLlmCandidates(p, n, done)

Next == UserKey \/ PreviewStep \/ LlmEvent \/ AnswerEvent

Spec == Init /\ [][Next]_vars
-----------------------------------------------------------------------------
(***************************************************************************)
(* Properties.                                                             *)
(***************************************************************************)
States == {"Idle", "OcrPreviewing", "Pinyin", "PendingSlash", "Prompt",
           "Streaming", "ResultReady", "Failed"}

CompositionTypes ==
    /\ pinyin_buffer \in Seq(Letters) /\ Len(pinyin_buffer) <= MaxPinyinBuffer
    /\ candidates \in Nat
    /\ last_candidates_request \in Seq(Letters) \cup {None}
    /\ candidates_in_flight \in BOOLEAN
    /\ deferred_intents \in Seq(Chars)
    /\ pinyin_page \in Nat /\ selected_index \in Nat
PreviewTypes ==
    /\ ocr_preview \in Text \cup {None} /\ rewrite_source \in Text \cup {None}
    /\ rewrite_preview \in Comparisons \cup {None}
    /\ ai_preview \in {None, "Streaming", "Ready", "Failed"}
LlmTypes ==
    /\ prompt \in Text /\ result \in 0..MaxChunks
    /\ last_request \in Requests \cup {None}

\* Every variable keeps its type, whatever is typed and whatever arrives.
TypeOK ==
    /\ state \in States
    /\ CompositionTypes
    /\ PreviewTypes
    /\ LlmTypes
    /\ quote_open \in [Quotes -> BOOLEAN]

\* A preview slot is armed only in the state that routes keys to it: a slot
\* left behind would swallow the next keys and commit stale text (the rule of
\* tests/preview_state_invariants.rs, for all slots and all event orders).
PreviewSlotsMatchState ==
    /\ rewrite_preview # None => state = "ResultReady" /\ ai_preview = None
    /\ ocr_preview # None <=> state = "OcrPreviewing"
    /\ rewrite_source # None => state = "Streaming"
    /\ ai_preview # None => state \in {"Streaming", "ResultReady", "Failed"}

\* The overlay's phase, which decides what its keys promise, is the state's:
\* a finished result can be confirmed unless the comparison has taken over.
OverlayPhaseMatchesState ==
    /\ state = "Streaming" => ai_preview = "Streaming"
    /\ state = "ResultReady" =>
        ai_preview = "Ready" \/ (ai_preview = None /\ rewrite_preview # None)
    /\ state = "Failed" => ai_preview \in {None, "Failed"}

\* Both together: what is armed, what is shown and what the state lets the next
\* key do never contradict each other, in whatever order keys, answers and the
\* late events of earlier streams arrive.
OverlaysAgree == PreviewSlotsMatchState /\ OverlayPhaseMatchesState

\* A stream is the one last_request describes: retry finds it, a rewrite in
\* flight carries its own source and never that of an earlier stream, and the
\* comparison shows the source of the request whose result it compares.
RewritePairing ==
    /\ state \in {"Streaming", "ResultReady", "Failed"} => last_request # None
    /\ state = "Streaming" => rewrite_source = last_request.rewrite_source
    /\ rewrite_preview # None =>
        rewrite_preview = [rewritten |-> result, source |-> last_request.rewrite_source]

\* Keys wait only in the blind window of a composition, never two spaces in a
\* row, never more than MaxDeferred of them.
QueueDiscipline ==
    deferred_intents # <<>> =>
        /\ state = "Pinyin" /\ BlindWindow
        /\ Len(deferred_intents) <= MaxDeferred
        /\ \A i \in 1..(Len(deferred_intents) - 1) :
                ~(deferred_intents[i] = " " /\ deferred_intents[i + 1] = " ")

\* The pinyin on screen is the one asked for, so the answer that ends the
\* blind window is not taken for a stale one.
RequestIsCurrent == state = "Pinyin" => last_candidates_request = pinyin_buffer

\* Both together: what waits, waits for an answer to the pinyin on the screen,
\* so that the answer settles it and is not taken for one of an earlier pinyin.
QueueAwaitsAnswer == QueueDiscipline /\ RequestIsCurrent

\* What the panel highlights is what the machine will commit: same list, same
\* page, same row, and the row exists.
PanelMatchesMachine ==
    candidates > 0 =>
        /\ shown = [count |-> candidates, page |-> pinyin_page,
                    selected |-> selected_index]
        /\ selected_index < PageSize
        /\ pinyin_page * PageSize + selected_index < candidates

IsCommit(o) == o # <<>> /\ o[1].act = "CommitImmediate"

\* Space commits the row the panel highlights, on whatever page it is.
SpaceCommitsHighlighted ==
    [][FeedPinyinSpace /\ candidates > 0 =>
        out'[1].text = <<Cand(shown.page * PageSize + shown.selected + 1)>>]_vars

\* In the blind window no space and no suffix key puts raw letters in the
\* document, unless it repeats a waiting space or the queue is full; and the
\* answer that ends the window commits its first candidate, if it has one.
BlindKeysWait ==
    [][BlindWindow /\ state = "Pinyin" /\ IsCommit(out') =>
        /\ FeedPinyinSpace \/ (\E c \in Chars : FeedPinyinSuffix(c)) =>
            \/ Len(deferred_intents) = MaxDeferred
            \/ SpaceWaits
        /\ (\E n \in Answers \ {0} : OnLlmCandidates(pinyin_buffer, n, TRUE)) =>
            out'[1].text[1] = Cand(1)]_vars

IsSuffixKey(c) == c \in Suffixes
IsSuffixToken(t) == t.what \in Suffixes
SuffixKeysIn(text) ==
    LET tokens == SelectSeq(text, IsSuffixToken)
    IN  [i \in DOMAIN tokens |-> tokens[i].what]

\* The queue empties into the document: the suffix keys that waited are in the
\* commit, all of them and in the order typed, followed at most by the key that
\* forced the matter.
QueueReachesDocument ==
    LET waiting == SelectSeq(deferred_intents, IsSuffixKey)
        committed == IF IsCommit(out') THEN SuffixKeysIn(out'[1].text) ELSE <<>>
    IN  /\ Len(committed) <= Len(waiting) + 1
        /\ Len(committed) >= Len(waiting)
        /\ SubSeq(committed, 1, Len(waiting)) = waiting
QueueEmpties == deferred_intents # <<>> /\ deferred_intents' = <<>>

\* An answer, '/', a repeated space and a full queue lose no waiting key.
SettlingKeepsKeys ==
    [][QueueEmpties /\ ~FeedEscape /\ ~FeedEnter /\ ~FeedBackspace
        => QueueReachesDocument]_vars

\* Paired quotes alternate in the document, each kind on its own, however many
\* of them waited and whatever dropped them.
QuotesAlternate ==
    [][\A c \in Quotes :
        LET Marks(t) == t.what = c /\ t.rank # 0
            marks == IF IsCommit(out') THEN SelectSeq(out'[1].text, Marks) ELSE <<>>
            flips == quote_open'[c] # quote_open[c]
        IN  /\ flips <=> Odd(Len(marks))
            /\ \A i \in DOMAIN marks :
                marks[i].rank = IF quote_open[c] = Odd(i - 1) THEN 1 ELSE 2]_vars

\* The frontends answer every request that is not overtaken by another pinyin,
\* with an empty list if the engine fails.
AnswerFairness ==
    \A p \in Pinyins :
        WF_vars(/\ last_candidates_request = p /\ candidates_in_flight
                /\ \E n \in Answers : OnLlmCandidates(p, n, TRUE))
FairSpec == Spec /\ AnswerFairness

\* A key that waits does not wait for ever: the queue empties, or the user has
\* changed the pinyin meanwhile.
QueuedKeysSettle ==
    \A p \in Pinyins :
        (deferred_intents # <<>> /\ pinyin_buffer = p)
            ~> (deferred_intents = <<>> \/ pinyin_buffer # p)

SessionPhase ==
    IF state = "Streaming" THEN "streaming"
    ELSE IF state = "Failed" THEN "failed"
    ELSE IF state # "ResultReady" THEN "none"
    ELSE IF rewrite_preview = None THEN "ready" ELSE "compare"
Session == INSTANCE AiSession WITH
    Texts <- Text, phase <- SessionPhase, request <- last_request

\* Sent, finished, compared, failed, retried, edited: the machine's states and
\* slots move as AiSession says, and a comparison is only shown for a rewrite.
ImplementsAiSession == Session!Spec
=============================================================================
