--------------------- MODULE CompositionMachine_proofs ----------------------
(***************************************************************************)
(* Theorems about CompositionMachine for every size of page, buffer, queue *)
(* and prompt, every alphabet and every answer: first the types, then      *)
(* preview slots, the queue of waiting keys, the candidate panel, rewrites *)
(* and the refinement of AiSession.  Each part has an inductive invariant  *)
(* (TypeInv, SlotInv, QueueInv, PairingInv, PanelInv) and one step per     *)
(* action; the theorems at the end assemble them.                          *)
(***************************************************************************)
EXTENDS CompositionMachine, SequenceTheorems, TLAPS

(***************************************************************************)
(* What makes the types inductive: letters are only held in the two states *)
(* that compose, the candidates and the queue belong to those letters, the *)
(* highlighted row exists, and a comparison is armed with the values the   *)
(* RewriteReady notice carried.                                            *)
(***************************************************************************)
CompositionShape ==
    /\ state = "Pinyin" => Composing
    /\ Composing => state \in {"Pinyin", "Prompt"}
    /\ ~Composing => candidates = 0 /\ deferred_intents = <<>> /\ ~candidates_in_flight

HighlightInRange ==
    IF candidates > 0
    THEN /\ selected_index < PageSize
         /\ pinyin_page * PageSize + selected_index < candidates
    ELSE pinyin_page = 0

CompositionInv == CompositionTypes /\ CompositionShape /\ HighlightInRange

NoticeOk ==
    out # <<>> /\ out[1].act = "RewriteReady" =>
        out[1].rewritten \in 0..MaxChunks /\ out[1].source \in Text

TypeInv == TypeOK /\ CompositionShape /\ HighlightInRange /\ NoticeOk

\* The parts of TypeInv, each on the variables it is about.
LEMMA TypeInvParts ==
    /\ TypeInv <=> /\ state \in States /\ CompositionInv /\ PreviewTypes
                   /\ LlmTypes /\ quote_open \in [Quotes -> BOOLEAN] /\ NoticeOk
    /\ TypeInv' <=> /\ state' \in States /\ CompositionInv' /\ PreviewTypes'
                    /\ LlmTypes' /\ quote_open' \in [Quotes -> BOOLEAN] /\ NoticeOk'
BY DEF TypeInv, TypeOK, CompositionInv

-----------------------------------------------------------------------------
(***************************************************************************)
(* Lemmas about the shared pieces of the handlers.                         *)
(***************************************************************************)
\* Committed quotes leave a flag for every quote.
LEMMA QuotesAfterType == \A keys : QuotesAfter(keys) \in [Quotes -> BOOLEAN]
BY DEF QuotesAfter

\* a page that exists begins before the end of the list
LEMMA PageBegins ==
    ASSUME NEW s \in 1..9, NEW n \in Nat, NEW p \in Nat, p < (n + s - 1) \div s
    PROVE  p * s \in Nat /\ p * s < n
OBVIOUS

\* Where there are several pages there are candidates.
LEMMA ManyPages ==
    ASSUME NEW s \in 1..9, NEW n \in Nat, (n + s - 1) \div s > 1
    PROVE  n > 0
OBVIOUS

\* A composition that is left alone stays in order if the state keeps composing.
LEMMA KeptComposition ==
    ASSUME CompositionInv, UNCHANGED pinyinVars,
           state' = state \/ ({state, state'} \cap {"Pinyin", "Prompt"} = {})
                          \/ (pinyin_buffer = <<>> /\ state' # "Pinyin")
    PROVE  CompositionInv'
BY DEF CompositionInv, CompositionTypes, CompositionShape, HighlightInRange,
       Composing, pinyinVars

\* What a step leaves alone keeps its type.
LEMMA KeptSlots ==
    /\ PreviewTypes /\ UNCHANGED previewVars => PreviewTypes'
    /\ LlmTypes /\ UNCHANGED llmVars => LlmTypes'
BY DEF PreviewTypes, LlmTypes, previewVars, llmVars

\* clear_composition_state leaves an empty composition and empty slots.
LEMMA ClearedComposition ==
    ASSUME ClearCompositionState, state' # "Pinyin"
    PROVE  CompositionInv' /\ PreviewTypes'
<1>1. CompositionTypes'
  <2>1. <<>> \in Seq(Letters) /\ <<>> \in Seq(Chars) /\ Len(<<>>) <= MaxPinyinBuffer
    BY MachineAssumption
  <2> QED  BY <2>1 DEF ClearCompositionState, CompositionTypes
<1>2. PreviewTypes'
  BY DEF ClearCompositionState, PreviewTypes
<1>3. CompositionShape' /\ HighlightInRange'
  BY DEF ClearCompositionState, CompositionShape, HighlightInRange, Composing
<1> QED  BY <1>1, <1>2, <1>3 DEF CompositionInv

\* only OnLlmDone announces a rewrite
LEMMA OtherNotices ==
    /\ Quiet => NoticeOk'
    /\ \A name : name # "RewriteReady" /\ Tell(name) => NoticeOk'
    /\ \A text : Commit(text) => NoticeOk'
    /\ \A n, page, sel, raw : Emit(UpdatePinyin(n, page, sel, raw)) => NoticeOk'
    /\ \A name, text : name # "RewriteReady" /\ Emit([act |-> name, text |-> text])
            => NoticeOk'
BY DEF Quiet, Tell, Commit, Emit, UpdatePinyin, NoticeOk

\* A commit settles the composition and leaves every type.
LEMMA CommitKeepsTypes ==
    ASSUME TypeInv, NEW next \in {"Idle", "PendingSlash"}, NEW head, NEW keys,
           CommitPinyin(next, head, keys)
    PROVE  TypeInv'
<1>1. state' \in States /\ state' # "Pinyin" /\ ClearCompositionState
  BY DEF CommitPinyin, States
<1>2. NoticeOk'
  BY OtherNotices DEF CommitPinyin
<1>3. LlmTypes' /\ quote_open' \in [Quotes -> BOOLEAN]
  BY TypeInvParts, KeptSlots, QuotesAfterType DEF CommitPinyin
<1> QED  BY <1>1, <1>2, <1>3, ClearedComposition, TypeInvParts

\* pinyin_action from a composition that asked for, or now asks for, its letters
LEMMA RequestTypes ==
    ASSUME CompositionTypes, NEW buffer \in Seq(Letters), NEW n, NEW page, NEW sel,
           PinyinAction(buffer, n, page, sel)
    PROVE  /\ last_candidates_request' \in Seq(Letters) \cup {None}
           /\ candidates_in_flight' \in BOOLEAN
           /\ NoticeOk'
BY OtherNotices DEF PinyinAction, CompositionTypes

\* A new buffer starts over: no candidates, first page, a request.
LEMMA BufferComposition ==
    ASSUME CompositionInv, NEW buffer \in Seq(Letters), buffer # <<>>,
           Len(buffer) <= MaxPinyinBuffer, BufferTo(buffer),
           state' \in {"Pinyin", "Prompt"}
    PROVE  CompositionInv' /\ NoticeOk'
<1>1. CompositionTypes' /\ NoticeOk'
  BY RequestTypes DEF CompositionInv, CompositionTypes, BufferTo
<1>2. CompositionShape' /\ HighlightInRange'
  BY DEF CompositionShape, HighlightInRange, Composing, BufferTo
<1> QED  BY <1>1, <1>2 DEF CompositionInv

\* A queued key is a key, and a full queue is a commit.
LEMMA DeferKeepsTypes ==
    ASSUME TypeInv, state = "Pinyin", NEW c \in Chars, Defer(c)
    PROVE  TypeInv'
<1>1. CASE Len(Append(deferred_intents, c)) > MaxDeferred
  BY <1>1, CommitKeepsTypes DEF Defer
<1>2. CASE ~(Len(Append(deferred_intents, c)) > MaxDeferred)
  <2>1. CompositionTypes /\ CompositionShape /\ HighlightInRange
    BY TypeInvParts DEF CompositionInv
  <2>2. /\ last_candidates_request' \in Seq(Letters) \cup {None}
        /\ candidates_in_flight' \in BOOLEAN
        /\ NoticeOk'
    BY <1>2, <2>1, RequestTypes, OtherNotices DEF Defer, CompositionTypes
  <2>3. CompositionTypes'
    <3>1. Append(deferred_intents, c) \in Seq(Chars)
      BY <2>1 DEF CompositionTypes
    <3> QED  BY <1>2, <2>1, <2>2, <3>1 DEF Defer, CompositionTypes
  <2>4. CompositionShape' /\ HighlightInRange'
    BY <1>2, <2>1 DEF Defer, CompositionShape, HighlightInRange, Composing
  <2> QED
    BY <1>2, <2>2, <2>3, <2>4, TypeInvParts, KeptSlots DEF Defer, CompositionInv
<1> QED  BY <1>1, <1>2

\* The prompt only grows by text.
LEMMA PromptTypes ==
    ASSUME TypeInv, NEW text \in Text, PromptGrows(text)
    PROVE  LlmTypes' /\ NoticeOk'
BY TypeInvParts, OtherNotices DEF PromptGrows, LlmTypes, Text

\* Settling a result.
LEMMA ConfirmKeepsTypes ==
    ASSUME TypeInv, state \in {"Streaming", "ResultReady", "Failed"}, ConfirmResult
    PROVE  TypeInv'
<1>1. CompositionInv'
  BY TypeInvParts, KeptComposition DEF ConfirmResult
<1>2. NoticeOk'
  BY OtherNotices DEF ConfirmResult
<1>3. /\ state' \in States /\ PreviewTypes' /\ LlmTypes'
      /\ quote_open' \in [Quotes -> BOOLEAN]
  BY TypeInvParts, MachineAssumption
     DEF ConfirmResult, States, PreviewTypes, LlmTypes
<1> QED  BY <1>1, <1>2, <1>3, TypeInvParts

\* Every stream starts in the same phase, with nothing in it.
LEMMA StartTypes ==
    ASSUME NEW name \in {"StartLlm", "StartRewrite"}, NEW text,
           StartPhase([act |-> name, text |-> text])
    PROVE  /\ state' = "Streaming" /\ result' = 0 /\ ai_preview' = "Streaming"
           /\ NoticeOk'
BY OtherNotices DEF StartPhase

\* Retrying the last request.
LEMMA RetryKeepsTypes ==
    ASSUME TypeInv, state \in {"ResultReady", "Failed"}, RetryLastLlm
    PROVE  TypeInv'
<1>1. CASE last_request = None
  BY <1>1, TypeInvParts, KeptComposition, OtherNotices
     DEF RetryLastLlm, PreviewTypes, LlmTypes
<1>2. CASE last_request # None
  <2>1. state' = "Streaming" /\ result' = 0 /\ ai_preview' = "Streaming" /\ NoticeOk'
    BY <1>2, StartTypes DEF RetryLastLlm
  <2>2. last_request.rewrite_source \in Text \cup {None}
    BY <1>2, TypeInvParts DEF LlmTypes, Requests
  <2>3. PreviewTypes'
    BY <1>2, <2>1, <2>2, TypeInvParts DEF RetryLastLlm, PreviewTypes
  <2>4. LlmTypes'
    BY <1>2, <2>1, TypeInvParts, MachineAssumption DEF RetryLastLlm, LlmTypes
  <2>5. CompositionInv'
    BY <1>2, <2>1, TypeInvParts, KeptComposition DEF RetryLastLlm
  <2> QED
    BY <1>2, <2>1, <2>3, <2>4, <2>5, TypeInvParts DEF RetryLastLlm, States
<1> QED  BY <1>1, <1>2

\* Editing the last prompt.
LEMMA EditKeepsTypes ==
    ASSUME TypeInv, state \in {"ResultReady", "Failed"}, EditLastPrompt
    PROVE  TypeInv'
<1>1. pinyin_buffer = <<>> /\ state' = "Prompt"
  BY TypeInvParts DEF EditLastPrompt, CompositionInv, CompositionShape, Composing
<1>2. CompositionInv'
  BY <1>1, TypeInvParts, KeptComposition DEF EditLastPrompt
<1>3. PreviewTypes' /\ NoticeOk'
  BY TypeInvParts, OtherNotices DEF EditLastPrompt, PreviewTypes
<1>4. LlmTypes'
  BY TypeInvParts, MachineAssumption DEF EditLastPrompt, LlmTypes, Requests
<1> QED  BY <1>1, <1>2, <1>3, <1>4, TypeInvParts DEF EditLastPrompt, States

\* Every key of the overlay.
LEMMA AiKeyKeepsTypes ==
    ASSUME TypeInv, NEW key, FeedAiPreview(key)
    PROVE  TypeInv'
<1>1. CASE Quiet /\ UNCHANGED <<state, pinyinVars, previewVars, llmVars, quote_open>>
  BY <1>1, TypeInvParts, KeptComposition, KeptSlots, OtherNotices
<1> QED
  BY <1>1, ConfirmKeepsTypes, RetryKeepsTypes, EditKeepsTypes DEF FeedAiPreview

\* A key that does nothing.
LEMMA QuietKeepsTypes ==
    ASSUME TypeInv, Quiet,
           UNCHANGED <<state, pinyinVars, previewVars, llmVars, quote_open>>
    PROVE  TypeInv'
BY TypeInvParts, KeptComposition, KeptSlots, OtherNotices

\* the pages and the highlighted row, when the pages form a ring
LEMMA PageTurned ==
    ASSUME TypeInv, NEW step \in {-1, 1}, TotalPages > 1
    PROVE  LET page == (pinyin_page + TotalPages + step) % TotalPages
           IN  page \in Nat /\ page * PageSize \in Nat /\ page * PageSize < candidates
<1> DEFINE page == (pinyin_page + TotalPages + step) % TotalPages
<1>1. candidates \in Nat /\ pinyin_page \in Nat /\ PageSize \in 1..9
  BY TypeInvParts, MachineAssumption DEF CompositionInv, CompositionTypes
<1>2. TotalPages \in Nat
  BY <1>1 DEF TotalPages
<1>3. page \in Nat /\ page < TotalPages
  BY <1>1, <1>2
<1>4. page * PageSize \in Nat /\ page * PageSize < candidates
  BY <1>1, <1>3, PageBegins DEF TotalPages
<1> QED  BY <1>3, <1>4

\* Paging.
LEMMA PaginateKeepsTypes ==
    ASSUME TypeInv, NEW step \in {-1, 1}, Paginate(step)
    PROVE  TypeInv'
<1>1. CASE TotalPages <= 1
  BY <1>1, QuietKeepsTypes DEF Paginate, pinyinVars
<1>2. CASE ~(TotalPages <= 1)
  <2>1. candidates \in Nat /\ PageSize \in 1..9
    BY TypeInvParts, MachineAssumption DEF CompositionInv, CompositionTypes
  <2>2. TotalPages > 1
    BY <1>2, <2>1 DEF TotalPages
  <2>3. /\ pinyin_page' \in Nat /\ pinyin_page' * PageSize \in Nat
        /\ pinyin_page' * PageSize < candidates
    BY <1>2, <2>2, PageTurned DEF Paginate
  <2>4. CompositionTypes'
    BY <1>2, <2>3, TypeInvParts
       DEF Paginate, CompositionInv, CompositionTypes
  <2>5. CompositionShape'
    BY <1>2, <2>1, TypeInvParts
       DEF Paginate, CompositionInv, CompositionShape, Composing
  <2>6. HighlightInRange'
    <3>1. selected_index' = 0 /\ candidates' = candidates
      BY <1>2 DEF Paginate
    <3>2. candidates > 0
      BY <2>1, <2>2, ManyPages DEF TotalPages
    <3>3. pinyin_page' * PageSize + 0 < candidates
      BY <2>3
    <3> QED  BY <2>1, <3>1, <3>2, <3>3 DEF HighlightInRange
  <2> QED
    BY <1>2, <2>4, <2>5, <2>6, TypeInvParts, KeptSlots, OtherNotices
       DEF Paginate, CompositionInv
<1> QED  BY <1>1, <1>2

\* Moving the highlight to a row that exists.
LEMMA MoveKeepsTypes ==
    ASSUME TypeInv, candidates > 0, NEW page \in Nat, NEW sel \in Nat,
           sel < PageSize, page * PageSize + sel < candidates,
           MoveSelection(page, sel),
           UNCHANGED <<state, pinyin_buffer, candidates, deferred_intents,
                       previewVars, llmVars, quote_open>>
    PROVE  TypeInv'
<1>1. CompositionTypes /\ CompositionShape
  BY TypeInvParts DEF CompositionInv
<1>2. /\ last_candidates_request' \in Seq(Letters) \cup {None}
      /\ candidates_in_flight' \in BOOLEAN
      /\ NoticeOk'
  BY <1>1, RequestTypes DEF MoveSelection, CompositionTypes
<1>3. CompositionTypes'
  BY <1>1, <1>2 DEF MoveSelection, CompositionTypes
<1>4. CompositionShape' /\ HighlightInRange'
  BY <1>1 DEF MoveSelection, CompositionShape, HighlightInRange, Composing
<1> QED
  BY <1>2, <1>3, <1>4, TypeInvParts, KeptSlots DEF CompositionInv

\* The arrows only move to rows that exist, across pages too.
LEMMA ArrowKeepsTypes ==
    ASSUME TypeInv, NEW up \in BOOLEAN, FeedArrow(up)
    PROVE  TypeInv'
<1>1. /\ candidates \in Nat /\ pinyin_page \in Nat /\ selected_index \in Nat
      /\ PageSize \in 1..9 /\ HighlightInRange
  BY TypeInvParts, MachineAssumption DEF CompositionInv, CompositionTypes
<1>2. CASE candidates > 0 /\ up /\ selected_index > 0
  <2>1. MoveSelection(pinyin_page, selected_index - 1)
    BY <1>2 DEF FeedArrow
  <2> QED
    BY <1>1, <1>2, <2>1, MoveKeepsTypes DEF FeedArrow, HighlightInRange
<1>3. CASE candidates > 0 /\ up /\ ~(selected_index > 0) /\ pinyin_page > 0
  <2> DEFINE sel == PageItems(pinyin_page - 1) - 1
  <2>1. MoveSelection(pinyin_page - 1, sel)
    BY <1>3 DEF FeedArrow
  <2>2. pinyin_page * PageSize < candidates
    BY <1>1, <1>3 DEF HighlightInRange
  <2>3. (pinyin_page - 1) * PageSize = pinyin_page * PageSize - PageSize
    BY <1>1
  <2>4. sel \in Nat /\ sel < PageSize /\ (pinyin_page - 1) * PageSize + sel < candidates
    BY <1>1, <2>2, <2>3 DEF PageItems
  <2> QED
    BY <1>1, <1>3, <2>1, <2>4, MoveKeepsTypes DEF FeedArrow
<1>4. CASE /\ candidates > 0 /\ ~up /\ selected_index + 1 < PageItems(pinyin_page)
  <2>1. MoveSelection(pinyin_page, selected_index + 1)
    BY <1>4 DEF FeedArrow
  <2>2. /\ selected_index + 1 < PageSize
        /\ pinyin_page * PageSize + selected_index + 1 < candidates
    BY <1>1, <1>4 DEF PageItems
  <2> QED
    BY <1>1, <1>4, <2>1, <2>2, MoveKeepsTypes DEF FeedArrow
<1>5. CASE /\ candidates > 0 /\ ~up /\ ~(selected_index + 1 < PageItems(pinyin_page))
           /\ pinyin_page + 1 < TotalPages
  <2>1. MoveSelection(pinyin_page + 1, 0)
    BY <1>5 DEF FeedArrow
  <2>2. (pinyin_page + 1) * PageSize < candidates
    BY <1>1, <1>5, PageBegins DEF TotalPages
  <2> QED
    BY <1>1, <1>5, <2>1, <2>2, MoveKeepsTypes DEF FeedArrow
<1>6. CASE Quiet /\ UNCHANGED <<last_candidates_request, candidates_in_flight,
                                pinyin_page, selected_index>>
  BY <1>6, QuietKeepsTypes DEF FeedArrow, pinyinVars
<1> QED  BY <1>2, <1>3, <1>4, <1>5, <1>6 DEF FeedArrow

\* Dropping the last element.
LEMMA FrontType ==
    ASSUME NEW S, NEW s \in Seq(S), s # <<>>
    PROVE  Front(s) \in Seq(S) /\ Len(Front(s)) = Len(s) - 1
<1> DEFINE n == Len(s) - 1
           front == SubSeq(s, 1, n)
<1>1. \A i \in 1..n : s[i] \in S
  BY ElementOfSeq
<1>2. n \in Nat
  BY EmptySeq
<1>3. front \in Seq(S) /\ Len(front) = IF 1 <= n THEN n - 1 + 1 ELSE 0
  BY <1>1, <1>2, SubSeqProperties
<1>4. Len(front) = n
  <2> HIDE DEF n, front
  <2> QED  BY <1>2, <1>3
<1> QED  BY <1>3, <1>4 DEF Front

\* The texts the machine builds are texts.
LEMMA ModelTexts ==
    /\ <<>> \in Text
    /\ <<OcrText>> \in Text
    /\ \A c \in Chars : Key(c) \in Token
    /\ TypeInv => Raw \in Token /\ \A i \in Nat : Cand(i) \in Token
<1>1. <<>> \in Text /\ \A c \in Chars : Key(c) \in Token
  BY DEF Text, Key, Token
<1>2. OcrText \in Token
  BY DEF OcrText, Token, Kinds
<1>3. TypeInv => Raw \in Token /\ \A i \in Nat : Cand(i) \in Token
  BY TypeInvParts DEF CompositionInv, CompositionTypes, Raw, Cand, Token, Kinds
<1> QED  BY <1>1, <1>2, <1>3 DEF Text

-----------------------------------------------------------------------------
(***************************************************************************)
(* The keys.                                                               *)
(***************************************************************************)
\* A character in Idle or over an OCR preview.
LEMMA IdleKeepsTypes ==
    ASSUME TypeInv, NEW c \in Chars, FeedIdle(c)
    PROVE  TypeInv'
<1>1. PreviewTypes' /\ LlmTypes'
  BY TypeInvParts, KeptSlots DEF FeedIdle, PreviewTypes, LlmTypes, llmVars
<1>2. pinyin_buffer = <<>>
  BY TypeInvParts DEF FeedIdle, CompositionInv, CompositionShape, Composing
<1>3. CASE c = "/"
  <2>1. CompositionInv' /\ state' = "PendingSlash" /\ UNCHANGED quote_open
    BY <1>2, <1>3, KeyAssumption, TypeInvParts, KeptComposition DEF FeedIdle
  <2>2. NoticeOk'
    BY <1>3, KeyAssumption, OtherNotices DEF FeedIdle
  <2> QED
    BY <1>1, <2>1, <2>2, TypeInvParts DEF States
<1>4. CASE c \in Letters
  <2>1. state' = "Pinyin" /\ BufferTo(<<c>>) /\ UNCHANGED quote_open
    BY <1>4, KeyAssumption DEF FeedIdle
  <2>2. CompositionInv' /\ NoticeOk'
    <3>1. <<c>> \in Seq(Letters) /\ <<c>> # <<>> /\ Len(<<c>>) <= MaxPinyinBuffer
      BY <1>4, MachineAssumption
    <3> QED  BY <2>1, <3>1, TypeInvParts, BufferComposition
  <2> QED
    BY <1>1, <2>1, <2>2, TypeInvParts DEF States
<1>5. CASE c \notin Letters \cup {"/"}
  <2>1. state' = "Idle" /\ quote_open' = QuotesAfter(<<c>>) /\ UNCHANGED pinyinVars
        /\ NoticeOk'
    BY <1>5, OtherNotices DEF FeedIdle
  <2>2. CompositionInv'
    BY <1>2, <2>1, TypeInvParts, KeptComposition
  <2> QED
    BY <1>1, <2>1, <2>2, TypeInvParts, QuotesAfterType DEF States
<1> QED  BY <1>3, <1>4, <1>5

\* A character after one slash.
LEMMA PendingSlashKeepsTypes ==
    ASSUME TypeInv, NEW c \in Chars, FeedPendingSlash(c)
    PROVE  TypeInv'
<1>1. pinyin_buffer = <<>>
  BY TypeInvParts DEF FeedPendingSlash, CompositionInv, CompositionShape, Composing
<1>2. state' \in {"Prompt", "Idle"} /\ NoticeOk'
  BY OtherNotices DEF FeedPendingSlash
<1>3. CompositionInv' /\ PreviewTypes'
  BY <1>1, <1>2, TypeInvParts, KeptComposition, KeptSlots DEF FeedPendingSlash
<1>4. LlmTypes'
  BY TypeInvParts, ModelTexts DEF FeedPendingSlash, LlmTypes
<1> QED
  BY <1>2, <1>3, <1>4, TypeInvParts DEF FeedPendingSlash, States

\* One more letter, below the limit of the buffer.
LEMMA LetterKeepsTypes ==
    ASSUME TypeInv, NEW c \in Letters, state \in {"Pinyin", "Prompt"},
           Len(pinyin_buffer) < MaxPinyinBuffer,
           BufferTo(Append(pinyin_buffer, c)),
           UNCHANGED <<state, previewVars, llmVars, quote_open>>
    PROVE  TypeInv'
<1> DEFINE buffer == Append(pinyin_buffer, c)
<1>1. /\ buffer \in Seq(Letters) /\ buffer # <<>>
      /\ Len(buffer) <= MaxPinyinBuffer
  <2>1. /\ buffer \in Seq(Letters)
        /\ Len(buffer) = Len(pinyin_buffer) + 1
    BY TypeInvParts, AppendProperties DEF CompositionInv, CompositionTypes
  <2>2. Len(pinyin_buffer) \in Nat /\ MaxPinyinBuffer \in Nat
    BY TypeInvParts, LenProperties, MachineAssumption
       DEF CompositionInv, CompositionTypes
  <2> HIDE DEF buffer
  <2> QED  BY <2>1, <2>2, EmptySeq
<1>2. CompositionInv' /\ NoticeOk'
  <2> HIDE DEF buffer
  <2> QED  BY <1>1, TypeInvParts, BufferComposition DEF buffer
<1> QED  BY <1>2, TypeInvParts, KeptSlots

\* Every key of the main composition but the paging ones.
LEMMA PinyinKeysKeepTypes ==
    ASSUME TypeInv, NEW c \in Chars,
           \/ FeedPinyinSlash \/ FeedPinyinSpace \/ FeedPinyinLetter(c)
           \/ FeedPinyinSuffix(c) \/ FeedPinyinDigit(c)
    PROVE  TypeInv'
<1>1. CASE FeedPinyinSlash
  BY <1>1, CommitKeepsTypes DEF FeedPinyinSlash
<1>2. CASE FeedPinyinSpace
  BY <1>2, CommitKeepsTypes, DeferKeepsTypes DEF FeedPinyinSpace, SpaceAt, Chars
<1>3. CASE FeedPinyinLetter(c)
  <2>1. CASE Len(pinyin_buffer) >= MaxPinyinBuffer
    BY <1>3, <2>1, QuietKeepsTypes DEF FeedPinyinLetter
  <2>2. CASE ~(Len(pinyin_buffer) >= MaxPinyinBuffer)
    <3>1. Len(pinyin_buffer) < MaxPinyinBuffer
      BY <2>2, TypeInvParts, MachineAssumption DEF CompositionInv, CompositionTypes
    <3> QED  BY <1>3, <2>2, <3>1, LetterKeepsTypes DEF FeedPinyinLetter
  <2> QED  BY <2>1, <2>2
<1>4. CASE FeedPinyinSuffix(c)
  BY <1>4, CommitKeepsTypes, DeferKeepsTypes DEF FeedPinyinSuffix
<1>5. CASE FeedPinyinDigit(c)
  BY <1>5, CommitKeepsTypes, QuietKeepsTypes DEF FeedPinyinDigit
<1> QED  BY <1>1, <1>2, <1>3, <1>4, <1>5

\* settling the composition into the prompt
LEMMA SettledInPrompt ==
    ASSUME TypeInv, state = "Prompt", NEW text \in Text, PromptGrows(text),
           \/ ClearCompositionState
           \/ UNCHANGED <<pinyinVars, previewVars>>
    PROVE  TypeInv'
<1>1. state' = "Prompt" /\ UNCHANGED quote_open
  BY DEF PromptGrows
<1>2. CompositionInv' /\ PreviewTypes'
  BY <1>1, TypeInvParts, ClearedComposition, KeptComposition, KeptSlots
<1> QED
  BY <1>1, <1>2, TypeInvParts, PromptTypes

\* A character while composing in the prompt.
LEMMA PromptComposingKeepsTypes ==
    ASSUME TypeInv, NEW c \in Chars, FeedPromptComposing(c)
    PROVE  TypeInv'
<1>1. Raw \in Token /\ (\A i \in Nat : Cand(i) \in Token) /\ Key(c) \in Token
  BY ModelTexts
<1>2. CASE c \in Letters
  <2>1. CASE Len(pinyin_buffer) >= MaxPinyinBuffer
    BY <1>2, <2>1, KeyAssumption, QuietKeepsTypes DEF FeedPromptComposing
  <2>2. CASE ~(Len(pinyin_buffer) >= MaxPinyinBuffer)
    <3>1. Len(pinyin_buffer) < MaxPinyinBuffer
      BY <2>2, TypeInvParts, MachineAssumption DEF CompositionInv, CompositionTypes
    <3>2. /\ state = "Prompt" /\ BufferTo(Append(pinyin_buffer, c))
          /\ UNCHANGED <<state, previewVars, llmVars, quote_open>>
      BY <1>2, <2>2, KeyAssumption DEF FeedPromptComposing
    <3> QED  BY <1>2, <3>1, <3>2, LetterKeepsTypes
  <2> QED  BY <2>1, <2>2
<1>3. CASE c \in Digits
  <2>1. CASE Quiet /\ UNCHANGED <<state, pinyinVars, previewVars, llmVars, quote_open>>
    BY <2>1, QuietKeepsTypes
  <2>2. CASE PromptGrows(<<Cand(DigitValue(c))>>) /\ ClearCompositionState
    <3>1. DigitValue(c) \in Nat
      BY <1>3 DEF DigitValue, Digits
    <3>2. <<Cand(DigitValue(c))>> \in Text
      BY <1>1, <3>1 DEF Text
    <3> QED  BY <2>2, <3>2, SettledInPrompt DEF FeedPromptComposing
  <2> QED  BY <1>3, <2>1, <2>2, KeyAssumption DEF FeedPromptComposing
<1>4. CASE c \notin Letters \cup Digits
  <2> DEFINE text == IF c = " " THEN <<FirstOrRaw(candidates)>>
                     ELSE <<FirstOrRaw(candidates), Key(c)>>
  <2>1. state = "Prompt" /\ PromptGrows(text) /\ ClearCompositionState
    BY <1>4 DEF FeedPromptComposing
  <2>2. FirstOrRaw(candidates) \in Token
    BY <1>1 DEF FirstOrRaw
  <2>3. text \in Text
    <3>1. /\ <<FirstOrRaw(candidates)>> \in Text
          /\ <<FirstOrRaw(candidates), Key(c)>> \in Text
      BY <1>1, <2>2 DEF Text
    <3> QED  BY <3>1
  <2> HIDE DEF text
  <2> QED  BY <2>1, <2>3, SettledInPrompt
<1> QED  BY <1>2, <1>3, <1>4

\* what Enter and Tab send from an empty composition
LEMMA SendKeepsTypes ==
    ASSUME TypeInv, state = "Prompt", ~Composing, state' = "Streaming",
           NoticeOk', ai_preview' = "Streaming", result' = 0, prompt' = <<>>,
           NEW source \in Text \cup {None},
           rewrite_source' \in Text \cup {None},
           last_request' = [prompt |-> prompt, rewrite_source |-> source],
           UNCHANGED <<pinyinVars, ocr_preview, rewrite_preview, quote_open>>
    PROVE  TypeInv'
<1>1. CompositionInv'
  BY TypeInvParts, KeptComposition DEF Composing
<1>2. PreviewTypes'
  BY TypeInvParts DEF PreviewTypes
<1>3. LlmTypes'
  BY TypeInvParts, ModelTexts, MachineAssumption DEF LlmTypes, Requests
<1> QED  BY <1>1, <1>2, <1>3, TypeInvParts DEF States

\* A character in a prompt that composes nothing.
LEMMA PromptPlainKeepsTypes ==
    ASSUME TypeInv, NEW c \in Chars, FeedPromptPlain(c)
    PROVE  TypeInv'
<1>1. CASE c \in Letters
  <2>1. /\ state = "Prompt" /\ BufferTo(<<c>>)
        /\ UNCHANGED <<state, previewVars, llmVars, quote_open>>
    BY <1>1, KeyAssumption DEF FeedPromptPlain
  <2>2. <<c>> \in Seq(Letters) /\ <<c>> # <<>> /\ Len(<<c>>) <= MaxPinyinBuffer
    BY <1>1, MachineAssumption
  <2> QED  BY <2>1, <2>2, TypeInvParts, BufferComposition, KeptSlots
<1>2. CASE c \notin Letters \cup {"\t"}
  <2>1. state = "Prompt" /\ PromptGrows(<<Key(c)>>) /\ UNCHANGED <<pinyinVars, previewVars>>
    BY <1>2 DEF FeedPromptPlain
  <2>2. <<Key(c)>> \in Text
    BY ModelTexts DEF Text
  <2> QED  BY <2>1, <2>2, SettledInPrompt
<1>3. CASE c = "\t" /\ prompt = <<>>
  BY <1>3, KeyAssumption, TypeInvParts, KeptComposition, KeptSlots, OtherNotices
     DEF FeedPromptPlain
<1>4. CASE c = "\t" /\ prompt # <<>>
  <2>1. /\ state = "Prompt" /\ ~Composing
        /\ StartPhase([act |-> "StartRewrite", text |-> prompt])
        /\ prompt' = <<>>
        /\ rewrite_source' = prompt
        /\ last_request' = [prompt |-> prompt, rewrite_source |-> prompt]
        /\ UNCHANGED <<pinyinVars, ocr_preview, rewrite_preview, quote_open>>
    BY <1>4, KeyAssumption DEF FeedPromptPlain
  <2>2. prompt \in Text
    BY TypeInvParts DEF LlmTypes
  <2> QED  BY <2>1, <2>2, StartTypes, SendKeepsTypes
<1> QED  BY <1>1, <1>2, <1>3, <1>4

\* A character while a stream runs.
LEMMA StreamingKeyKeepsTypes ==
    ASSUME TypeInv, NEW c \in Chars, FeedStreaming(c)
    PROVE  TypeInv'
BY ConfirmKeepsTypes, QuietKeepsTypes DEF FeedStreaming

\* An OCR preview that ends commits nothing.
LEMMA EndOcrKeepsTypes ==
    ASSUME TypeInv, EndOcrPreview
    PROVE  TypeInv'
<1>1. state' \in States /\ CompositionInv'
  BY TypeInvParts, KeptComposition DEF EndOcrPreview, States
<1>2. PreviewTypes'
  BY TypeInvParts DEF EndOcrPreview, PreviewTypes
<1> QED
  BY <1>1, <1>2, TypeInvParts, KeptSlots, OtherNotices DEF EndOcrPreview

\* Backspace, by what it removes.
LEMMA BackspaceKeepsTypes ==
    ASSUME TypeInv, FeedBackspace
    PROVE  TypeInv'
<1>1. pinyin_buffer \in Seq(Letters) /\ Len(pinyin_buffer) <= MaxPinyinBuffer
  BY TypeInvParts DEF CompositionInv, CompositionTypes
<1>2. ASSUME Len(pinyin_buffer) > 1
      PROVE  /\ Front(pinyin_buffer) \in Seq(Letters) /\ Front(pinyin_buffer) # <<>>
             /\ Len(Front(pinyin_buffer)) <= MaxPinyinBuffer
  <2>1. pinyin_buffer # <<>> /\ Len(pinyin_buffer) \in Nat /\ MaxPinyinBuffer \in Nat
    BY <1>1, <1>2, EmptySeq, LenProperties, MachineAssumption
  <2>2. /\ Front(pinyin_buffer) \in Seq(Letters)
        /\ Len(Front(pinyin_buffer)) = Len(pinyin_buffer) - 1
    BY <1>1, <2>1, FrontType
  <2> QED  BY <1>1, <1>2, <2>1, <2>2, EmptySeq
<1>3. \A next, name : LeaveTo(next, name) /\ name # "RewriteReady" =>
        state' = next /\ NoticeOk' /\ UNCHANGED quote_open
  BY OtherNotices DEF LeaveTo
<1>4. CASE /\ state = "PendingSlash"
           /\ LeaveTo("Idle", "Cancel")
           /\ UNCHANGED <<pinyinVars, previewVars, llmVars>>
  BY <1>3, <1>4, TypeInvParts, KeptComposition, KeptSlots DEF States
<1>5. CASE /\ state = "Pinyin" /\ Len(pinyin_buffer) > 1
           /\ BufferTo(Front(pinyin_buffer))
           /\ UNCHANGED <<state, previewVars, llmVars, quote_open>>
  BY <1>2, <1>5, TypeInvParts, BufferComposition, KeptSlots
<1>6. CASE /\ state \in {"Pinyin", "Prompt"}
           /\ ClearCompositionState
           /\ LeaveTo("Idle", "Cancel") \/ LeaveTo("Prompt", "UpdatePrompt")
           /\ UNCHANGED llmVars
  BY <1>3, <1>6, TypeInvParts, ClearedComposition, KeptSlots DEF States
<1>7. CASE /\ state = "Prompt" /\ Len(pinyin_buffer) > 1
           /\ pinyin_buffer' = Front(pinyin_buffer)
           /\ candidates' = 0
           /\ pinyin_page' = 0
           /\ LeaveTo("Prompt", "UpdatePrompt")
           /\ UNCHANGED <<last_candidates_request, candidates_in_flight,
                          deferred_intents, selected_index, previewVars, llmVars>>
  <2>1. CompositionInv'
    BY <1>2, <1>3, <1>7, TypeInvParts
       DEF CompositionInv, CompositionTypes, CompositionShape, HighlightInRange,
           Composing
  <2> QED  BY <1>3, <1>7, <2>1, TypeInvParts, KeptSlots DEF States
<1>8. CASE /\ state = "Prompt" /\ ~Composing /\ prompt # <<>>
           /\ prompt' = Front(prompt)
           /\ LeaveTo("Prompt", "UpdatePrompt")
           /\ UNCHANGED <<pinyinVars, previewVars, last_request, result>>
  <2>1. LlmTypes'
    BY <1>8, TypeInvParts, FrontType DEF LlmTypes, Text
  <2> QED  BY <1>3, <1>8, <2>1, TypeInvParts, KeptComposition, KeptSlots DEF States
<1>9. CASE /\ state = "Prompt" /\ ~Composing /\ prompt = <<>>
           /\ LeaveTo("Idle", "Cancel")
           /\ UNCHANGED <<pinyinVars, previewVars, llmVars>>
  BY <1>3, <1>9, TypeInvParts, KeptComposition, KeptSlots DEF States, Composing
<1>10. CASE FeedAiPreview("Edit")
  BY <1>10, AiKeyKeepsTypes
<1>11. CASE NoAction
  BY <1>11, QuietKeepsTypes DEF NoAction
<1>12. CASE EndOcrPreview
  BY <1>12, EndOcrKeepsTypes
<1> QED
  BY <1>4, <1>5, <1>6, <1>7, <1>8, <1>9, <1>10, <1>11, <1>12 DEF FeedBackspace

\* Enter, by what it settles or sends.
LEMMA EnterKeepsTypes ==
    ASSUME TypeInv, FeedEnter
    PROVE  TypeInv'
<1>1. CASE state = "Pinyin" /\ CommitPinyin("Idle", Raw, <<>>)
  BY <1>1, CommitKeepsTypes
<1>2. CASE state = "Prompt" /\ PromptGrows(<<Raw>>) /\ ClearCompositionState
  <2>1. <<Raw>> \in Text
    BY ModelTexts DEF Text
  <2> QED  BY <1>2, <2>1, SettledInPrompt
<1>3. CASE /\ state = "Prompt" /\ ~Composing
           /\ StartPhase([act |-> "StartLlm", text |-> prompt])
           /\ prompt' = <<>>
           /\ last_request' = [prompt |-> prompt, rewrite_source |-> None]
           /\ UNCHANGED <<pinyinVars, ocr_preview, rewrite_source, rewrite_preview,
                          quote_open>>
  <2>1. rewrite_source' \in Text \cup {None}
    BY <1>3, TypeInvParts DEF PreviewTypes
  <2> QED  BY <1>3, <2>1, StartTypes, SendKeepsTypes
<1>4. CASE state \in {"Streaming", "ResultReady"} /\ ConfirmResult
  BY <1>4, ConfirmKeepsTypes
<1>5. CASE state = "Failed" /\ RetryLastLlm
  BY <1>5, RetryKeepsTypes
<1>6. CASE NoAction
  BY <1>6, QuietKeepsTypes DEF NoAction
<1>7. CASE EndOcrPreview
  BY <1>7, EndOcrKeepsTypes
<1> QED  BY <1>1, <1>2, <1>3, <1>4, <1>5, <1>6, <1>7 DEF FeedEnter

\* Escape.
LEMMA EscapeKeepsTypes ==
    ASSUME TypeInv, FeedEscape
    PROVE  TypeInv'
<1>1. state' = "Idle" /\ ClearCompositionState /\ UNCHANGED quote_open /\ NoticeOk'
  BY OtherNotices DEF FeedEscape
<1>2. LlmTypes'
  BY TypeInvParts, ModelTexts, MachineAssumption DEF FeedEscape, LlmTypes
<1> QED  BY <1>1, <1>2, TypeInvParts, ClearedComposition DEF States

-----------------------------------------------------------------------------
(***************************************************************************)
(* The previews and the events.                                            *)
(***************************************************************************)
\* An OCR preview shown, answered or expired.
LEMMA OcrKeepsTypes ==
    ASSUME TypeInv,
           \/ \E text \in {<<>>, <<OcrText>>} : BeginOcrPreview(text)
           \/ \E key \in {"Confirm", "Escape", "Other"} : FeedOcrPreview(key)
           \/ ExpireStaleOcrPreview
    PROVE  TypeInv'
<1>1. ASSUME NEW text \in {<<>>, <<OcrText>>}, BeginOcrPreview(text)
      PROVE  TypeInv'
  <2>1. text \in Text
    BY ModelTexts
  <2>2. state' \in States /\ CompositionInv'
    BY <1>1, TypeInvParts, KeptComposition DEF BeginOcrPreview, States
  <2>3. PreviewTypes'
    BY <1>1, <2>1, TypeInvParts DEF BeginOcrPreview, PreviewTypes
  <2>4. NoticeOk'
    BY <1>1, OtherNotices DEF BeginOcrPreview
  <2> QED
    BY <1>1, <2>2, <2>3, <2>4, TypeInvParts, KeptSlots DEF BeginOcrPreview
<1>2. ASSUME NEW key \in {"Confirm", "Escape", "Other"}, FeedOcrPreview(key)
      PROVE  TypeInv'
  <2>1. state' \in States /\ CompositionInv'
    BY <1>2, TypeInvParts, KeptComposition DEF FeedOcrPreview, States
  <2>2. PreviewTypes'
    BY <1>2, TypeInvParts DEF FeedOcrPreview, PreviewTypes
  <2>3. NoticeOk'
    BY <1>2, OtherNotices DEF FeedOcrPreview
  <2> QED
    BY <1>2, <2>1, <2>2, <2>3, TypeInvParts, KeptSlots DEF FeedOcrPreview
<1>3. CASE ExpireStaleOcrPreview
  BY <1>3, EndOcrKeepsTypes DEF ExpireStaleOcrPreview
<1> QED  BY <1>1, <1>2, <1>3

\* The three answers to a comparison.
LEMMA RewritePreviewKeepsTypes ==
    ASSUME TypeInv, NEW key \in {"Rewritten", "Source", "Escape"},
           FeedRewritePreview(key)
    PROVE  TypeInv'
<1>1. state' \in States /\ CompositionInv'
  BY TypeInvParts, KeptComposition DEF FeedRewritePreview, RewritePreviewing, States
<1>2. PreviewTypes' /\ LlmTypes'
  BY TypeInvParts, MachineAssumption DEF FeedRewritePreview, PreviewTypes, LlmTypes
<1>3. NoticeOk'
  BY OtherNotices DEF FeedRewritePreview
<1> QED
  BY <1>1, <1>2, <1>3, TypeInvParts DEF FeedRewritePreview

\* A comparison armed or refused.
LEMMA BeginRewriteKeepsTypes ==
    ASSUME TypeInv, NEW rewritten \in Nat, NEW source \in Text,
           BeginRewritePreview(rewritten, source)
    PROVE  TypeInv'
<1>1. PreviewTypes'
  <2>1. [rewritten |-> rewritten, source |-> source] \in Comparisons
    BY DEF Comparisons
  <2> QED  BY <2>1, TypeInvParts DEF BeginRewritePreview, PreviewTypes
<1> QED
  BY <1>1, TypeInvParts, KeptComposition, KeptSlots, OtherNotices
     DEF BeginRewritePreview

\* Every step of a preview.
LEMMA PreviewStepKeepsTypes ==
    ASSUME TypeInv, PreviewStep
    PROVE  TypeInv'
<1>1. CASE /\ out # <<>> /\ out[1].act = "RewriteReady"
           /\ BeginRewritePreview(out[1].rewritten, out[1].source)
  <2>1. out[1].rewritten \in Nat /\ out[1].source \in Text
    BY <1>1, TypeInvParts, MachineAssumption DEF NoticeOk
  <2> QED  BY <1>1, <2>1, BeginRewriteKeepsTypes
<1> QED
  BY <1>1, OcrKeepsTypes, RewritePreviewKeepsTypes DEF PreviewStep

\* Chunk, done and error of a stream.
LEMMA LlmEventKeepsTypes ==
    ASSUME TypeInv, LlmEvent
    PROVE  TypeInv'
<1>1. CASE OnLlmChunk
  <2>1. CompositionInv' /\ NoticeOk'
    BY <1>1, TypeInvParts, KeptComposition, OtherNotices DEF OnLlmChunk, Ignored
  <2>2. PreviewTypes' /\ LlmTypes'
    BY <1>1, TypeInvParts, KeptSlots, MachineAssumption
       DEF OnLlmChunk, Ignored, LlmTypes
  <2> QED
    BY <1>1, <2>1, <2>2, TypeInvParts DEF OnLlmChunk, Ignored
<1>2. CASE OnLlmDone
  <2>1. CASE state = "Streaming"
    <3>1. CompositionInv' /\ state' \in States
      BY <1>2, <2>1, TypeInvParts, KeptComposition DEF OnLlmDone, States
    <3>2. PreviewTypes' /\ LlmTypes'
      BY <1>2, <2>1, TypeInvParts DEF OnLlmDone, PreviewTypes, LlmTypes
    <3>3. NoticeOk'
      BY <1>2, <2>1, TypeInvParts
         DEF OnLlmDone, NoticeOk, Emit, PreviewTypes, LlmTypes
    <3> QED  BY <1>2, <3>1, <3>2, <3>3, TypeInvParts DEF OnLlmDone
  <2>2. CASE state # "Streaming"
    BY <1>2, <2>2, TypeInvParts, KeptComposition, KeptSlots, OtherNotices
       DEF OnLlmDone, Ignored, LlmTypes
  <2> QED  BY <2>1, <2>2
<1>3. CASE OnLlmError
  <2>1. CompositionInv' /\ state' \in States /\ NoticeOk'
    BY <1>3, TypeInvParts, KeptComposition, OtherNotices DEF OnLlmError, States
  <2>2. PreviewTypes' /\ LlmTypes'
    BY <1>3, TypeInvParts, KeptSlots DEF OnLlmError, PreviewTypes
  <2> QED
    BY <1>3, <2>1, <2>2, TypeInvParts DEF OnLlmError
<1> QED  BY <1>1, <1>2, <1>3 DEF LlmEvent

\* An answer: stale, replaying the queue, or filling the list.
LEMMA AnswerKeepsTypes ==
    ASSUME TypeInv, NEW p \in Pinyins, NEW n \in Answers, NEW done \in AnswerDone,
           OnLlmCandidates(p, n, done)
    PROVE  TypeInv'
<1> DEFINE count == IF n > candidates THEN n ELSE candidates
           inFlight == candidates_in_flight /\ ~done
<1>1. /\ CompositionTypes /\ CompositionShape /\ HighlightInRange
      /\ n \in Nat /\ done \in BOOLEAN
      /\ count \in Nat /\ count >= candidates
  BY TypeInvParts, MachineAssumption DEF CompositionInv, CompositionTypes
<1>2. p # <<>>
  BY MachineAssumption DEF Pinyins
<1>3. CASE p # pinyin_buffer
  BY <1>3, QuietKeepsTypes DEF OnLlmCandidates
<1>4. CASE ReplayDeferredIntents(count) /\ p = pinyin_buffer /\ deferred_intents # <<>>
  <2>1. CASE /\ candidates' = 0
             /\ pinyin_page' = 0
             /\ selected_index' = 0
             /\ deferred_intents' = <<>>
             /\ candidates_in_flight' = FALSE
             /\ Emit(UpdatePinyin(0, 0, 0, ShowsRaw(pinyin_buffer, 0, FALSE)))
             /\ UNCHANGED <<state, pinyin_buffer, last_candidates_request,
                            previewVars, llmVars, quote_open>>
    <3>1. CompositionTypes'
      <4>1. <<>> \in Seq(Chars)
        OBVIOUS
      <4> QED  BY <1>1, <2>1, <4>1 DEF CompositionTypes
    <3>2. CompositionShape' /\ HighlightInRange'
      BY <1>1, <2>1 DEF CompositionShape, HighlightInRange, Composing
    <3> QED
      BY <2>1, <3>1, <3>2, TypeInvParts, KeptSlots, OtherNotices DEF CompositionInv
  <2> QED
    BY <1>4, <2>1, CommitKeepsTypes DEF ReplayDeferredIntents
<1>5. CASE /\ p = pinyin_buffer
           /\ candidates' = count
           /\ candidates_in_flight' = inFlight
           /\ selected_index' = IF done \/ count > candidates THEN 0 ELSE selected_index
           /\ IF count > candidates
              THEN Emit(UpdatePinyin(count, pinyin_page, selected_index', FALSE))
              ELSE Quiet
           /\ UNCHANGED <<state, pinyin_buffer, last_candidates_request,
                          deferred_intents, pinyin_page, previewVars, llmVars,
                          quote_open>>
  <2>1. CompositionTypes'
    BY <1>1, <1>5 DEF CompositionTypes
  <2>2. CompositionShape'
    BY <1>1, <1>2, <1>5 DEF CompositionShape, Composing
  <2>3. HighlightInRange'
    BY <1>1, <1>5, MachineAssumption DEF HighlightInRange, CompositionTypes
  <2>4. NoticeOk'
    BY <1>5, OtherNotices
  <2> QED
    BY <1>5, <2>1, <2>2, <2>3, <2>4, TypeInvParts, KeptSlots DEF CompositionInv
<1> QED  BY <1>3, <1>4, <1>5 DEF OnLlmCandidates

-----------------------------------------------------------------------------
(***************************************************************************)
(* Type correctness.                                                       *)
(***************************************************************************)
\* The types at the start.
LEMMA InitTypes == Init => TypeInv
<1> SUFFICES ASSUME Init PROVE TypeInv  OBVIOUS
<1>1. CompositionInv
  <2>1. <<>> \in Seq(Letters) /\ <<>> \in Seq(Chars) /\ Len(<<>>) <= MaxPinyinBuffer
    BY MachineAssumption
  <2>2. CompositionTypes
    BY <2>1 DEF Init, CompositionTypes
  <2>3. CompositionShape /\ HighlightInRange
    BY DEF Init, CompositionShape, HighlightInRange, Composing
  <2> QED  BY <2>2, <2>3 DEF CompositionInv
<1>2. PreviewTypes /\ LlmTypes
  BY ModelTexts, MachineAssumption DEF Init, PreviewTypes, LlmTypes
<1> QED  BY <1>1, <1>2, TypeInvParts DEF Init, States, NoticeOk

\* No step leaves the types, whatever the sizes: one case per action.
LEMMA NextKeepsTypes == TypeInv /\ [Next]_vars => TypeInv'
<1> SUFFICES ASSUME TypeInv, [Next]_vars PROVE TypeInv'  OBVIOUS
<1>1. CASE UserKey
  <2>1. ASSUME NEW c \in Chars, FeedChar(c) PROVE TypeInv'
    BY <2>1, IdleKeepsTypes, PendingSlashKeepsTypes, PinyinKeysKeepTypes,
       PaginateKeepsTypes, PromptComposingKeepsTypes, PromptPlainKeepsTypes,
       StreamingKeyKeepsTypes, AiKeyKeepsTypes
       DEF FeedChar
  <2> QED
    BY <1>1, <2>1, PaginateKeepsTypes, ArrowKeepsTypes, BackspaceKeepsTypes,
       EnterKeepsTypes, EscapeKeepsTypes
       DEF UserKey
<1>2. CASE PreviewStep
  BY <1>2, PreviewStepKeepsTypes
<1>3. CASE LlmEvent
  BY <1>3, LlmEventKeepsTypes
<1>4. CASE AnswerEvent
  BY <1>4, AnswerKeepsTypes DEF AnswerEvent
<1>5. CASE UNCHANGED vars
  <2>1. NoticeOk'
    BY <1>5, TypeInvParts DEF NoticeOk, vars
  <2> QED
    BY <1>5, <2>1, TypeInvParts, KeptComposition, KeptSlots DEF vars
<1> QED  BY <1>1, <1>2, <1>3, <1>4, <1>5 DEF Next

\* TypeInv is an invariant: the strengthening of TypeOK that is inductive.
THEOREM TypeInvariant == Spec => []TypeInv
<1> QED  BY InitTypes, NextKeepsTypes, PTL DEF Spec

\* Every variable keeps its type in every reachable state (run Machine
\* checks it on a small instance).
THEOREM TypeCorrect == Spec => []TypeOK
<1>1. TypeInv => TypeOK
  BY DEF TypeInv
<1> QED  BY <1>1, TypeInvariant, PTL

\* The row that Space commits and the panel highlights is always a row of the
\* list, on whatever page it is.
THEOREM HighlightExists == Spec => []HighlightInRange
<1>1. TypeInv => HighlightInRange
  BY DEF TypeInv
<1> QED  BY <1>1, TypeInvariant, PTL

-----------------------------------------------------------------------------

(***************************************************************************)
(* Preview slots.                                                          *)
(***************************************************************************)
SlotInv == PreviewSlotsMatchState /\ OverlayPhaseMatchesState

\* No preview, comparison, request or phase is confused with an empty slot.
LEMMA NoneIsNoValue ==
    /\ <<OcrText>> # None
    /\ \A t \in Text : t # None
    /\ \A t \in Text, n \in Nat : [rewritten |-> n, source |-> t] # None
    /\ \A p \in Text, s \in Text \cup {None} : [prompt |-> p, rewrite_source |-> s] # None
    /\ None \notin {"Streaming", "Ready", "Failed"}
BY ModelTexts, NoneAssumption DEF Comparisons, Requests

\* an answer settles the composition or touches nothing but the composition
LEMMA AnswerCases ==
    ASSUME NEW p, NEW n, NEW done, OnLlmCandidates(p, n, done)
    PROVE  \/ UNCHANGED <<state, previewVars, llmVars>>
           \/ \E m, keys : CommitPinyin("Idle", FirstOrRaw(m), keys)
BY DEF OnLlmCandidates, ReplayDeferredIntents

\* begin_rewrite_preview, and where its arguments come from
RewriteArmed(w, s) ==
    /\ BeginRewritePreview(w, s)
    /\ out # <<>> /\ out[1].act = "RewriteReady"
    /\ w = out[1].rewritten /\ s = out[1].source

\* The actions of Next, without the grouping.
LEMMA StepCases ==
    ASSUME TypeInv, Next
    PROVE  \/ \E c \in Chars :
                FeedIdle(c) \/ FeedPendingSlash(c) \/ FeedPinyinLetter(c)
                \/ FeedPinyinSuffix(c) \/ FeedPinyinDigit(c)
                \/ FeedPromptComposing(c) \/ FeedPromptPlain(c) \/ FeedStreaming(c)
           \/ FeedPinyinSlash
           \/ \E step \in {-1, 1} : Paginate(step)
           \/ FeedPinyinSpace
           \/ \E key \in AiKeys : FeedAiPreview(key)
           \/ \E up \in BOOLEAN : FeedArrow(up)
           \/ FeedBackspace
           \/ FeedEnter
           \/ FeedEscape
           \/ \E text \in {<<>>, <<OcrText>>} : BeginOcrPreview(text)
           \/ \E key \in {"Confirm", "Escape", "Other"} : FeedOcrPreview(key)
           \/ ExpireStaleOcrPreview
           \/ \E key \in {"Rewritten", "Source", "Escape"} : FeedRewritePreview(key)
           \/ \E w \in Nat, s \in Text : RewriteArmed(w, s)
           \/ OnLlmChunk
           \/ OnLlmDone
           \/ OnLlmError
           \/ /\ candidates_in_flight \/ DuplicateAnswers
              /\ \E p \in Pinyins, n \in Answers, done \in AnswerDone :
                    OnLlmCandidates(p, n, done)
<1>1. CASE UserKey
  <2>1. \A c \in Chars : AiKey(c) \in AiKeys
    BY DEF AiKey, AiKeys
  <2> QED  BY <1>1, <2>1 DEF UserKey, FeedChar
<1>2. CASE PreviewStep
  <2>1. ASSUME out # <<>>, out[1].act = "RewriteReady",
               BeginRewritePreview(out[1].rewritten, out[1].source)
        PROVE  \E w \in Nat, s \in Text : RewriteArmed(w, s)
    <3>1. out[1].rewritten \in Nat /\ out[1].source \in Text
      BY <2>1, TypeInvParts, MachineAssumption DEF NoticeOk
    <3> QED  BY <2>1, <3>1 DEF RewriteArmed
  <2> QED  BY <1>2, <2>1 DEF PreviewStep
<1>3. CASE LlmEvent \/ AnswerEvent
  BY <1>3 DEF LlmEvent, AnswerEvent
<1> QED  BY <1>1, <1>2, <1>3 DEF Next

\* A step of any action keeps every slot in the state that routes keys to it.
LEMMA NextKeepsSlots == TypeInv /\ SlotInv /\ Next => SlotInv'
<1> SUFFICES ASSUME TypeInv, SlotInv, Next PROVE SlotInv'  OBVIOUS
<1> USE DEF SlotInv, PreviewSlotsMatchState, OverlayPhaseMatchesState
<1>1. ASSUME NEW c \in Chars, FeedIdle(c) PROVE SlotInv'
  BY <1>1, NoneIsNoValue
     DEF FeedIdle, BufferTo, PinyinAction, pinyinVars, previewVars, llmVars
<1>2. ASSUME NEW c \in Chars, FeedPendingSlash(c) PROVE SlotInv'
  BY <1>2, NoneIsNoValue
     DEF FeedPendingSlash, pinyinVars, previewVars, llmVars
<1>3. ASSUME FeedPinyinSlash PROVE SlotInv'
  BY <1>3, NoneIsNoValue
     DEF FeedPinyinSlash, CommitPinyin, ClearCompositionState, pinyinVars,
         previewVars, llmVars
<1>4. ASSUME NEW step \in {-1, 1}, Paginate(step) PROVE SlotInv'
  BY <1>4, NoneIsNoValue
     DEF Paginate, pinyinVars, previewVars, llmVars
<1>5. ASSUME FeedPinyinSpace PROVE SlotInv'
  BY <1>5, NoneIsNoValue
     DEF FeedPinyinSpace, SpaceAt, Defer, CommitPinyin, ClearCompositionState,
         pinyinVars, previewVars, llmVars
<1>6. ASSUME NEW c \in Chars, FeedPinyinLetter(c) PROVE SlotInv'
  BY <1>6, NoneIsNoValue
     DEF FeedPinyinLetter, BufferTo, PinyinAction, pinyinVars, previewVars, llmVars
<1>7. ASSUME NEW c \in Chars, FeedPinyinSuffix(c) PROVE SlotInv'
  BY <1>7, NoneIsNoValue
     DEF FeedPinyinSuffix, Defer, CommitPinyin, ClearCompositionState, PinyinAction,
         pinyinVars, previewVars, llmVars
<1>8. ASSUME NEW c \in Chars, FeedPinyinDigit(c) PROVE SlotInv'
  BY <1>8, NoneIsNoValue
     DEF FeedPinyinDigit, CommitPinyin, ClearCompositionState, pinyinVars,
         previewVars, llmVars
<1>9. ASSUME NEW c \in Chars, FeedPromptComposing(c) PROVE SlotInv'
  BY <1>9, NoneIsNoValue
     DEF FeedPromptComposing, BufferTo, PinyinAction, PromptGrows,
         ClearCompositionState, pinyinVars, previewVars, llmVars
<1>10. ASSUME NEW c \in Chars, FeedPromptPlain(c) PROVE SlotInv'
  BY <1>10, NoneIsNoValue
     DEF FeedPromptPlain, BufferTo, PinyinAction, PromptGrows, StartPhase,
         pinyinVars, previewVars, llmVars
<1>11. ASSUME NEW c \in Chars, FeedStreaming(c) PROVE SlotInv'
  BY <1>11, NoneIsNoValue
     DEF FeedStreaming, ConfirmResult, pinyinVars, previewVars, llmVars
<1>12. ASSUME NEW key \in AiKeys, FeedAiPreview(key) PROVE SlotInv'
  BY <1>12, NoneIsNoValue
     DEF FeedAiPreview, ConfirmResult, RetryLastLlm, StartPhase, EditLastPrompt,
         AiPreviewing, pinyinVars, previewVars, llmVars
<1>13. ASSUME NEW up \in BOOLEAN, FeedArrow(up) PROVE SlotInv'
  BY <1>13, NoneIsNoValue
     DEF FeedArrow, MoveSelection, PinyinAction, pinyinVars, previewVars, llmVars
<1>14. ASSUME FeedBackspace PROVE SlotInv'
  BY <1>14, NoneIsNoValue
     DEF FeedBackspace, NoAction, EndOcrPreview, LeaveTo, BufferTo, PinyinAction, ClearCompositionState,
         FeedAiPreview, RetryLastLlm, EditLastPrompt, AiPreviewing, pinyinVars,
         previewVars, llmVars
<1>15. ASSUME FeedEnter PROVE SlotInv'
  BY <1>15, NoneIsNoValue
     DEF FeedEnter, NoAction, EndOcrPreview, CommitPinyin, PromptGrows, ClearCompositionState, StartPhase,
         ConfirmResult, RetryLastLlm, pinyinVars, previewVars, llmVars
<1>16. ASSUME FeedEscape PROVE SlotInv'
  BY <1>16, NoneIsNoValue
     DEF FeedEscape, ClearCompositionState, pinyinVars, previewVars, llmVars
<1>17. ASSUME NEW text \in {<<>>, <<OcrText>>}, BeginOcrPreview(text) PROVE SlotInv'
  BY <1>17, NoneIsNoValue
     DEF BeginOcrPreview, pinyinVars, previewVars, llmVars
<1>18. ASSUME NEW key \in {"Confirm", "Escape", "Other"}, FeedOcrPreview(key)
       PROVE  SlotInv'
  BY <1>18, NoneIsNoValue
     DEF FeedOcrPreview, pinyinVars, previewVars, llmVars
<1>19. ASSUME ExpireStaleOcrPreview PROVE SlotInv'
  BY <1>19, NoneIsNoValue
     DEF ExpireStaleOcrPreview, EndOcrPreview, pinyinVars, previewVars, llmVars
<1>20. ASSUME NEW key \in {"Rewritten", "Source", "Escape"}, FeedRewritePreview(key)
       PROVE  SlotInv'
  BY <1>20, NoneIsNoValue
     DEF FeedRewritePreview, RewritePreviewing, pinyinVars, previewVars, llmVars
<1>21. ASSUME NEW w \in Nat, NEW s \in Text, RewriteArmed(w, s) PROVE SlotInv'
  BY <1>21, NoneIsNoValue
     DEF RewriteArmed, BeginRewritePreview, pinyinVars, previewVars, llmVars
<1>22. ASSUME OnLlmChunk PROVE SlotInv'
  BY <1>22, NoneIsNoValue
     DEF OnLlmChunk, Ignored, pinyinVars, previewVars, llmVars
<1>23. ASSUME OnLlmDone PROVE SlotInv'
  BY <1>23, NoneIsNoValue
     DEF OnLlmDone, Ignored, pinyinVars, previewVars, llmVars
<1>24. ASSUME OnLlmError PROVE SlotInv'
  BY <1>24, NoneIsNoValue
     DEF OnLlmError, pinyinVars, previewVars, llmVars
<1>25. ASSUME NEW p \in Pinyins, NEW n \in Answers, NEW done \in AnswerDone,
              OnLlmCandidates(p, n, done)
       PROVE  SlotInv'
  BY <1>25, NoneIsNoValue
     DEF OnLlmCandidates, ReplayDeferredIntents, CommitPinyin,
         ClearCompositionState, pinyinVars, previewVars, llmVars
<1> QED
  BY StepCases, <1>1, <1>2, <1>3, <1>4, <1>5, <1>6, <1>7, <1>8, <1>9, <1>10, <1>11,
     <1>12, <1>13, <1>14, <1>15, <1>16, <1>17, <1>18, <1>19, <1>20, <1>21, <1>22,
     <1>23, <1>24, <1>25

(***************************************************************************)
(* The queue of waiting keys.                                              *)
(***************************************************************************)
QueueInv == QueueDiscipline /\ RequestIsCurrent

\* A commit leaves no key waiting.
LEMMA CommitEmptiesQueue ==
    ASSUME NEW next \in {"Idle", "PendingSlash"}, NEW head, NEW keys,
           CommitPinyin(next, head, keys)
    PROVE  QueueInv'
BY DEF CommitPinyin, ClearCompositionState, QueueInv, QueueDiscipline,
       RequestIsCurrent

\* appending c keeps x from standing twice in a row, unless c doubles it
LEMMA NoTwins ==
    ASSUME NEW S, NEW s \in Seq(S), NEW c \in S, NEW x,
           \A i \in 1..(Len(s) - 1) : ~(s[i] = x /\ s[i + 1] = x),
           ~(c = x /\ s # <<>> /\ s[Len(s)] = x)
    PROVE  \A i \in 1..(Len(Append(s, c)) - 1) :
                ~(Append(s, c)[i] = x /\ Append(s, c)[i + 1] = x)
<1> DEFINE q == Append(s, c)
           n == Len(s)
<1>1. /\ Len(q) = n + 1 /\ n \in Nat
      /\ \A j \in 1..n : q[j] = s[j]
      /\ q[n + 1] = c
      /\ n > 0 => s # <<>>
  BY AppendProperties, LenProperties, EmptySeq
<1>2. ASSUME NEW i \in 1..(Len(q) - 1), q[i] = x, q[i + 1] = x PROVE FALSE
  <2> HIDE DEF q, n
  <2>1. i \in Nat /\ i >= 1 /\ i <= n
    BY <1>1
  <2>2. CASE i < n
    <3>1. q[i] = s[i] /\ q[i + 1] = s[i + 1] /\ i \in 1..(n - 1)
      BY <1>1, <2>1, <2>2
    <3> QED  BY <1>2, <3>1 DEF n
  <2>3. CASE i = n
    <3>1. q[i] = s[n] /\ n > 0 /\ q[n + 1] = c
      BY <1>1, <2>1, <2>3
    <3> QED  BY <1>1, <1>2, <2>3, <3>1 DEF n
  <2> QED  BY <1>1, <2>1, <2>2, <2>3
<1> QED  BY <1>2

\* Queueing a key keeps the discipline of the queue, unless it is the second space.
LEMMA DeferKeepsQueue ==
    ASSUME TypeInv, QueueInv, state = "Pinyin", BlindWindow, NEW c \in Chars,
           ~(c = " " /\ SpaceWaits), Defer(c)
    PROVE  QueueInv'
<1> DEFINE queue == Append(deferred_intents, c)
<1>1. CASE Len(queue) > MaxDeferred
  BY <1>1, CommitEmptiesQueue DEF Defer
<1>2. CASE ~(Len(queue) > MaxDeferred)
  <2>1. /\ deferred_intents \in Seq(Chars) /\ MaxDeferred \in Nat
        /\ last_candidates_request = pinyin_buffer
    BY TypeInvParts, MachineAssumption
       DEF CompositionInv, CompositionTypes, QueueInv, RequestIsCurrent
  <2>2. /\ deferred_intents' = queue /\ state' = "Pinyin"
        /\ candidates' = 0 /\ candidates_in_flight'
        /\ UNCHANGED <<pinyin_buffer, last_candidates_request>>
    BY <1>2, <2>1 DEF Defer, PinyinAction, BlindWindow
  <2>3. \A i \in 1..(Len(deferred_intents) - 1) :
            ~(deferred_intents[i] = " " /\ deferred_intents[i + 1] = " ")
    <3>1. CASE deferred_intents = <<>>
      <4>1. Len(deferred_intents) = 0
        BY <3>1, EmptySeq
      <4>2. 1..(Len(deferred_intents) - 1) = {}
        BY ONLY <4>1
      <4> QED  BY <4>2
    <3>2. CASE deferred_intents # <<>>
      BY <3>2 DEF QueueInv, QueueDiscipline
    <3> QED  BY <3>1, <3>2
  <2>4. \A i \in 1..(Len(queue) - 1) : ~(queue[i] = " " /\ queue[i + 1] = " ")
    BY <2>1, <2>3, NoTwins DEF SpaceWaits
  <2>5. Len(queue) <= MaxDeferred
    <3>1. Len(queue) \in Nat
      BY <2>1, AppendProperties, LenProperties
    <3> QED  BY ONLY <1>2, <2>1, <3>1
  <2> HIDE DEF queue
  <2> QED
    BY <2>1, <2>2, <2>4, <2>5
       DEF QueueInv, QueueDiscipline, RequestIsCurrent, BlindWindow
<1> QED  BY <1>1, <1>2

\* a space settles the composition, or waits for candidates not there yet
LEMMA SpaceCases ==
    ASSUME TypeInv, FeedPinyinSpace
    PROVE  \/ \E head, keys : CommitPinyin("Idle", head, keys)
           \/ state = "Pinyin" /\ BlindWindow /\ ~SpaceWaits /\ Defer(" ")
<1> DEFINE row == pinyin_page * PageSize
<1>1. /\ row \in Nat /\ selected_index \in Nat /\ candidates \in Nat
      /\ candidates > 0 => row + selected_index < candidates
  BY TypeInvParts, MachineAssumption
     DEF CompositionInv, CompositionTypes, HighlightInRange
<1>2. HighlightedRank = row + selected_index + 1
  BY DEF HighlightedRank
<1>3. CASE HighlightedRank <= candidates \/ ~candidates_in_flight \/ SpaceWaits
  <2>1. CASE HighlightedRank <= candidates
    <3>1. ~(HighlightedRank > candidates)
      BY <1>1, <1>2, <2>1
    <3> QED  BY <2>1, <3>1 DEF FeedPinyinSpace, SpaceAt
  <2>2. CASE ~candidates_in_flight \/ SpaceWaits
    BY <2>2 DEF FeedPinyinSpace, SpaceAt, SpaceWaits
  <2> QED  BY <1>3, <2>1, <2>2
<1>4. CASE ~(HighlightedRank <= candidates) /\ candidates_in_flight /\ ~SpaceWaits
  <2> HIDE DEF row
  <2>1. candidates = 0
    BY <1>1, <1>2, <1>4
  <2>2. state = "Pinyin" /\ Defer(" ")
    BY <1>4 DEF FeedPinyinSpace, SpaceAt
  <2> QED  BY <1>4, <2>1, <2>2 DEF BlindWindow
<1> QED  BY <1>3, <1>4

\* With final answers only, every action keeps the queue in its blind window.
LEMMA NextKeepsQueue ==
    ASSUME AnswerDone = {TRUE}, TypeInv, QueueInv, Next
    PROVE  QueueInv'
<1>1. ASSUME NEW c \in Chars, FeedIdle(c) PROVE QueueInv'
  BY <1>1, TypeInvParts
     DEF FeedIdle, BufferTo, PinyinAction, pinyinVars, QueueInv, QueueDiscipline,
         RequestIsCurrent, BlindWindow, CompositionInv, CompositionTypes,
         CompositionShape, Composing
<1>2. ASSUME NEW c \in Chars, FeedPendingSlash(c) PROVE QueueInv'
  BY <1>2, TypeInvParts
     DEF FeedPendingSlash, pinyinVars, QueueInv, QueueDiscipline, RequestIsCurrent,
         BlindWindow, CompositionInv, CompositionTypes, CompositionShape, Composing
<1>3. ASSUME FeedPinyinSlash PROVE QueueInv'
  BY <1>3, TypeInvParts
     DEF FeedPinyinSlash, CommitPinyin, ClearCompositionState, pinyinVars, QueueInv,
         QueueDiscipline, RequestIsCurrent, BlindWindow, CompositionInv,
         CompositionTypes, CompositionShape, Composing
<1>4. ASSUME NEW step \in {-1, 1}, Paginate(step) PROVE QueueInv'
  BY <1>4, TypeInvParts
     DEF Paginate, pinyinVars, QueueInv, QueueDiscipline, RequestIsCurrent,
         BlindWindow, CompositionInv, CompositionTypes, CompositionShape, Composing
<1>5. ASSUME FeedPinyinSpace PROVE QueueInv'
  <2>1. " " \in Chars
    BY DEF Chars
  <2> QED
    BY <1>5, <2>1, SpaceCases, CommitEmptiesQueue, DeferKeepsQueue
<1>6. ASSUME NEW c \in Chars, FeedPinyinLetter(c) PROVE QueueInv'
  BY <1>6, TypeInvParts
     DEF FeedPinyinLetter, BufferTo, PinyinAction, pinyinVars, QueueInv,
         QueueDiscipline, RequestIsCurrent, BlindWindow, CompositionInv,
         CompositionTypes, CompositionShape, Composing
<1>7. ASSUME NEW c \in Chars, FeedPinyinSuffix(c) PROVE QueueInv'
  <2>1. ~(c = " " /\ SpaceWaits)
    BY <1>7, KeyAssumption DEF FeedPinyinSuffix
  <2> QED
    BY <1>7, <2>1, CommitEmptiesQueue, DeferKeepsQueue DEF FeedPinyinSuffix
<1>8. ASSUME NEW c \in Chars, FeedPinyinDigit(c) PROVE QueueInv'
  BY <1>8, TypeInvParts
     DEF FeedPinyinDigit, CommitPinyin, ClearCompositionState, pinyinVars, QueueInv,
         QueueDiscipline, RequestIsCurrent, BlindWindow, CompositionInv,
         CompositionTypes, CompositionShape, Composing
<1>9. ASSUME NEW c \in Chars, FeedPromptComposing(c) PROVE QueueInv'
  BY <1>9, TypeInvParts
     DEF FeedPromptComposing, BufferTo, PinyinAction, PromptGrows,
         ClearCompositionState, pinyinVars, QueueInv, QueueDiscipline,
         RequestIsCurrent, BlindWindow, CompositionInv, CompositionTypes,
         CompositionShape, Composing
<1>10. ASSUME NEW c \in Chars, FeedPromptPlain(c) PROVE QueueInv'
  BY <1>10, TypeInvParts
     DEF FeedPromptPlain, BufferTo, PinyinAction, PromptGrows, StartPhase,
         pinyinVars, QueueInv, QueueDiscipline, RequestIsCurrent, BlindWindow,
         CompositionInv, CompositionTypes, CompositionShape, Composing
<1>11. ASSUME NEW c \in Chars, FeedStreaming(c) PROVE QueueInv'
  BY <1>11, TypeInvParts
     DEF FeedStreaming, ConfirmResult, pinyinVars, QueueInv, QueueDiscipline,
         RequestIsCurrent, BlindWindow, CompositionInv, CompositionTypes,
         CompositionShape, Composing
<1>12. ASSUME NEW key \in AiKeys, FeedAiPreview(key) PROVE QueueInv'
  BY <1>12, TypeInvParts
     DEF FeedAiPreview, ConfirmResult, RetryLastLlm, StartPhase, EditLastPrompt,
         AiPreviewing, pinyinVars, QueueInv, QueueDiscipline, RequestIsCurrent,
         BlindWindow, CompositionInv, CompositionTypes, CompositionShape, Composing
<1>13. ASSUME NEW up \in BOOLEAN, FeedArrow(up) PROVE QueueInv'
  BY <1>13, TypeInvParts
     DEF FeedArrow, MoveSelection, PinyinAction, pinyinVars, QueueInv,
         QueueDiscipline, RequestIsCurrent, BlindWindow, CompositionInv,
         CompositionTypes, CompositionShape, Composing
<1>14. ASSUME FeedBackspace PROVE QueueInv'
  BY <1>14, TypeInvParts
     DEF FeedBackspace, NoAction, EndOcrPreview, LeaveTo, BufferTo, PinyinAction, ClearCompositionState,
         FeedAiPreview, RetryLastLlm, EditLastPrompt, AiPreviewing, pinyinVars,
         QueueInv, QueueDiscipline, RequestIsCurrent, BlindWindow, CompositionInv,
         CompositionTypes, CompositionShape, Composing
<1>15. ASSUME FeedEnter PROVE QueueInv'
  BY <1>15, TypeInvParts
     DEF FeedEnter, NoAction, EndOcrPreview, CommitPinyin, PromptGrows, ClearCompositionState, StartPhase,
         ConfirmResult, RetryLastLlm, pinyinVars, QueueInv, QueueDiscipline,
         RequestIsCurrent, BlindWindow, CompositionInv, CompositionTypes,
         CompositionShape, Composing
<1>16. ASSUME FeedEscape PROVE QueueInv'
  BY <1>16, TypeInvParts
     DEF FeedEscape, ClearCompositionState, pinyinVars, QueueInv, QueueDiscipline,
         RequestIsCurrent, BlindWindow, CompositionInv, CompositionTypes,
         CompositionShape, Composing
<1>17. ASSUME NEW text \in {<<>>, <<OcrText>>}, BeginOcrPreview(text) PROVE QueueInv'
  BY <1>17, TypeInvParts
     DEF BeginOcrPreview, pinyinVars, QueueInv, QueueDiscipline, RequestIsCurrent,
         BlindWindow, CompositionInv, CompositionTypes, CompositionShape, Composing
<1>18. ASSUME NEW key \in {"Confirm", "Escape", "Other"}, FeedOcrPreview(key)
       PROVE  QueueInv'
  BY <1>18, TypeInvParts
     DEF FeedOcrPreview, pinyinVars, QueueInv, QueueDiscipline, RequestIsCurrent,
         BlindWindow, CompositionInv, CompositionTypes, CompositionShape, Composing
<1>19. ASSUME ExpireStaleOcrPreview PROVE QueueInv'
  BY <1>19, TypeInvParts
     DEF ExpireStaleOcrPreview, EndOcrPreview, pinyinVars, QueueInv, QueueDiscipline,
         RequestIsCurrent, BlindWindow, CompositionInv, CompositionTypes,
         CompositionShape, Composing
<1>20. ASSUME NEW key \in {"Rewritten", "Source", "Escape"}, FeedRewritePreview(key)
       PROVE  QueueInv'
  BY <1>20, TypeInvParts
     DEF FeedRewritePreview, RewritePreviewing, pinyinVars, QueueInv,
         QueueDiscipline, RequestIsCurrent, BlindWindow, CompositionInv,
         CompositionTypes, CompositionShape, Composing
<1>21. ASSUME NEW w \in Nat, NEW s \in Text, RewriteArmed(w, s) PROVE QueueInv'
  BY <1>21, TypeInvParts
     DEF RewriteArmed, BeginRewritePreview, pinyinVars, QueueInv, QueueDiscipline,
         RequestIsCurrent, BlindWindow, CompositionInv, CompositionTypes,
         CompositionShape, Composing
<1>22. ASSUME OnLlmChunk PROVE QueueInv'
  BY <1>22, TypeInvParts
     DEF OnLlmChunk, Ignored, pinyinVars, QueueInv, QueueDiscipline,
         RequestIsCurrent, BlindWindow, CompositionInv, CompositionTypes,
         CompositionShape, Composing
<1>23. ASSUME OnLlmDone PROVE QueueInv'
  BY <1>23, TypeInvParts
     DEF OnLlmDone, Ignored, pinyinVars, QueueInv, QueueDiscipline,
         RequestIsCurrent, BlindWindow, CompositionInv, CompositionTypes,
         CompositionShape, Composing
<1>24. ASSUME OnLlmError PROVE QueueInv'
  BY <1>24, TypeInvParts
     DEF OnLlmError, pinyinVars, QueueInv, QueueDiscipline, RequestIsCurrent,
         BlindWindow, CompositionInv, CompositionTypes, CompositionShape, Composing
<1>25. ASSUME NEW p \in Pinyins, NEW n \in Answers, NEW done \in AnswerDone,
              OnLlmCandidates(p, n, done)
       PROVE  QueueInv'
  BY <1>25, TypeInvParts
     DEF OnLlmCandidates, ReplayDeferredIntents, CommitPinyin,
         ClearCompositionState, pinyinVars, QueueInv, QueueDiscipline,
         RequestIsCurrent, BlindWindow, CompositionInv, CompositionTypes,
         CompositionShape, Composing
<1> QED
  BY StepCases, <1>1, <1>2, <1>3, <1>4, <1>5, <1>6, <1>7, <1>8, <1>9, <1>10, <1>11,
     <1>12, <1>13, <1>14, <1>15, <1>16, <1>17, <1>18, <1>19, <1>20, <1>21, <1>22,
     <1>23, <1>24, <1>25

-----------------------------------------------------------------------------
(***************************************************************************)
(* Rewrites.  The RewriteReady that arms a comparison is fresh: no step    *)
(* lies between it and the end of the stream it announces.                 *)
(***************************************************************************)
RewriteAnnounced == out # <<>> /\ out[1].act = "RewriteReady"

\* Only one of the machine's actions is a RewriteReady.
LEMMA PlainNotices ==
    /\ Quiet => ~RewriteAnnounced'
    /\ \A name : name # "RewriteReady" /\ Tell(name) => ~RewriteAnnounced'
    /\ \A text : Commit(text) => ~RewriteAnnounced'
    /\ \A n, page, sel, raw : Emit(UpdatePinyin(n, page, sel, raw)) => ~RewriteAnnounced'
    /\ \A name, text : name # "RewriteReady" /\ Emit([act |-> name, text |-> text])
            => ~RewriteAnnounced'
BY DEF Quiet, Tell, Commit, Emit, UpdatePinyin, RewriteAnnounced

\* Only the end of a stream announces a rewrite; any other step withdraws it.
LEMMA OnlyDoneAnnounces ==
    ASSUME TypeInv, Next, ~(OnLlmDone /\ state = "Streaming")
    PROVE  ~RewriteAnnounced'
<1>1. ASSUME NEW c \in Chars, FeedIdle(c) PROVE ~RewriteAnnounced'
  BY <1>1, PlainNotices
     DEF FeedIdle, BufferTo, PinyinAction
<1>2. ASSUME NEW c \in Chars, FeedPendingSlash(c) PROVE ~RewriteAnnounced'
  BY <1>2, PlainNotices
     DEF FeedPendingSlash
<1>3. ASSUME FeedPinyinSlash PROVE ~RewriteAnnounced'
  BY <1>3, PlainNotices
     DEF FeedPinyinSlash, CommitPinyin, ClearCompositionState
<1>4. ASSUME NEW step \in {-1, 1}, Paginate(step) PROVE ~RewriteAnnounced'
  BY <1>4, PlainNotices
     DEF Paginate
<1>5. ASSUME FeedPinyinSpace PROVE ~RewriteAnnounced'
  BY <1>5, PlainNotices
     DEF FeedPinyinSpace, SpaceAt, Defer, CommitPinyin, ClearCompositionState
<1>6. ASSUME NEW c \in Chars, FeedPinyinLetter(c) PROVE ~RewriteAnnounced'
  BY <1>6, PlainNotices
     DEF FeedPinyinLetter, BufferTo, PinyinAction
<1>7. ASSUME NEW c \in Chars, FeedPinyinSuffix(c) PROVE ~RewriteAnnounced'
  BY <1>7, PlainNotices
     DEF FeedPinyinSuffix, Defer, CommitPinyin, ClearCompositionState, PinyinAction
<1>8. ASSUME NEW c \in Chars, FeedPinyinDigit(c) PROVE ~RewriteAnnounced'
  BY <1>8, PlainNotices
     DEF FeedPinyinDigit, CommitPinyin, ClearCompositionState
<1>9. ASSUME NEW c \in Chars, FeedPromptComposing(c) PROVE ~RewriteAnnounced'
  BY <1>9, PlainNotices
     DEF FeedPromptComposing, BufferTo, PinyinAction, PromptGrows,
         ClearCompositionState
<1>10. ASSUME NEW c \in Chars, FeedPromptPlain(c) PROVE ~RewriteAnnounced'
  BY <1>10, PlainNotices
     DEF FeedPromptPlain, BufferTo, PinyinAction, PromptGrows, StartPhase
<1>11. ASSUME NEW c \in Chars, FeedStreaming(c) PROVE ~RewriteAnnounced'
  BY <1>11, PlainNotices
     DEF FeedStreaming, ConfirmResult
<1>12. ASSUME NEW key \in AiKeys, FeedAiPreview(key) PROVE ~RewriteAnnounced'
  BY <1>12, PlainNotices
     DEF FeedAiPreview, ConfirmResult, RetryLastLlm, StartPhase, EditLastPrompt,
         AiPreviewing
<1>13. ASSUME NEW up \in BOOLEAN, FeedArrow(up) PROVE ~RewriteAnnounced'
  BY <1>13, PlainNotices
     DEF FeedArrow, MoveSelection, PinyinAction
<1>14. ASSUME FeedBackspace PROVE ~RewriteAnnounced'
  BY <1>14, PlainNotices
     DEF FeedBackspace, NoAction, EndOcrPreview, LeaveTo, BufferTo, PinyinAction, ClearCompositionState,
         FeedAiPreview, RetryLastLlm, EditLastPrompt, AiPreviewing
<1>15. ASSUME FeedEnter PROVE ~RewriteAnnounced'
  BY <1>15, PlainNotices
     DEF FeedEnter, NoAction, EndOcrPreview, CommitPinyin, PromptGrows, ClearCompositionState, StartPhase,
         ConfirmResult, RetryLastLlm
<1>16. ASSUME FeedEscape PROVE ~RewriteAnnounced'
  BY <1>16, PlainNotices
     DEF FeedEscape, ClearCompositionState
<1>17. ASSUME NEW text \in {<<>>, <<OcrText>>}, BeginOcrPreview(text)
       PROVE  ~RewriteAnnounced'
  BY <1>17, PlainNotices
     DEF BeginOcrPreview
<1>18. ASSUME NEW key \in {"Confirm", "Escape", "Other"}, FeedOcrPreview(key)
       PROVE  ~RewriteAnnounced'
  BY <1>18, PlainNotices
     DEF FeedOcrPreview
<1>19. ASSUME ExpireStaleOcrPreview PROVE ~RewriteAnnounced'
  BY <1>19, PlainNotices
     DEF ExpireStaleOcrPreview, EndOcrPreview
<1>20. ASSUME NEW key \in {"Rewritten", "Source", "Escape"}, FeedRewritePreview(key)
       PROVE  ~RewriteAnnounced'
  BY <1>20, PlainNotices
     DEF FeedRewritePreview, RewritePreviewing
<1>21. ASSUME NEW w \in Nat, NEW s \in Text, RewriteArmed(w, s) PROVE ~RewriteAnnounced'
  BY <1>21, PlainNotices
     DEF RewriteArmed, BeginRewritePreview
<1>22. ASSUME OnLlmChunk PROVE ~RewriteAnnounced'
  BY <1>22, PlainNotices
     DEF OnLlmChunk, Ignored
<1>23. ASSUME OnLlmDone PROVE ~RewriteAnnounced'
  BY <1>23, PlainNotices
     DEF OnLlmDone, Ignored
<1>24. ASSUME OnLlmError PROVE ~RewriteAnnounced'
  BY <1>24, PlainNotices
     DEF OnLlmError
<1>25. ASSUME NEW p \in Pinyins, NEW n \in Answers, NEW done \in AnswerDone,
              OnLlmCandidates(p, n, done)
       PROVE  ~RewriteAnnounced'
  BY <1>25, PlainNotices
     DEF OnLlmCandidates, ReplayDeferredIntents, CommitPinyin, ClearCompositionState
<1> QED
  BY StepCases, <1>1, <1>2, <1>3, <1>4, <1>5, <1>6, <1>7, <1>8, <1>9, <1>10, <1>11,
     <1>12, <1>13, <1>14, <1>15, <1>16, <1>17, <1>18, <1>19, <1>20, <1>21, <1>22,
     <1>23, <1>24, <1>25

NoticeFresh ==
    RewriteAnnounced =>
        /\ state = "ResultReady"
        /\ out[1].rewritten = result
        /\ out[1].source = last_request.rewrite_source
PairingInv == RewritePairing /\ NoticeFresh

\* Every action keeps result, source and request together.
LEMMA RewritePairingStep ==
    ASSUME TypeInv, SlotInv, PairingInv, Next
    PROVE  RewritePairing'
<1>1. ASSUME NEW c \in Chars, FeedIdle(c) PROVE RewritePairing'
  BY <1>1, NoneIsNoValue, TypeInvParts
     DEF FeedIdle, BufferTo, PinyinAction, LlmTypes, PairingInv, RewritePairing,
         SlotInv, PreviewSlotsMatchState, OverlayPhaseMatchesState, StreamEvent,
         llmVars, previewVars, pinyinVars
<1>2. ASSUME NEW c \in Chars, FeedPendingSlash(c) PROVE RewritePairing'
  BY <1>2, NoneIsNoValue, TypeInvParts
     DEF FeedPendingSlash, LlmTypes, PairingInv, RewritePairing, SlotInv,
         PreviewSlotsMatchState, OverlayPhaseMatchesState, StreamEvent, llmVars,
         previewVars, pinyinVars
<1>3. ASSUME FeedPinyinSlash PROVE RewritePairing'
  BY <1>3, NoneIsNoValue, TypeInvParts
     DEF FeedPinyinSlash, CommitPinyin, ClearCompositionState, LlmTypes, PairingInv,
         RewritePairing, SlotInv, PreviewSlotsMatchState, OverlayPhaseMatchesState,
         StreamEvent, llmVars, previewVars, pinyinVars
<1>4. ASSUME NEW step \in {-1, 1}, Paginate(step) PROVE RewritePairing'
  BY <1>4, NoneIsNoValue, TypeInvParts
     DEF Paginate, LlmTypes, PairingInv, RewritePairing, SlotInv,
         PreviewSlotsMatchState, OverlayPhaseMatchesState, StreamEvent, llmVars,
         previewVars, pinyinVars
<1>5. ASSUME FeedPinyinSpace PROVE RewritePairing'
  BY <1>5, NoneIsNoValue, TypeInvParts
     DEF FeedPinyinSpace, SpaceAt, Defer, CommitPinyin, ClearCompositionState,
         LlmTypes, PairingInv, RewritePairing, SlotInv, PreviewSlotsMatchState,
         OverlayPhaseMatchesState, StreamEvent, llmVars, previewVars, pinyinVars
<1>6. ASSUME NEW c \in Chars, FeedPinyinLetter(c) PROVE RewritePairing'
  BY <1>6, NoneIsNoValue, TypeInvParts
     DEF FeedPinyinLetter, BufferTo, PinyinAction, LlmTypes, PairingInv,
         RewritePairing, SlotInv, PreviewSlotsMatchState, OverlayPhaseMatchesState,
         StreamEvent, llmVars, previewVars, pinyinVars
<1>7. ASSUME NEW c \in Chars, FeedPinyinSuffix(c) PROVE RewritePairing'
  BY <1>7, NoneIsNoValue, TypeInvParts
     DEF FeedPinyinSuffix, Defer, CommitPinyin, ClearCompositionState, PinyinAction,
         LlmTypes, PairingInv, RewritePairing, SlotInv, PreviewSlotsMatchState,
         OverlayPhaseMatchesState, StreamEvent, llmVars, previewVars, pinyinVars
<1>8. ASSUME NEW c \in Chars, FeedPinyinDigit(c) PROVE RewritePairing'
  BY <1>8, NoneIsNoValue, TypeInvParts
     DEF FeedPinyinDigit, CommitPinyin, ClearCompositionState, LlmTypes, PairingInv,
         RewritePairing, SlotInv, PreviewSlotsMatchState, OverlayPhaseMatchesState,
         StreamEvent, llmVars, previewVars, pinyinVars
<1>9. ASSUME NEW c \in Chars, FeedPromptComposing(c) PROVE RewritePairing'
  BY <1>9, NoneIsNoValue, TypeInvParts
     DEF FeedPromptComposing, BufferTo, PinyinAction, PromptGrows,
         ClearCompositionState, LlmTypes, PairingInv, RewritePairing, SlotInv,
         PreviewSlotsMatchState, OverlayPhaseMatchesState, StreamEvent, llmVars,
         previewVars, pinyinVars
<1>10. ASSUME NEW c \in Chars, FeedPromptPlain(c) PROVE RewritePairing'
  BY <1>10, NoneIsNoValue, TypeInvParts
     DEF FeedPromptPlain, BufferTo, PinyinAction, PromptGrows, StartPhase, LlmTypes,
         PairingInv, RewritePairing, SlotInv, PreviewSlotsMatchState,
         OverlayPhaseMatchesState, StreamEvent, llmVars, previewVars, pinyinVars
<1>11. ASSUME NEW c \in Chars, FeedStreaming(c) PROVE RewritePairing'
  BY <1>11, NoneIsNoValue, TypeInvParts
     DEF FeedStreaming, ConfirmResult, LlmTypes, PairingInv, RewritePairing,
         SlotInv, PreviewSlotsMatchState, OverlayPhaseMatchesState, StreamEvent,
         llmVars, previewVars, pinyinVars
<1>12. ASSUME NEW key \in AiKeys, FeedAiPreview(key) PROVE RewritePairing'
  BY <1>12, NoneIsNoValue, TypeInvParts
     DEF FeedAiPreview, ConfirmResult, RetryLastLlm, StartPhase, EditLastPrompt,
         AiPreviewing, LlmTypes, PairingInv, RewritePairing, SlotInv,
         PreviewSlotsMatchState, OverlayPhaseMatchesState, StreamEvent, llmVars,
         previewVars, pinyinVars
<1>13. ASSUME NEW up \in BOOLEAN, FeedArrow(up) PROVE RewritePairing'
  BY <1>13, NoneIsNoValue, TypeInvParts
     DEF FeedArrow, MoveSelection, PinyinAction, LlmTypes, PairingInv,
         RewritePairing, SlotInv, PreviewSlotsMatchState, OverlayPhaseMatchesState,
         StreamEvent, llmVars, previewVars, pinyinVars
<1>14. ASSUME FeedBackspace PROVE RewritePairing'
  BY <1>14, NoneIsNoValue, TypeInvParts
     DEF FeedBackspace, NoAction, EndOcrPreview, LeaveTo, BufferTo, PinyinAction, ClearCompositionState,
         FeedAiPreview, RetryLastLlm, EditLastPrompt, AiPreviewing, LlmTypes,
         PairingInv, RewritePairing, SlotInv, PreviewSlotsMatchState,
         OverlayPhaseMatchesState, StreamEvent, llmVars, previewVars, pinyinVars
<1>15. ASSUME FeedEnter PROVE RewritePairing'
  BY <1>15, NoneIsNoValue, TypeInvParts
     DEF FeedEnter, NoAction, EndOcrPreview, CommitPinyin, PromptGrows, ClearCompositionState, StartPhase,
         ConfirmResult, RetryLastLlm, LlmTypes, PairingInv, RewritePairing, SlotInv,
         PreviewSlotsMatchState, OverlayPhaseMatchesState, StreamEvent, llmVars,
         previewVars, pinyinVars
<1>16. ASSUME FeedEscape PROVE RewritePairing'
  BY <1>16, NoneIsNoValue, TypeInvParts
     DEF FeedEscape, ClearCompositionState, LlmTypes, PairingInv, RewritePairing,
         SlotInv, PreviewSlotsMatchState, OverlayPhaseMatchesState, StreamEvent,
         llmVars, previewVars, pinyinVars
<1>17. ASSUME NEW text \in {<<>>, <<OcrText>>}, BeginOcrPreview(text)
       PROVE  RewritePairing'
  BY <1>17, NoneIsNoValue, TypeInvParts
     DEF BeginOcrPreview, LlmTypes, PairingInv, RewritePairing, SlotInv,
         PreviewSlotsMatchState, OverlayPhaseMatchesState, StreamEvent, llmVars,
         previewVars, pinyinVars
<1>18. ASSUME NEW key \in {"Confirm", "Escape", "Other"}, FeedOcrPreview(key)
       PROVE  RewritePairing'
  BY <1>18, NoneIsNoValue, TypeInvParts
     DEF FeedOcrPreview, LlmTypes, PairingInv, RewritePairing, SlotInv,
         PreviewSlotsMatchState, OverlayPhaseMatchesState, StreamEvent, llmVars,
         previewVars, pinyinVars
<1>19. ASSUME ExpireStaleOcrPreview PROVE RewritePairing'
  BY <1>19, NoneIsNoValue, TypeInvParts
     DEF ExpireStaleOcrPreview, EndOcrPreview, LlmTypes, PairingInv, RewritePairing, SlotInv,
         PreviewSlotsMatchState, OverlayPhaseMatchesState, StreamEvent, llmVars,
         previewVars, pinyinVars
<1>20. ASSUME NEW key \in {"Rewritten", "Source", "Escape"}, FeedRewritePreview(key)
       PROVE  RewritePairing'
  BY <1>20, NoneIsNoValue, TypeInvParts
     DEF FeedRewritePreview, RewritePreviewing, LlmTypes, PairingInv,
         RewritePairing, SlotInv, PreviewSlotsMatchState, OverlayPhaseMatchesState,
         StreamEvent, llmVars, previewVars, pinyinVars
<1>21. ASSUME NEW w \in Nat, NEW s \in Text, RewriteArmed(w, s) PROVE RewritePairing'
  BY <1>21 DEF RewriteArmed, BeginRewritePreview, PairingInv, RewritePairing,
     NoticeFresh, RewriteAnnounced, llmVars
<1>22. ASSUME OnLlmChunk PROVE RewritePairing'
  BY <1>22, NoneIsNoValue, TypeInvParts
     DEF OnLlmChunk, Ignored, LlmTypes, PairingInv, RewritePairing, SlotInv,
         PreviewSlotsMatchState, OverlayPhaseMatchesState, StreamEvent, llmVars,
         previewVars, pinyinVars
<1>23. ASSUME OnLlmDone PROVE RewritePairing'
  BY <1>23, NoneIsNoValue, TypeInvParts
     DEF OnLlmDone, Ignored, LlmTypes, PairingInv, RewritePairing, SlotInv,
         PreviewSlotsMatchState, OverlayPhaseMatchesState, StreamEvent, llmVars,
         previewVars, pinyinVars
<1>24. ASSUME OnLlmError PROVE RewritePairing'
  BY <1>24, NoneIsNoValue, TypeInvParts
     DEF OnLlmError, LlmTypes, PairingInv, RewritePairing, SlotInv,
         PreviewSlotsMatchState, OverlayPhaseMatchesState, StreamEvent, llmVars,
         previewVars, pinyinVars
<1>25. ASSUME NEW p \in Pinyins, NEW n \in Answers, NEW done \in AnswerDone,
              OnLlmCandidates(p, n, done)
       PROVE  RewritePairing'
  BY <1>25, NoneIsNoValue, TypeInvParts
     DEF OnLlmCandidates, ReplayDeferredIntents, CommitPinyin,
         ClearCompositionState, LlmTypes, PairingInv, RewritePairing, SlotInv,
         PreviewSlotsMatchState, OverlayPhaseMatchesState, StreamEvent, llmVars,
         previewVars, pinyinVars
<1> QED
  BY StepCases, <1>1, <1>2, <1>3, <1>4, <1>5, <1>6, <1>7, <1>8, <1>9, <1>10, <1>11,
     <1>12, <1>13, <1>14, <1>15, <1>16, <1>17, <1>18, <1>19, <1>20, <1>21, <1>22,
     <1>23, <1>24, <1>25

-----------------------------------------------------------------------------
(***************************************************************************)
(* The candidate panel.                                                    *)
(***************************************************************************)
PanelInv ==
    candidates > 0 =>
        /\ shown = [count |-> candidates, page |-> pinyin_page,
                    selected |-> selected_index]
        /\ ~candidates_in_flight

\* A redraw is what the panel shows, and nothing else changes the panel.
LEMMA PanelShows ==
    /\ Quiet => UNCHANGED shown
    /\ \A n, page, sel, raw : Emit(UpdatePinyin(n, page, sel, raw)) =>
            shown' = [count |-> n, page |-> page, selected |-> sel]
BY DEF Quiet, Emit, UpdatePinyin

\* A commit leaves no candidate to show.
LEMMA CommitEmptiesPanel ==
    ASSUME NEW next, NEW head, NEW keys, CommitPinyin(next, head, keys)
    PROVE  PanelInv'
BY DEF CommitPinyin, ClearCompositionState, PanelInv

\* A waiting key finds no candidate and leaves none.
LEMMA DeferKeepsPanel ==
    ASSUME BlindWindow, NEW c, Defer(c)
    PROVE  PanelInv'
<1>1. CASE UNCHANGED candidates
  BY <1>1 DEF BlindWindow, PanelInv
<1> QED  BY <1>1, CommitEmptiesPanel DEF Defer

\* With one final answer to a request, every action keeps panel and machine equal.
LEMMA NextKeepsPanel ==
    ASSUME AnswerDone = {TRUE}, ~DuplicateAnswers, TypeInv, QueueInv, PanelInv, Next
    PROVE  PanelInv'
<1>1. ASSUME NEW c \in Chars, FeedIdle(c) PROVE PanelInv'
  BY <1>1, PanelShows, TypeInvParts
     DEF FeedIdle, BufferTo, PinyinAction, PanelInv, CompositionInv,
         CompositionTypes, CompositionShape, Composing, HighlightInRange,
         pinyinVars, QueueInv, RequestIsCurrent
<1>2. ASSUME NEW c \in Chars, FeedPendingSlash(c) PROVE PanelInv'
  BY <1>2, PanelShows, TypeInvParts
     DEF FeedPendingSlash, PanelInv, CompositionInv, CompositionTypes,
         CompositionShape, Composing, HighlightInRange, pinyinVars, QueueInv,
         RequestIsCurrent
<1>3. ASSUME FeedPinyinSlash PROVE PanelInv'
  BY <1>3, PanelShows, TypeInvParts
     DEF FeedPinyinSlash, CommitPinyin, ClearCompositionState, PanelInv,
         CompositionInv, CompositionTypes, CompositionShape, Composing,
         HighlightInRange, pinyinVars, QueueInv, RequestIsCurrent
<1>4. ASSUME NEW step \in {-1, 1}, Paginate(step) PROVE PanelInv'
  BY <1>4, PanelShows, TypeInvParts
     DEF Paginate, PanelInv, CompositionInv, CompositionTypes, CompositionShape,
         Composing, HighlightInRange, pinyinVars, QueueInv, RequestIsCurrent
<1>5. ASSUME FeedPinyinSpace PROVE PanelInv'
  BY <1>5, SpaceCases, CommitEmptiesPanel, DeferKeepsPanel
<1>6. ASSUME NEW c \in Chars, FeedPinyinLetter(c) PROVE PanelInv'
  BY <1>6, PanelShows, TypeInvParts
     DEF FeedPinyinLetter, BufferTo, PinyinAction, PanelInv, CompositionInv,
         CompositionTypes, CompositionShape, Composing, HighlightInRange,
         pinyinVars, QueueInv, RequestIsCurrent
<1>7. ASSUME NEW c \in Chars, FeedPinyinSuffix(c) PROVE PanelInv'
  BY <1>7, CommitEmptiesPanel, DeferKeepsPanel DEF FeedPinyinSuffix
<1>8. ASSUME NEW c \in Chars, FeedPinyinDigit(c) PROVE PanelInv'
  BY <1>8, PanelShows, TypeInvParts
     DEF FeedPinyinDigit, CommitPinyin, ClearCompositionState, PanelInv,
         CompositionInv, CompositionTypes, CompositionShape, Composing,
         HighlightInRange, pinyinVars, QueueInv, RequestIsCurrent
<1>9. ASSUME NEW c \in Chars, FeedPromptComposing(c) PROVE PanelInv'
  <2>1. CASE Quiet /\ UNCHANGED <<state, pinyinVars, previewVars, llmVars, quote_open>>
    BY <2>1, PanelShows DEF PanelInv, pinyinVars
  <2>2. CASE candidates' = 0
    BY <2>2 DEF PanelInv
  <2> QED
    BY <1>9, <2>1, <2>2, KeyAssumption DEF FeedPromptComposing, BufferTo,
       ClearCompositionState
<1>10. ASSUME NEW c \in Chars, FeedPromptPlain(c) PROVE PanelInv'
  BY <1>10, PanelShows, TypeInvParts
     DEF FeedPromptPlain, BufferTo, PinyinAction, PromptGrows, StartPhase, PanelInv,
         CompositionInv, CompositionTypes, CompositionShape, Composing,
         HighlightInRange, pinyinVars, QueueInv, RequestIsCurrent
<1>11. ASSUME NEW c \in Chars, FeedStreaming(c) PROVE PanelInv'
  <2>1. candidates = 0 /\ UNCHANGED candidates
    BY <1>11, TypeInvParts
       DEF FeedStreaming, ConfirmResult, CompositionInv, CompositionShape, pinyinVars
  <2> QED  BY <2>1 DEF PanelInv
<1>12. ASSUME NEW key \in AiKeys, FeedAiPreview(key) PROVE PanelInv'
  BY <1>12, PanelShows, TypeInvParts
     DEF FeedAiPreview, ConfirmResult, RetryLastLlm, StartPhase, EditLastPrompt,
         AiPreviewing, PanelInv, CompositionInv, CompositionTypes, CompositionShape,
         Composing, HighlightInRange, pinyinVars, QueueInv, RequestIsCurrent
<1>13. ASSUME NEW up \in BOOLEAN, FeedArrow(up) PROVE PanelInv'
  BY <1>13, PanelShows, TypeInvParts
     DEF FeedArrow, MoveSelection, PinyinAction, PanelInv, CompositionInv,
         CompositionTypes, CompositionShape, Composing, HighlightInRange,
         pinyinVars, QueueInv, RequestIsCurrent
<1>14. ASSUME FeedBackspace PROVE PanelInv'
  BY <1>14, PanelShows, TypeInvParts
     DEF FeedBackspace, NoAction, EndOcrPreview, LeaveTo, BufferTo, PinyinAction, ClearCompositionState,
         FeedAiPreview, RetryLastLlm, EditLastPrompt, AiPreviewing, PanelInv,
         CompositionInv, CompositionTypes, CompositionShape, Composing,
         HighlightInRange, pinyinVars, QueueInv, RequestIsCurrent
<1>15. ASSUME FeedEnter PROVE PanelInv'
  BY <1>15, PanelShows, TypeInvParts
     DEF FeedEnter, NoAction, EndOcrPreview, CommitPinyin, PromptGrows, ClearCompositionState, StartPhase,
         ConfirmResult, RetryLastLlm, PanelInv, CompositionInv, CompositionTypes,
         CompositionShape, Composing, HighlightInRange, pinyinVars, QueueInv,
         RequestIsCurrent
<1>16. ASSUME FeedEscape PROVE PanelInv'
  BY <1>16, PanelShows, TypeInvParts
     DEF FeedEscape, ClearCompositionState, PanelInv, CompositionInv,
         CompositionTypes, CompositionShape, Composing, HighlightInRange,
         pinyinVars, QueueInv, RequestIsCurrent
<1>17. ASSUME NEW text \in {<<>>, <<OcrText>>}, BeginOcrPreview(text) PROVE PanelInv'
  BY <1>17, PanelShows, TypeInvParts
     DEF BeginOcrPreview, PanelInv, CompositionInv, CompositionTypes,
         CompositionShape, Composing, HighlightInRange, pinyinVars, QueueInv,
         RequestIsCurrent
<1>18. ASSUME NEW key \in {"Confirm", "Escape", "Other"}, FeedOcrPreview(key)
       PROVE  PanelInv'
  BY <1>18, PanelShows, TypeInvParts
     DEF FeedOcrPreview, PanelInv, CompositionInv, CompositionTypes,
         CompositionShape, Composing, HighlightInRange, pinyinVars, QueueInv,
         RequestIsCurrent
<1>19. ASSUME ExpireStaleOcrPreview PROVE PanelInv'
  BY <1>19, PanelShows, TypeInvParts
     DEF ExpireStaleOcrPreview, EndOcrPreview, PanelInv, CompositionInv, CompositionTypes,
         CompositionShape, Composing, HighlightInRange, pinyinVars, QueueInv,
         RequestIsCurrent
<1>20. ASSUME NEW key \in {"Rewritten", "Source", "Escape"}, FeedRewritePreview(key)
       PROVE  PanelInv'
  BY <1>20, PanelShows, TypeInvParts
     DEF FeedRewritePreview, RewritePreviewing, PanelInv, CompositionInv,
         CompositionTypes, CompositionShape, Composing, HighlightInRange,
         pinyinVars, QueueInv, RequestIsCurrent
<1>21. ASSUME NEW w \in Nat, NEW s \in Text, RewriteArmed(w, s) PROVE PanelInv'
  BY <1>21, PanelShows, TypeInvParts
     DEF RewriteArmed, BeginRewritePreview, PanelInv, CompositionInv,
         CompositionTypes, CompositionShape, Composing, HighlightInRange,
         pinyinVars, QueueInv, RequestIsCurrent
<1>22. ASSUME OnLlmChunk PROVE PanelInv'
  BY <1>22, PanelShows, TypeInvParts
     DEF OnLlmChunk, Ignored, PanelInv, CompositionInv, CompositionTypes,
         CompositionShape, Composing, HighlightInRange, pinyinVars, QueueInv,
         RequestIsCurrent
<1>23. ASSUME OnLlmDone PROVE PanelInv'
  BY <1>23, PanelShows, TypeInvParts
     DEF OnLlmDone, Ignored, PanelInv, CompositionInv, CompositionTypes,
         CompositionShape, Composing, HighlightInRange, pinyinVars, QueueInv,
         RequestIsCurrent
<1>24. ASSUME OnLlmError PROVE PanelInv'
  BY <1>24, PanelShows, TypeInvParts
     DEF OnLlmError, PanelInv, CompositionInv, CompositionTypes, CompositionShape,
         Composing, HighlightInRange, pinyinVars, QueueInv, RequestIsCurrent
<1>25. ASSUME candidates_in_flight, NEW p \in Pinyins, NEW n \in Answers, NEW done
              \in AnswerDone, OnLlmCandidates(p, n, done)
       PROVE  PanelInv'
  <2>1. /\ n \in Nat /\ candidates = 0 /\ pinyin_page = 0 /\ done = TRUE
    BY <1>25, TypeInvParts, MachineAssumption
       DEF PanelInv, CompositionInv, CompositionTypes, HighlightInRange
  <2>2. CASE p # pinyin_buffer
    BY <1>25, <2>1, <2>2 DEF OnLlmCandidates, PanelInv, pinyinVars
  <2>3. CASE p = pinyin_buffer /\ deferred_intents # <<>>
    BY <1>25, <2>1, <2>3, CommitEmptiesPanel
       DEF OnLlmCandidates, ReplayDeferredIntents, PanelInv
  <2>4. CASE p = pinyin_buffer /\ deferred_intents = <<>>
    <3>1. /\ candidates' = (IF n > candidates THEN n ELSE candidates)
          /\ candidates_in_flight' = (candidates_in_flight /\ ~done)
          /\ selected_index' = 0 /\ UNCHANGED pinyin_page
      BY <1>25, <2>1, <2>4 DEF OnLlmCandidates
    <3>2. candidates' = n /\ pinyin_page' = 0
      BY <2>1, <3>1
    <3>5. ~candidates_in_flight'
      BY ONLY <2>1, <3>1
    <3>3. n > candidates =>
            \E raw : Emit(UpdatePinyin(n, pinyin_page, selected_index', raw))
      BY <1>25, <2>1, <2>4 DEF OnLlmCandidates
    <3>4. n > 0 => shown' = [count |-> n, page |-> 0, selected |-> 0]
      BY <2>1, <3>1, <3>3, PanelShows
    <3> QED  BY <3>1, <3>2, <3>4, <3>5 DEF PanelInv
  <2> QED  BY <2>2, <2>3, <2>4
<1> QED
  BY StepCases, <1>1, <1>2, <1>3, <1>4, <1>5, <1>6, <1>7, <1>8, <1>9, <1>10, <1>11,
     <1>12, <1>13, <1>14, <1>15, <1>16, <1>17, <1>18, <1>19, <1>20, <1>21, <1>22,
     <1>23, <1>24, <1>25

-----------------------------------------------------------------------------
(***************************************************************************)
(* The refinement of AiSession.                                            *)
(***************************************************************************)
\* Every action of the machine is a step of the session or leaves it alone.
LEMMA SessionStep ==
    ASSUME TypeInv, SlotInv, PairingInv, Next
    PROVE  [Session!Next]_(Session!session)
<1>1. ASSUME NEW c \in Chars, FeedIdle(c) PROVE [Session!Next]_(Session!session)
  BY <1>1, NoneIsNoValue, TypeInvParts
     DEF FeedIdle, BufferTo, PinyinAction, SessionPhase, Session!Next,
         Session!session, Session!Send, Session!Finish, Session!Compare,
         Session!Fail, Session!Retry, Session!Leave, Session!Edit,
         Session!IsRewrite, Session!Requests, LlmTypes, PairingInv, RewritePairing,
         SlotInv, PreviewSlotsMatchState, OverlayPhaseMatchesState, StreamEvent,
         llmVars, previewVars, pinyinVars
<1>2. ASSUME NEW c \in Chars, FeedPendingSlash(c) PROVE [Session!Next]_(Session!session)
  BY <1>2, NoneIsNoValue, TypeInvParts
     DEF FeedPendingSlash, SessionPhase, Session!Next, Session!session,
         Session!Send, Session!Finish, Session!Compare, Session!Fail, Session!Retry,
         Session!Leave, Session!Edit, Session!IsRewrite, Session!Requests, LlmTypes,
         PairingInv, RewritePairing, SlotInv, PreviewSlotsMatchState,
         OverlayPhaseMatchesState, StreamEvent, llmVars, previewVars, pinyinVars
<1>3. ASSUME FeedPinyinSlash PROVE [Session!Next]_(Session!session)
  BY <1>3, NoneIsNoValue, TypeInvParts
     DEF FeedPinyinSlash, CommitPinyin, ClearCompositionState, SessionPhase,
         Session!Next, Session!session, Session!Send, Session!Finish,
         Session!Compare, Session!Fail, Session!Retry, Session!Leave, Session!Edit,
         Session!IsRewrite, Session!Requests, LlmTypes, PairingInv, RewritePairing,
         SlotInv, PreviewSlotsMatchState, OverlayPhaseMatchesState, StreamEvent,
         llmVars, previewVars, pinyinVars
<1>4. ASSUME NEW step \in {-1, 1}, Paginate(step) PROVE [Session!Next]_(Session!session)
  BY <1>4, NoneIsNoValue, TypeInvParts
     DEF Paginate, SessionPhase, Session!Next, Session!session, Session!Send,
         Session!Finish, Session!Compare, Session!Fail, Session!Retry,
         Session!Leave, Session!Edit, Session!IsRewrite, Session!Requests, LlmTypes,
         PairingInv, RewritePairing, SlotInv, PreviewSlotsMatchState,
         OverlayPhaseMatchesState, StreamEvent, llmVars, previewVars, pinyinVars
<1>5. ASSUME FeedPinyinSpace PROVE [Session!Next]_(Session!session)
  BY <1>5, NoneIsNoValue, TypeInvParts
     DEF FeedPinyinSpace, SpaceAt, Defer, CommitPinyin, ClearCompositionState,
         SessionPhase, Session!Next, Session!session, Session!Send, Session!Finish,
         Session!Compare, Session!Fail, Session!Retry, Session!Leave, Session!Edit,
         Session!IsRewrite, Session!Requests, LlmTypes, PairingInv, RewritePairing,
         SlotInv, PreviewSlotsMatchState, OverlayPhaseMatchesState, StreamEvent,
         llmVars, previewVars, pinyinVars
<1>6. ASSUME NEW c \in Chars, FeedPinyinLetter(c) PROVE [Session!Next]_(Session!session)
  BY <1>6, NoneIsNoValue, TypeInvParts
     DEF FeedPinyinLetter, BufferTo, PinyinAction, SessionPhase, Session!Next,
         Session!session, Session!Send, Session!Finish, Session!Compare,
         Session!Fail, Session!Retry, Session!Leave, Session!Edit,
         Session!IsRewrite, Session!Requests, LlmTypes, PairingInv, RewritePairing,
         SlotInv, PreviewSlotsMatchState, OverlayPhaseMatchesState, StreamEvent,
         llmVars, previewVars, pinyinVars
<1>7. ASSUME NEW c \in Chars, FeedPinyinSuffix(c) PROVE [Session!Next]_(Session!session)
  BY <1>7, NoneIsNoValue, TypeInvParts
     DEF FeedPinyinSuffix, Defer, CommitPinyin, ClearCompositionState, PinyinAction,
         SessionPhase, Session!Next, Session!session, Session!Send, Session!Finish,
         Session!Compare, Session!Fail, Session!Retry, Session!Leave, Session!Edit,
         Session!IsRewrite, Session!Requests, LlmTypes, PairingInv, RewritePairing,
         SlotInv, PreviewSlotsMatchState, OverlayPhaseMatchesState, StreamEvent,
         llmVars, previewVars, pinyinVars
<1>8. ASSUME NEW c \in Chars, FeedPinyinDigit(c) PROVE [Session!Next]_(Session!session)
  BY <1>8, NoneIsNoValue, TypeInvParts
     DEF FeedPinyinDigit, CommitPinyin, ClearCompositionState, SessionPhase,
         Session!Next, Session!session, Session!Send, Session!Finish,
         Session!Compare, Session!Fail, Session!Retry, Session!Leave, Session!Edit,
         Session!IsRewrite, Session!Requests, LlmTypes, PairingInv, RewritePairing,
         SlotInv, PreviewSlotsMatchState, OverlayPhaseMatchesState, StreamEvent,
         llmVars, previewVars, pinyinVars
<1>9. ASSUME NEW c \in Chars, FeedPromptComposing(c)
      PROVE  [Session!Next]_(Session!session)
  BY <1>9, NoneIsNoValue, TypeInvParts
     DEF FeedPromptComposing, BufferTo, PinyinAction, PromptGrows,
         ClearCompositionState, SessionPhase, Session!Next, Session!session,
         Session!Send, Session!Finish, Session!Compare, Session!Fail, Session!Retry,
         Session!Leave, Session!Edit, Session!IsRewrite, Session!Requests, LlmTypes,
         PairingInv, RewritePairing, SlotInv, PreviewSlotsMatchState,
         OverlayPhaseMatchesState, StreamEvent, llmVars, previewVars, pinyinVars
<1>10. ASSUME NEW c \in Chars, FeedPromptPlain(c) PROVE [Session!Next]_(Session!session)
  BY <1>10, NoneIsNoValue, TypeInvParts
     DEF FeedPromptPlain, BufferTo, PinyinAction, PromptGrows, StartPhase,
         SessionPhase, Session!Next, Session!session, Session!Send, Session!Finish,
         Session!Compare, Session!Fail, Session!Retry, Session!Leave, Session!Edit,
         Session!IsRewrite, Session!Requests, LlmTypes, PairingInv, RewritePairing,
         SlotInv, PreviewSlotsMatchState, OverlayPhaseMatchesState, StreamEvent,
         llmVars, previewVars, pinyinVars
<1>11. ASSUME NEW c \in Chars, FeedStreaming(c) PROVE [Session!Next]_(Session!session)
  BY <1>11, NoneIsNoValue, TypeInvParts
     DEF FeedStreaming, ConfirmResult, SessionPhase, Session!Next, Session!session,
         Session!Send, Session!Finish, Session!Compare, Session!Fail, Session!Retry,
         Session!Leave, Session!Edit, Session!IsRewrite, Session!Requests, LlmTypes,
         PairingInv, RewritePairing, SlotInv, PreviewSlotsMatchState,
         OverlayPhaseMatchesState, StreamEvent, llmVars, previewVars, pinyinVars
<1>12. ASSUME NEW key \in AiKeys, FeedAiPreview(key)
       PROVE  [Session!Next]_(Session!session)
  BY <1>12, NoneIsNoValue, TypeInvParts
     DEF FeedAiPreview, ConfirmResult, RetryLastLlm, StartPhase, EditLastPrompt,
         AiPreviewing, SessionPhase, Session!Next, Session!session, Session!Send,
         Session!Finish, Session!Compare, Session!Fail, Session!Retry,
         Session!Leave, Session!Edit, Session!IsRewrite, Session!Requests, LlmTypes,
         PairingInv, RewritePairing, SlotInv, PreviewSlotsMatchState,
         OverlayPhaseMatchesState, StreamEvent, llmVars, previewVars, pinyinVars
<1>13. ASSUME NEW up \in BOOLEAN, FeedArrow(up) PROVE [Session!Next]_(Session!session)
  BY <1>13, NoneIsNoValue, TypeInvParts
     DEF FeedArrow, MoveSelection, PinyinAction, SessionPhase, Session!Next,
         Session!session, Session!Send, Session!Finish, Session!Compare,
         Session!Fail, Session!Retry, Session!Leave, Session!Edit,
         Session!IsRewrite, Session!Requests, LlmTypes, PairingInv, RewritePairing,
         SlotInv, PreviewSlotsMatchState, OverlayPhaseMatchesState, StreamEvent,
         llmVars, previewVars, pinyinVars
<1>14. ASSUME FeedBackspace PROVE [Session!Next]_(Session!session)
  BY <1>14, NoneIsNoValue, TypeInvParts
     DEF FeedBackspace, NoAction, EndOcrPreview, LeaveTo, BufferTo, PinyinAction, ClearCompositionState,
         FeedAiPreview, RetryLastLlm, EditLastPrompt, AiPreviewing, SessionPhase,
         Session!Next, Session!session, Session!Send, Session!Finish,
         Session!Compare, Session!Fail, Session!Retry, Session!Leave, Session!Edit,
         Session!IsRewrite, Session!Requests, LlmTypes, PairingInv, RewritePairing,
         SlotInv, PreviewSlotsMatchState, OverlayPhaseMatchesState, StreamEvent,
         llmVars, previewVars, pinyinVars
<1>15. ASSUME FeedEnter PROVE [Session!Next]_(Session!session)
  BY <1>15, NoneIsNoValue, TypeInvParts
     DEF FeedEnter, NoAction, EndOcrPreview, CommitPinyin, PromptGrows, ClearCompositionState, StartPhase,
         ConfirmResult, RetryLastLlm, SessionPhase, Session!Next, Session!session,
         Session!Send, Session!Finish, Session!Compare, Session!Fail, Session!Retry,
         Session!Leave, Session!Edit, Session!IsRewrite, Session!Requests, LlmTypes,
         PairingInv, RewritePairing, SlotInv, PreviewSlotsMatchState,
         OverlayPhaseMatchesState, StreamEvent, llmVars, previewVars, pinyinVars
<1>16. ASSUME FeedEscape PROVE [Session!Next]_(Session!session)
  BY <1>16, NoneIsNoValue, TypeInvParts
     DEF FeedEscape, ClearCompositionState, SessionPhase, Session!Next,
         Session!session, Session!Send, Session!Finish, Session!Compare,
         Session!Fail, Session!Retry, Session!Leave, Session!Edit,
         Session!IsRewrite, Session!Requests, LlmTypes, PairingInv, RewritePairing,
         SlotInv, PreviewSlotsMatchState, OverlayPhaseMatchesState, StreamEvent,
         llmVars, previewVars, pinyinVars
<1>17. ASSUME NEW text \in {<<>>, <<OcrText>>}, BeginOcrPreview(text)
       PROVE  [Session!Next]_(Session!session)
  BY <1>17, NoneIsNoValue, TypeInvParts
     DEF BeginOcrPreview, SessionPhase, Session!Next, Session!session, Session!Send,
         Session!Finish, Session!Compare, Session!Fail, Session!Retry,
         Session!Leave, Session!Edit, Session!IsRewrite, Session!Requests, LlmTypes,
         PairingInv, RewritePairing, SlotInv, PreviewSlotsMatchState,
         OverlayPhaseMatchesState, StreamEvent, llmVars, previewVars, pinyinVars
<1>18. ASSUME NEW key \in {"Confirm", "Escape", "Other"}, FeedOcrPreview(key)
       PROVE  [Session!Next]_(Session!session)
  BY <1>18, NoneIsNoValue, TypeInvParts
     DEF FeedOcrPreview, SessionPhase, Session!Next, Session!session, Session!Send,
         Session!Finish, Session!Compare, Session!Fail, Session!Retry,
         Session!Leave, Session!Edit, Session!IsRewrite, Session!Requests, LlmTypes,
         PairingInv, RewritePairing, SlotInv, PreviewSlotsMatchState,
         OverlayPhaseMatchesState, StreamEvent, llmVars, previewVars, pinyinVars
<1>19. ASSUME ExpireStaleOcrPreview PROVE [Session!Next]_(Session!session)
  BY <1>19, NoneIsNoValue, TypeInvParts
     DEF ExpireStaleOcrPreview, EndOcrPreview, SessionPhase, Session!Next, Session!session,
         Session!Send, Session!Finish, Session!Compare, Session!Fail, Session!Retry,
         Session!Leave, Session!Edit, Session!IsRewrite, Session!Requests, LlmTypes,
         PairingInv, RewritePairing, SlotInv, PreviewSlotsMatchState,
         OverlayPhaseMatchesState, StreamEvent, llmVars, previewVars, pinyinVars
<1>20. ASSUME NEW key \in {"Rewritten", "Source", "Escape"}, FeedRewritePreview(key)
       PROVE  [Session!Next]_(Session!session)
  BY <1>20, NoneIsNoValue, TypeInvParts
     DEF FeedRewritePreview, RewritePreviewing, SessionPhase, Session!Next,
         Session!session, Session!Send, Session!Finish, Session!Compare,
         Session!Fail, Session!Retry, Session!Leave, Session!Edit,
         Session!IsRewrite, Session!Requests, LlmTypes, PairingInv, RewritePairing,
         SlotInv, PreviewSlotsMatchState, OverlayPhaseMatchesState, StreamEvent,
         llmVars, previewVars, pinyinVars
<1>21. ASSUME NEW w \in Nat, NEW s \in Text, RewriteArmed(w, s)
       PROVE  [Session!Next]_(Session!session)
  <2>1. /\ last_request.rewrite_source = s /\ s # None
        /\ state = "ResultReady" /\ UNCHANGED <<state, last_request>>
        /\ rewrite_preview' # None
    BY <1>21, NoneIsNoValue
       DEF RewriteArmed, BeginRewritePreview, PairingInv, NoticeFresh,
           RewriteAnnounced, llmVars
  <2> QED
    BY <2>1 DEF SessionPhase, Session!Next, Session!session, Session!Compare,
                Session!IsRewrite
<1>22. ASSUME OnLlmChunk PROVE [Session!Next]_(Session!session)
  BY <1>22, NoneIsNoValue, TypeInvParts
     DEF OnLlmChunk, Ignored, SessionPhase, Session!Next, Session!session,
         Session!Send, Session!Finish, Session!Compare, Session!Fail, Session!Retry,
         Session!Leave, Session!Edit, Session!IsRewrite, Session!Requests, LlmTypes,
         PairingInv, RewritePairing, SlotInv, PreviewSlotsMatchState,
         OverlayPhaseMatchesState, StreamEvent, llmVars, previewVars, pinyinVars
<1>23. ASSUME OnLlmDone PROVE [Session!Next]_(Session!session)
  BY <1>23, NoneIsNoValue, TypeInvParts
     DEF OnLlmDone, Ignored, SessionPhase, Session!Next, Session!session,
         Session!Send, Session!Finish, Session!Compare, Session!Fail, Session!Retry,
         Session!Leave, Session!Edit, Session!IsRewrite, Session!Requests, LlmTypes,
         PairingInv, RewritePairing, SlotInv, PreviewSlotsMatchState,
         OverlayPhaseMatchesState, StreamEvent, llmVars, previewVars, pinyinVars
<1>24. ASSUME OnLlmError PROVE [Session!Next]_(Session!session)
  BY <1>24, NoneIsNoValue, TypeInvParts
     DEF OnLlmError, SessionPhase, Session!Next, Session!session, Session!Send,
         Session!Finish, Session!Compare, Session!Fail, Session!Retry,
         Session!Leave, Session!Edit, Session!IsRewrite, Session!Requests, LlmTypes,
         PairingInv, RewritePairing, SlotInv, PreviewSlotsMatchState,
         OverlayPhaseMatchesState, StreamEvent, llmVars, previewVars, pinyinVars
<1>25. ASSUME NEW p \in Pinyins, NEW n \in Answers, NEW done \in AnswerDone,
              OnLlmCandidates(p, n, done)
       PROVE  [Session!Next]_(Session!session)
  BY <1>25, NoneIsNoValue, TypeInvParts
     DEF OnLlmCandidates, ReplayDeferredIntents, CommitPinyin,
         ClearCompositionState, SessionPhase, Session!Next, Session!session,
         Session!Send, Session!Finish, Session!Compare, Session!Fail, Session!Retry,
         Session!Leave, Session!Edit, Session!IsRewrite, Session!Requests, LlmTypes,
         PairingInv, RewritePairing, SlotInv, PreviewSlotsMatchState,
         OverlayPhaseMatchesState, StreamEvent, llmVars, previewVars, pinyinVars
<1> QED
  BY StepCases, <1>1, <1>2, <1>3, <1>4, <1>5, <1>6, <1>7, <1>8, <1>9, <1>10, <1>11,
     <1>12, <1>13, <1>14, <1>15, <1>16, <1>17, <1>18, <1>19, <1>20, <1>21, <1>22,
     <1>23, <1>24, <1>25
-----------------------------------------------------------------------------
(***************************************************************************)
(* What a key or an answer puts in the document.                           *)
(***************************************************************************)
\* A commit puts its head first, then the keys.
LEMMA CommittedText ==
    ASSUME NEW next, NEW head, NEW keys, CommitPinyin(next, head, keys)
    PROVE  out' = <<[act |-> "CommitImmediate", text |-> <<head>> \o FoldKeys(keys)]>>
BY DEF CommitPinyin, Commit, Emit

\* The text of a commit begins with its head, and is the head if no key waited.
LEMMA CommitBegins ==
    ASSUME NEW head, NEW keys \in Seq(Chars)
    PROVE  /\ (<<head>> \o FoldKeys(keys))[1] = head
           /\ keys = <<>> => <<head>> \o FoldKeys(keys) = <<head>>
<1> DEFINE T == UNION {{FoldKeys(keys)[i] : i \in 1..Len(keys)}, {head}}
<1>1. Len(keys) \in Nat
  OBVIOUS
<1>2. FoldKeys(keys) \in [1..Len(keys) -> T]
  BY DEF FoldKeys
<1>3. FoldKeys(keys) \in Seq(T) /\ Len(FoldKeys(keys)) = Len(keys)
  BY <1>1, <1>2
<1>4. <<head>> \in Seq(T) /\ Len(<<head>>) = 1 /\ <<head>>[1] = head
  OBVIOUS
<1>5. (<<head>> \o FoldKeys(keys))[1] = head
  <2> HIDE DEF T
  <2> QED  BY <1>3, <1>4
<1>6. ASSUME keys = <<>> PROVE <<head>> \o FoldKeys(keys) = <<head>>
  <2>1. Len(keys) = 0
    BY <1>6
  <2>2. FoldKeys(keys) = <<>>
    <3> HIDE DEF T
    <3> QED  BY <1>3, <2>1, EmptySeq
  <2> QED  BY <2>2
<1> QED  BY <1>5, <1>6

\* Space on the row that the panel shows commits that row's candidate alone.
LEMMA SpaceStep ==
    ASSUME TypeInv, PanelInv, FeedPinyinSpace, candidates > 0
    PROVE  out'[1].text = <<Cand(shown.page * PageSize + shown.selected + 1)>>
<1> DEFINE row == pinyin_page * PageSize
           rank == shown.page * PageSize + shown.selected + 1
<1>1. /\ row \in Nat /\ selected_index \in Nat /\ candidates \in Nat
      /\ row + selected_index < candidates
  BY TypeInvParts, MachineAssumption
     DEF CompositionInv, CompositionTypes, HighlightInRange
<1>2. HighlightedRank = row + selected_index + 1 /\ rank = HighlightedRank
  BY DEF HighlightedRank, PanelInv
<1>3. ~(HighlightedRank > candidates)
  <2> HIDE DEF row
  <2> QED  BY <1>1, <1>2
<1>4. CommitPinyin("Idle", Cand(HighlightedRank), <<>>)
  BY <1>3 DEF FeedPinyinSpace, SpaceAt
<1>5. out' = <<[act |-> "CommitImmediate",
                text |-> <<Cand(HighlightedRank)>> \o FoldKeys(<<>>)]>>
  BY <1>4, CommittedText
<1>6. <<Cand(HighlightedRank)>> \o FoldKeys(<<>>) = <<Cand(HighlightedRank)>>
  <2>1. <<>> \in Seq(Chars)
    OBVIOUS
  <2> QED  BY <2>1, CommitBegins
<1>7. out'[1].text = <<Cand(HighlightedRank)>>
  BY <1>5, <1>6
<1>8. rank = HighlightedRank
  BY <1>2
<1> QED  BY ONLY <1>7, <1>8

\* A key is put in the document by the queue only when the queue is full.
LEMMA DeferCommits ==
    ASSUME TypeInv, QueueInv, BlindWindow, NEW c \in Chars, Defer(c), IsCommit(out')
    PROVE  Len(deferred_intents) = MaxDeferred
<1> DEFINE queue == Append(deferred_intents, c)
<1>1. /\ deferred_intents \in Seq(Chars) /\ MaxDeferred \in Nat
      /\ Len(deferred_intents) \in Nat /\ Len(queue) = Len(deferred_intents) + 1
  BY TypeInvParts, MachineAssumption DEF CompositionInv, CompositionTypes
<1>2. Len(deferred_intents) <= MaxDeferred
  <2>1. CASE deferred_intents = <<>>
    <3>1. Len(deferred_intents) = 0
      BY <2>1
    <3> QED  BY <1>1, <3>1
  <2>2. CASE deferred_intents # <<>>
    BY <2>2 DEF QueueInv, QueueDiscipline
  <2> QED  BY <2>1, <2>2
<1>3. Len(queue) > MaxDeferred
  <2>1. SUFFICES ASSUME ~(Len(queue) > MaxDeferred) PROVE FALSE
    OBVIOUS
  <2>2. Quiet \/ \E n, page, sel, raw : Emit(UpdatePinyin(n, page, sel, raw))
    BY <2>1 DEF Defer, PinyinAction
  <2> QED  BY <2>2 DEF IsCommit, Quiet, Emit, UpdatePinyin
<1> HIDE DEF queue
<1> QED  BY <1>1, <1>2, <1>3

\* Spaces and suffix keys in the blind window.
LEMMA BlindKeys ==
    ASSUME TypeInv, QueueInv, BlindWindow, IsCommit(out'),
           FeedPinyinSpace \/ \E c \in Chars : FeedPinyinSuffix(c)
    PROVE  Len(deferred_intents) = MaxDeferred \/ SpaceWaits
<1>1. CASE FeedPinyinSpace
  <2>1. HighlightedRank > candidates
    <3> DEFINE row == pinyin_page * PageSize
    <3>1. row \in Nat /\ selected_index \in Nat /\ candidates = 0
      BY TypeInvParts, MachineAssumption DEF CompositionInv, CompositionTypes, BlindWindow
    <3>2. HighlightedRank = row + selected_index + 1
      BY DEF HighlightedRank
    <3> HIDE DEF row
    <3> QED  BY <3>1, <3>2
  <2>2. candidates_in_flight /\ ~(HighlightedRank <= candidates)
    <3>1. HighlightedRank \in Int /\ candidates \in Int
      BY TypeInvParts, MachineAssumption
         DEF CompositionInv, CompositionTypes, HighlightedRank
    <3> QED  BY <2>1, <3>1 DEF BlindWindow
  <2>3. SpaceWaits \/ Defer(" ")
    BY <1>1, <2>2 DEF FeedPinyinSpace, SpaceAt
  <2> QED  BY <2>3, DeferCommits DEF Chars
<1>2. ASSUME NEW c \in Chars, FeedPinyinSuffix(c) PROVE Len(deferred_intents) = MaxDeferred
  BY <1>2, DeferCommits DEF FeedPinyinSuffix
<1> QED  BY <1>1, <1>2

\* The answer that ends the blind window commits its first candidate.
LEMMA BlindAnswer ==
    ASSUME TypeInv, BlindWindow, IsCommit(out'), NEW n \in Answers \ {0},
           OnLlmCandidates(pinyin_buffer, n, TRUE)
    PROVE  out'[1].text[1] = Cand(1)
<1>1. n \in Nat /\ n > 0 /\ candidates = 0
  BY MachineAssumption DEF BlindWindow
<1>2. deferred_intents # <<>> /\ ReplayDeferredIntents(n)
  <2>1. SUFFICES ASSUME deferred_intents = <<>> PROVE FALSE
    BY <1>1 DEF OnLlmCandidates
  <2>2. Quiet \/ \E m, page, sel, raw : Emit(UpdatePinyin(m, page, sel, raw))
    BY <2>1 DEF OnLlmCandidates
  <2> QED  BY <2>2 DEF IsCommit, Quiet, Emit, UpdatePinyin
<1>3. CommitPinyin("Idle", Cand(1), DropSpace(deferred_intents))
  BY <1>1, <1>2 DEF ReplayDeferredIntents, FirstOrRaw
<1>4. DropSpace(deferred_intents) \in Seq(Chars)
  <2>1. deferred_intents \in Seq(Chars)
    BY TypeInvParts DEF CompositionInv, CompositionTypes
  <2>2. Tail(deferred_intents) \in Seq(Chars)
    BY <1>2, <2>1
  <2> QED  BY <2>1, <2>2 DEF DropSpace
<1>5. out' = <<[act |-> "CommitImmediate",
                text |-> <<Cand(1)>> \o FoldKeys(DropSpace(deferred_intents))]>>
  BY <1>3, CommittedText
<1> QED  BY <1>4, <1>5, CommitBegins
-----------------------------------------------------------------------------
(***************************************************************************)
(* The theorems.                                                           *)
(***************************************************************************)
\* The invariants hold at the start.
LEMMA InitSafety == Init => SlotInv /\ QueueInv /\ PairingInv /\ PanelInv
BY DEF Init, SlotInv, PreviewSlotsMatchState, OverlayPhaseMatchesState, QueueInv,
       QueueDiscipline, RequestIsCurrent, PairingInv, RewritePairing, NoticeFresh,
       RewriteAnnounced, PanelInv

\* The invariants survive a step of the environment.
LEMMA StutterSafety ==
    UNCHANGED vars =>
        /\ SlotInv => SlotInv'
        /\ QueueInv => QueueInv'
        /\ PairingInv => PairingInv'
        /\ PanelInv => PanelInv'
<1> SUFFICES ASSUME UNCHANGED vars
             PROVE  /\ SlotInv => SlotInv'
                    /\ QueueInv => QueueInv'
                    /\ PairingInv => PairingInv'
                    /\ PanelInv => PanelInv'
  OBVIOUS
<1> USE DEF vars, pinyinVars, previewVars, llmVars
<1>1. SlotInv => SlotInv'
  BY DEF SlotInv, PreviewSlotsMatchState, OverlayPhaseMatchesState
<1>2. QueueInv => QueueInv'
  BY DEF QueueInv, QueueDiscipline, RequestIsCurrent, BlindWindow
<1>3. PairingInv => PairingInv'
  BY DEF PairingInv, RewritePairing, NoticeFresh, RewriteAnnounced
<1>4. PanelInv => PanelInv'
  BY DEF PanelInv
<1> QED  BY <1>1, <1>2, <1>3, <1>4

\* The slots match the state in every reachable state.
THEOREM SlotInvariant == Spec => []SlotInv
<1>1. TypeInv /\ SlotInv /\ [Next]_vars => SlotInv'
  BY NextKeepsSlots, StutterSafety
<1> QED  BY <1>1, InitSafety, TypeInvariant, PTL DEF Spec

\* A preview slot is armed only in the state that routes keys to it, whatever
\* events arrive late (run Machine).
THEOREM PreviewSlotsSafe == Spec => []PreviewSlotsMatchState
<1>1. SlotInv => PreviewSlotsMatchState
  BY DEF SlotInv
<1> QED  BY <1>1, SlotInvariant, PTL

\* The overlay's phase is the state's phase (run Machine).
THEOREM OverlayPhaseSafe == Spec => []OverlayPhaseMatchesState
<1>1. SlotInv => OverlayPhaseMatchesState
  BY DEF SlotInv
<1> QED  BY <1>1, SlotInvariant, PTL

\* What is armed, what is shown and what the state lets the next key do agree.
THEOREM OverlaysSafe == Spec => []OverlaysAgree
<1>1. SlotInv => OverlaysAgree
  BY DEF SlotInv, OverlaysAgree
<1> QED  BY <1>1, SlotInvariant, PTL

\* The queue and the request are in order in every reachable state.
THEOREM QueueInvariant ==
    ASSUME AnswerDone = {TRUE}
    PROVE  Spec => []QueueInv
<1>1. TypeInv /\ QueueInv /\ [Next]_vars => QueueInv'
  BY NextKeepsQueue, StutterSafety
<1> QED  BY <1>1, InitSafety, TypeInvariant, PTL DEF Spec

\* When every answer is final, keys wait only in the blind window, never two
\* spaces in a row, never more than MaxDeferred (run Machine).
THEOREM QueueSafe ==
    ASSUME AnswerDone = {TRUE}
    PROVE  Spec => []QueueDiscipline
<1>1. QueueInv => QueueDiscipline
  BY DEF QueueInv
<1> QED  BY <1>1, QueueInvariant, PTL

\* When every answer is final, the pinyin on screen is the one asked for last
\* (run Machine).
THEOREM RequestSafe ==
    ASSUME AnswerDone = {TRUE}
    PROVE  Spec => []RequestIsCurrent
<1>1. QueueInv => RequestIsCurrent
  BY DEF QueueInv
<1> QED  BY <1>1, QueueInvariant, PTL

\* When every answer is final, what waits, waits for the pinyin on the screen
\* (run Machine).
THEOREM QueueAwaitsSafe ==
    ASSUME AnswerDone = {TRUE}
    PROVE  Spec => []QueueAwaitsAnswer
<1>1. QueueInv => QueueAwaitsAnswer
  BY DEF QueueInv, QueueAwaitsAnswer
<1> QED  BY <1>1, QueueInvariant, PTL

\* Result, source and request belong together in every reachable state.
THEOREM PairingInvariant ==
    Spec => [](SlotInv /\ PairingInv)
<1>1. TypeInv /\ SlotInv /\ PairingInv /\ [Next]_vars => PairingInv'
  <2>1. ASSUME TypeInv, SlotInv, PairingInv, Next PROVE PairingInv'
    <3>1. RewritePairing'
      BY <2>1, RewritePairingStep
    <3>2. CASE OnLlmDone /\ state = "Streaming"
      BY <2>1, <3>1, <3>2
         DEF OnLlmDone, PairingInv, RewritePairing, NoticeFresh, RewriteAnnounced, Emit
    <3>3. CASE ~(OnLlmDone /\ state = "Streaming")
      BY <2>1, <3>1, <3>3, OnlyDoneAnnounces DEF PairingInv, NoticeFresh
    <3> QED  BY <3>2, <3>3
  <2> QED  BY <2>1, StutterSafety
<1> QED  BY <1>1, InitSafety, TypeInvariant, SlotInvariant, PTL DEF Spec

\* Whenever stream events arrive, a comparison shows the result and the source
\* of the one request it was made for (run Machine).
THEOREM RewritePairingSafe ==
    Spec => []RewritePairing
<1>1. PairingInv => RewritePairing
  BY DEF PairingInv
<1> QED  BY <1>1, PairingInvariant, PTL

\* The panel shows the machine's page in every reachable state.
THEOREM PanelInvariant ==
    ASSUME AnswerDone = {TRUE}, ~DuplicateAnswers
    PROVE  Spec => []PanelInv
<1>1. TypeInv /\ QueueInv /\ PanelInv /\ [Next]_vars => PanelInv'
  BY NextKeepsPanel, StutterSafety
<1> QED  BY <1>1, InitSafety, TypeInvariant, QueueInvariant, PTL DEF Spec

\* When every request gets one final answer, the panel highlights the row that
\* the machine will commit, and the row exists (run Machine).
THEOREM PanelSafe ==
    ASSUME AnswerDone = {TRUE}, ~DuplicateAnswers
    PROVE  Spec => []PanelMatchesMachine
<1>1. TypeInv /\ PanelInv => PanelMatchesMachine
  BY TypeInvParts DEF CompositionInv, HighlightInRange, PanelInv, PanelMatchesMachine
<1> QED  BY <1>1, TypeInvariant, PanelInvariant, PTL

\* When every request gets one final answer, Space commits the row the panel
\* highlights, on whatever page it is (run Machine).
THEOREM SpaceAlwaysCommitsHighlighted ==
    ASSUME AnswerDone = {TRUE}, ~DuplicateAnswers
    PROVE  Spec => SpaceCommitsHighlighted
<1>1. TypeInv /\ PanelInv /\ [Next]_vars =>
        [FeedPinyinSpace /\ candidates > 0 =>
            out'[1].text = <<Cand(shown.page * PageSize + shown.selected + 1)>>]_vars
  BY SpaceStep
<1> QED
  BY <1>1, TypeInvariant, PanelInvariant, PTL DEF Spec, SpaceCommitsHighlighted

\* When every answer is final, no key of the blind window puts raw letters in
\* the document but a second space or a key too many, and the answer commits
\* its first candidate (run Machine).
THEOREM BlindKeysAlwaysWait ==
    ASSUME AnswerDone = {TRUE}
    PROVE  Spec => BlindKeysWait
<1>1. TypeInv /\ QueueInv /\ [Next]_vars =>
        [BlindWindow /\ state = "Pinyin" /\ IsCommit(out') =>
            /\ FeedPinyinSpace \/ (\E c \in Chars : FeedPinyinSuffix(c)) =>
                \/ Len(deferred_intents) = MaxDeferred
                \/ SpaceWaits
            /\ (\E n \in Answers \ {0} : OnLlmCandidates(pinyin_buffer, n, TRUE)) =>
                out'[1].text[1] = Cand(1)]_vars
  BY BlindKeys, BlindAnswer
<1> QED
  BY <1>1, TypeInvariant, QueueInvariant, PTL DEF Spec, BlindKeysWait

\* Whenever stream events arrive, the machine's overlay implements AiSession:
\* each step of the machine is a step of the session or none (run Machine).
THEOREM SessionRefined ==
    Spec => ImplementsAiSession
<1>1. Init => Session!Init
  BY DEF Init, Session!Init, SessionPhase
<1>2. TypeInv /\ SlotInv /\ PairingInv /\ [Next]_vars
        => [Session!Next]_(Session!session)
  <2>1. UNCHANGED vars => UNCHANGED Session!session
    BY DEF vars, llmVars, previewVars, Session!session, SessionPhase
  <2> QED  BY <2>1, SessionStep
<1> QED
  BY <1>1, <1>2, TypeInvariant, PairingInvariant, PTL
     DEF Spec, ImplementsAiSession, Session!Spec

(***************************************************************************)
(* What a call of the machine keeps and answers, for those who call it     *)
(* (TextService, InputController) from whatever state their own queues and *)
(* callbacks have left it in.  Fit and SlotsFit hold between any two calls;*)
(* Reply says which action a key's call returns and where it leaves the    *)
(* machine, Asking when it asks for candidates.                            *)
(***************************************************************************)
\* Texts with nothing recognised in them.
Spoken == [what : (Kinds \ {"ocr"}) \cup Chars, py : Seq(Letters), rank : Nat]
Texts == Seq(Spoken)

TextsFit ==
    /\ prompt \in Texts /\ result \in Nat /\ candidates \in Nat
    /\ rewrite_source \in Texts \cup {None}
    /\ rewrite_preview \in [rewritten : Nat, source : Texts] \cup {None}
    /\ last_request \in [prompt : Texts, rewrite_source : Texts \cup {None}] \cup {None}

\* The letters on screen are the ones asked for.
LettersFit ==
    /\ state \in States
    /\ pinyin_buffer \in Pinyins \cup {<<>>}
    /\ last_candidates_request \in Pinyins \cup {None}
    /\ candidates_in_flight \in BOOLEAN
    /\ deferred_intents \in Seq(Chars)
    /\ pinyin_buffer # <<>> => state \in {"Pinyin", "Prompt"}
    /\ state = "Pinyin" =>
        pinyin_buffer # <<>> /\ last_candidates_request = pinyin_buffer
    /\ pinyin_buffer = <<>> => ~candidates_in_flight

\* The result overlay and the comparison, by the state that owns them.
SlotsFit ==
    /\ rewrite_preview # None => state = "ResultReady" /\ ai_preview = None
    /\ ai_preview # None => state \in {"Streaming", "ResultReady", "Failed"}
    /\ state = "Streaming" => ai_preview = "Streaming"
    /\ state = "ResultReady" => ai_preview \in {None, "Ready"}
    /\ state = "Failed" => ai_preview \in {None, "Failed"}

\* An answer that commits nothing recognised.
Clean(o) == o # <<>> /\ o[1].act = "CommitImmediate" => o[1].text # <<OcrText>>

(***************************************************************************)
(* Texts and letters, and what a call that composes them answers.          *)
(***************************************************************************)
\* A pinyin is a non-empty run of at most MaxPinyinBuffer letters.
LEMMA PinyinFacts ==
    \A p : p \in Pinyins <=>
        p \in Seq(Letters) /\ p # <<>> /\ Len(p) <= MaxPinyinBuffer
<1>0. MaxPinyinBuffer \in Nat
  BY MachineAssumption
<1>1. ASSUME NEW p \in Pinyins
      PROVE  p \in Seq(Letters) /\ p # <<>> /\ Len(p) <= MaxPinyinBuffer
  <2>1. PICK k \in 1..MaxPinyinBuffer : p \in [1..k -> Letters]
    BY DEF Pinyins, Pinyins
  <2>2. k \in Nat /\ p \in Seq(Letters)
    BY <1>0, <2>1, SeqDef
  <2>3. Len(p) = k
    BY <1>0, <2>1, <2>2, LenProperties
  <2> QED  BY <1>0, <2>1, <2>2, <2>3
<1>2. ASSUME NEW p \in Seq(Letters), p # <<>>, Len(p) <= MaxPinyinBuffer
      PROVE  p \in Pinyins
  <2>1. Len(p) \in 1..MaxPinyinBuffer /\ p \in [1..Len(p) -> Letters]
    BY <1>0, <1>2, LenProperties, EmptySeq
  <2> QED  BY <2>1 DEF Pinyins, Pinyins
<1> QED  BY <1>1, <1>2

\* Texts are closed under what the handlers build: one token, two, and joining;
\* none of them is a recognised text.
LEMMA TextFacts ==
    /\ <<>> \in Texts
    /\ \A t \in Spoken : <<t>> \in Texts
    /\ \A s, t \in Spoken : <<s, t>> \in Texts
    /\ \A s, t \in Texts : s \o t \in Texts
    /\ \A t \in Texts : t # <<OcrText>>
    /\ \A c \in Chars : Key(c) \in Spoken
<1>1. OcrText \notin Spoken
  BY KeyAssumption DEF Spoken, OcrText, Kinds
<1>2. \A t \in Texts : t # <<OcrText>>
  BY <1>1, ElementOfSeq DEF Texts
<1>3. \A c \in Chars : Key(c) \in Spoken
  BY DEF Key, Spoken
<1> QED  BY <1>2, <1>3 DEF Texts

\* A text without a recognised token is a text.
LEMMA SpokenTexts == Texts \subseteq Text
<1>1. Spoken \subseteq Token
  BY DEF Spoken, Token
<1>2. ASSUME NEW t \in Texts  PROVE t \in Text
  <2>1. Len(t) \in Nat /\ t \in [1..Len(t) -> Spoken]
    BY LenProperties DEF Texts
  <2>2. t \in [1..Len(t) -> Token]
    BY <1>1, <2>1
  <2> QED  BY <2>1, <2>2, SeqDef DEF Text
<1> QED  BY <1>2

\* None is confused with no value that stands beside it.
LEMMA NoneApart ==
    /\ None \notin Pinyins /\ <<>> \notin Pinyins /\ None # <<>>
    /\ None \notin Texts
    /\ None \notin [prompt : Texts, rewrite_source : Texts \cup {None}]
    /\ None \notin [rewritten : Nat, source : Texts]
    /\ None \notin {"Streaming", "Ready", "Failed"}
<1>1. /\ None \notin Seq(Letters) /\ None \notin Text
      /\ None \notin Requests /\ None \notin Comparisons
      /\ None \notin {"Streaming", "Ready", "Failed"}
    BY NoneAssumption
<1>2. None \notin Pinyins /\ <<>> \notin Pinyins /\ None # <<>>
  <2>1. \A p \in Pinyins : p \in Seq(Letters) /\ p # <<>>
    BY PinyinFacts
  <2>2. <<>> \in Seq(Letters)
    BY EmptySeq
  <2> QED  BY <1>1, <2>1, <2>2
<1>3. None \notin [prompt : Texts, rewrite_source : Texts \cup {None}]
  BY <1>1, SpokenTexts DEF Requests
<1>4. None \notin [rewritten : Nat, source : Texts]
  BY <1>1, SpokenTexts DEF Comparisons
<1> QED  BY <1>1, <1>2, <1>3, <1>4, SpokenTexts

\* What a composition can commit: its raw letters or a candidate, never a
\* recognised text.
LEMMA LetterTokens ==
    ASSUME LettersFit
    PROVE  /\ Raw # OcrText /\ \A i : Cand(i) # OcrText
           /\ \A i : FirstOrRaw(i) # OcrText
           /\ Raw \in Spoken /\ \A i \in Nat : Cand(i) \in Spoken
           /\ \A i \in Nat : FirstOrRaw(i) \in Spoken
<1>1. pinyin_buffer \in Seq(Letters)
  <2>1. \A p \in Pinyins : p \in Seq(Letters)
    BY PinyinFacts
  <2> QED  BY <2>1, EmptySeq DEF LettersFit
<1>2. Raw \in Spoken /\ \A i \in Nat : Cand(i) \in Spoken
  BY <1>1 DEF Raw, Cand, Spoken, Kinds
<1>3. Raw # OcrText /\ \A i : Cand(i) # OcrText
  BY DEF Raw, Cand, OcrText
<1> QED  BY <1>2, <1>3 DEF FirstOrRaw

\* the pinyin after a letter more or less
LEMMA PinyinGrows ==
    /\ \A c \in Letters : <<c>> \in Pinyins
    /\ \A p \in Pinyins \cup {<<>>}, c \in Letters :
            Len(p) < MaxPinyinBuffer => Append(p, c) \in Pinyins
    /\ \A p \in Pinyins : Len(p) > 1 => Front(p) \in Pinyins
<1>0. MaxPinyinBuffer \in Nat \ {0}
  BY MachineAssumption
<1>1. ASSUME NEW c \in Letters  PROVE <<c>> \in Pinyins
  <2>1. <<c>> \in Seq(Letters) /\ <<c>> # <<>> /\ Len(<<c>>) <= MaxPinyinBuffer
    BY <1>0
  <2> QED  BY <2>1, PinyinFacts
<1>2. ASSUME NEW p \in Pinyins \cup {<<>>}, NEW c \in Letters, Len(p) < MaxPinyinBuffer
      PROVE  Append(p, c) \in Pinyins
  <2>1. p \in Seq(Letters)
    <3>1. p = <<>> \/ p \in Seq(Letters)
      BY PinyinFacts
    <3> QED  BY <3>1, EmptySeq
  <2>2. Append(p, c) \in Seq(Letters) /\ Len(Append(p, c)) = Len(p) + 1
        /\ Append(p, c) # <<>>
    BY <2>1, AppendProperties
  <2>3. Len(Append(p, c)) <= MaxPinyinBuffer
    BY <1>0, <1>2, <2>1, <2>2, LenProperties
  <2> QED  BY <2>2, <2>3, PinyinFacts
<1>3. ASSUME NEW p \in Pinyins, Len(p) > 1
      PROVE  Front(p) \in Pinyins
  <2>1. p \in Seq(Letters) /\ Len(p) <= MaxPinyinBuffer /\ Len(p) \in Nat
    BY PinyinFacts, LenProperties
  <2>2. Front(p) \in Seq(Letters) /\ Len(Front(p)) = Len(p) - 1
    BY <1>3, <2>1, FrontType
  <2> QED  BY <1>0, <1>3, <2>1, <2>2, PinyinFacts, EmptySeq
<1> QED  BY <1>1, <1>2, <1>3

Fit == TextsFit /\ LettersFit
\* Neither overlay nor comparison; the one action a call returns.
Bare == ai_preview = None /\ rewrite_preview = None
Says(name) == Len(out') = 1 /\ out' = <<out'[1]>> /\ out'[1].act = name

\* The action a call returns, by the operator that returns it.
LEMMA SayFacts ==
    /\ Quiet => out' = <<>>
    /\ \A name : Tell(name) => Says(name)
    /\ \A text : Commit(text) => Says("CommitImmediate") /\ out'[1].text = text
    /\ \A n, page, sel, raw :
            Emit(UpdatePinyin(n, page, sel, raw)) => Says("UpdatePinyin")
    /\ \A name, text : Emit([act |-> name, text |-> text]) => Says(name)
BY DEF Quiet, Tell, Commit, Emit, UpdatePinyin, Says

\* No such action but a commit can carry recognised text.
LEMMA CleanFacts ==
    /\ out' = <<>> => Clean(out')
    /\ \A name : Says(name) /\ name # "CommitImmediate" => Clean(out')
    /\ \A text : Commit(text) /\ text # <<OcrText>> => Clean(out')
BY SayFacts DEF Says, Clean

\* the text of a commit begins with its head
LEMMA HeadFirst ==
    ASSUME NEW head, head # OcrText, NEW keys \in Seq(Chars)
    PROVE  <<head>> \o FoldKeys(keys) # <<OcrText>>
<1>1. Len(keys) \in Nat
  BY LenProperties
<1> DEFINE fold == FoldKeys(keys)
           S == {fold[i] : i \in 1..Len(keys)} \cup {head}
<1>2. fold \in Seq(S)
  <2>1. fold \in [1..Len(keys) -> S]
    BY DEF FoldKeys
  <2> HIDE DEF fold, S
  <2> QED  BY <1>1, <2>1, SeqDef
<1>3. <<head>> \in Seq(S) /\ Len(<<head>>) = 1 /\ <<head>>[1] = head
  OBVIOUS
<1>4. (<<head>> \o fold)[1] = head
  <2> HIDE DEF fold, S
  <2> QED  BY <1>2, <1>3, ConcatProperties, LenProperties
<1>5. <<OcrText>>[1] = OcrText
  OBVIOUS
<1> QED  BY <1>4, <1>5

\* commit_pinyin_text ends the composition and commits what was typed.
LEMMA CommitFits ==
    ASSUME Fit, NEW next \in {"Idle", "PendingSlash"}, NEW head, head # OcrText,
           NEW keys \in Seq(Chars), CommitPinyin(next, head, keys)
    PROVE  /\ Fit' /\ Clean(out')
           /\ SlotsFit' /\ Bare' /\ state' = next /\ Says("CommitImmediate")
           /\ last_candidates_request' = None
<1>1. TextsFit'
  BY DEF Fit, TextsFit, CommitPinyin, ClearCompositionState, llmVars
<1>2. LettersFit'
  BY EmptySeq DEF Fit, LettersFit, CommitPinyin, ClearCompositionState, States
<1>3. Clean(out') /\ Says("CommitImmediate")
  BY HeadFirst, CleanFacts, SayFacts DEF CommitPinyin
<1>4. SlotsFit' /\ Bare' /\ state' = next /\ last_candidates_request' = None
  BY DEF SlotsFit, Bare, CommitPinyin, ClearCompositionState
<1> QED  BY <1>1, <1>2, <1>3, <1>4 DEF Fit

\* update_pinyin_action: the answer names the letters and asks for them anew when
\* they are not the ones asked for last.
LEMMA ActionFits ==
    ASSUME LettersFit, NEW buffer \in Pinyins, NEW n, NEW page, NEW sel,
           PinyinAction(buffer, n, page, sel)
    PROVE  /\ Says("UpdatePinyin") /\ Clean(out')
           /\ last_candidates_request' = buffer
           /\ candidates_in_flight' \in BOOLEAN
           /\ candidates_in_flight' =>
                candidates_in_flight \/ last_candidates_request' # last_candidates_request
<1>1. Says("UpdatePinyin")
  BY SayFacts DEF PinyinAction
<1> QED  BY <1>1, CleanFacts DEF PinyinAction, LettersFit

\* What a key call answers.
Silent ==
    /\ out' = <<>>
    /\ UNCHANGED <<state, rewrite_preview, ai_preview, pinyin_buffer>>
    /\ state = "Pinyin" => UNCHANGED <<last_candidates_request, candidates_in_flight>>
Reply ==
    \/ Silent
    \/ /\ Says("UpdatePinyin") /\ Bare /\ Bare'
       /\ state' \in {"Pinyin", "Prompt"} /\ pinyin_buffer' # <<>>
    \/ /\ Says("UpdatePrompt") \/ Says("EnterPrompt")
       /\ Bare' /\ state' \in {"PendingSlash", "Prompt"}
    \/ /\ Says("CommitImmediate") \/ Says("CommitResult") \/ Says("Cancel")
       /\ Bare' /\ state' \in {"Idle", "PendingSlash"}
    \/ /\ Says("StartCapture")
       /\ UNCHANGED <<state, rewrite_preview, ai_preview, pinyin_buffer>>
    \/ /\ Says("StartLlm") \/ Says("StartRewrite")
       /\ state \in {"Prompt", "ResultReady", "Failed"} /\ state' = "Streaming"
Asking ==
    /\ last_candidates_request' # last_candidates_request =>
        last_candidates_request' = None \/ Says("UpdatePinyin")
    /\ state' = "Pinyin" /\ candidates_in_flight' =>
        \/ /\ state = "Pinyin" /\ candidates_in_flight
           /\ UNCHANGED last_candidates_request
        \/ /\ Says("UpdatePinyin")
           /\ last_candidates_request' # last_candidates_request

\* A letter more or less: the new letters are shown and asked for.
LEMMA BufferFits ==
    ASSUME LettersFit, NEW buffer \in Pinyins, BufferTo(buffer),
           state' \in {"Pinyin", "Prompt"},
           state' = "Pinyin" => state = "Pinyin" \/ ~candidates_in_flight
    PROVE  /\ LettersFit' /\ candidates' = 0 /\ Clean(out')
           /\ Says("UpdatePinyin") /\ pinyin_buffer' # <<>> /\ Asking
<1>1. PinyinAction(buffer, 0, 0, selected_index)
  BY DEF BufferTo
<1>2. /\ Says("UpdatePinyin") /\ Clean(out')
      /\ last_candidates_request' = buffer
      /\ candidates_in_flight' \in BOOLEAN
      /\ candidates_in_flight' =>
            candidates_in_flight \/ last_candidates_request' # last_candidates_request
  BY <1>1, ActionFits
<1>3. LettersFit'
  BY <1>2, NoneApart DEF LettersFit, BufferTo, States
<1> QED  BY <1>2, <1>3, NoneApart DEF BufferTo, Asking

\* The parts of the machine that a call leaves alone still fit.
LEMMA KeptFits ==
    /\ Fit /\ UNCHANGED <<state, pinyinVars, previewVars, llmVars>> => Fit'
    /\ SlotsFit /\ UNCHANGED <<state, previewVars>> => SlotsFit'
BY DEF Fit, TextsFit, LettersFit, SlotsFit, pinyinVars, previewVars, llmVars

\* A call that is swallowed.
LEMMA QuietFits ==
    ASSUME Fit, Quiet, UNCHANGED <<state, pinyinVars, previewVars, llmVars>>
    PROVE  /\ Fit' /\ Clean(out') /\ Reply /\ Asking
           /\ SlotsFit => SlotsFit'
<1>1. out' = <<>> /\ Clean(out')
  BY SayFacts, CleanFacts
<1> QED
  BY <1>1, KeptFits DEF Reply, Silent, Asking, pinyinVars, previewVars

\* A key that waits for the candidates (deferred_intents).
LEMMA DeferFits ==
    ASSUME Fit, state = "Pinyin", NEW c \in Chars, Defer(c)
    PROVE  /\ Fit' /\ Clean(out')
           /\ SlotsFit => SlotsFit' /\ Reply /\ Asking
<1> DEFINE queue == Append(deferred_intents, c)
<1>1. queue \in Seq(Chars)
  BY DEF Fit, LettersFit
<1>2. CASE Len(queue) > MaxDeferred
  <2>1. CommitPinyin("Idle", Raw, queue)
    BY <1>2 DEF Defer
  <2>2. Raw # OcrText
    BY LetterTokens DEF Fit
  <2> HIDE DEF queue
  <2> QED  BY <1>1, <2>1, <2>2, CommitFits DEF Reply, Asking
<1>3. CASE ~(Len(queue) > MaxDeferred)
  <2>1. /\ deferred_intents' = queue
        /\ UNCHANGED <<state, pinyin_buffer, candidates, previewVars, llmVars>>
    BY <1>3 DEF Defer
  <2>2. TextsFit'
    BY <2>1 DEF Fit, TextsFit, previewVars, llmVars
  <2>3. pinyin_buffer \in Pinyins
    BY DEF Fit, LettersFit
  <2>4. \/ Quiet /\ UNCHANGED <<last_candidates_request, candidates_in_flight>>
        \/ PinyinAction(pinyin_buffer, candidates, pinyin_page, selected_index)
    BY <1>3 DEF Defer
  <2>5. \/ out' = <<>> /\ UNCHANGED <<last_candidates_request, candidates_in_flight>>
        \/ /\ Says("UpdatePinyin") /\ last_candidates_request' = pinyin_buffer
           /\ candidates_in_flight' \in BOOLEAN
           /\ candidates_in_flight' =>
                candidates_in_flight \/ last_candidates_request' # last_candidates_request
    BY <2>3, <2>4, ActionFits, SayFacts DEF Fit
  <2>6. LettersFit'
    <3> HIDE DEF queue
    <3> QED  BY <1>1, <2>1, <2>3, <2>5 DEF Fit, LettersFit
  <2>7. Clean(out')
    BY <2>5, CleanFacts
  <2>8. SlotsFit => SlotsFit' /\ Bare /\ Bare'
    BY <2>1, NoneApart DEF SlotsFit, Bare, previewVars
  <2>9. SlotsFit => Reply /\ Asking
    BY <2>1, <2>3, <2>5, <2>8, NoneApart
       DEF Reply, Silent, Asking, previewVars, Fit, LettersFit
  <2> QED  BY <2>2, <2>6, <2>7, <2>8, <2>9 DEF Fit
<1> QED  BY <1>2, <1>3

(***************************************************************************)
(* Every call of a key handler.                                            *)
(***************************************************************************)
\* What every key call keeps and answers.
Fits == /\ Fit' /\ Clean(out')
        /\ SlotsFit => SlotsFit' /\ Reply /\ Asking

\* the roles of keys
LEMMA Roles ==
    /\ \A c \in Letters : c \notin {" ", "/", "-", "=", "\t"} /\ c \notin Digits
    /\ \A c \in Suffixes \cup {"\t"} : c \in Chars
    /\ " " \in Chars /\ "/" \in Chars
    /\ \A c \in Chars : c # "ocr"
    /\ \A c \in Digits : DigitValue(c) \in Nat
<1>1. \A c \in Digits : DigitValue(c) \in Nat
  BY DEF DigitValue, Digits
<1> QED  BY KeyAssumption, <1>1 DEF Chars, Kinds

\* a key committed on its own
LEMMA KeyTexts ==
    ASSUME NEW c \in Chars
    PROVE  /\ FoldKeys(<<c>>) # <<OcrText>>
           /\ <<Key("/"), Key(c)>> # <<OcrText>>
<1>1. FoldKeys(<<c>>)[1].what = c
  BY DEF FoldKeys
<1>2. <<OcrText>>[1].what = "ocr"
  BY DEF OcrText
<1>3. <<Key("/"), Key(c)>> # <<OcrText>>
  <2>1. Len(<<Key("/"), Key(c)>>) = 2 /\ Len(<<OcrText>>) = 1
    OBVIOUS
  <2> QED  BY <2>1
<1> QED  BY <1>1, <1>2, <1>3, Roles

\* feed_char with nothing composed.
LEMMA IdleFits ==
    ASSUME Fit, state = "Idle", NEW c \in Chars, FeedIdle(c)
    PROVE  Fits
<1>0. /\ pinyin_buffer = <<>> /\ ~candidates_in_flight
      /\ UNCHANGED <<rewrite_source, rewrite_preview, ai_preview, llmVars>>
  BY DEF Fit, LettersFit, FeedIdle
<1>1. SlotsFit => Bare /\ Bare'
  BY <1>0, NoneApart DEF SlotsFit, Bare
<1>2. CASE c = "/"
  <2>1. state' = "PendingSlash" /\ Says("UpdatePrompt") /\ UNCHANGED pinyinVars
    BY <1>2, Roles, SayFacts DEF FeedIdle
  <2>2. Fit'
    BY <1>0, <2>1 DEF Fit, TextsFit, LettersFit, States, pinyinVars, llmVars
  <2> QED
    BY <1>0, <1>1, <2>1, <2>2, CleanFacts
       DEF Fits, SlotsFit, Bare, Reply, Asking, pinyinVars
<1>3. CASE c \in Letters
  <2>1. state' = "Pinyin" /\ BufferTo(<<c>>)
    BY <1>3, Roles DEF FeedIdle
  <2>2. /\ LettersFit' /\ candidates' = 0 /\ Clean(out')
        /\ Says("UpdatePinyin") /\ pinyin_buffer' # <<>> /\ Asking
    <3>1. <<c>> \in Pinyins
      BY <1>3, PinyinGrows
    <3> QED  BY <1>0, <2>1, <3>1, BufferFits DEF Fit
  <2>3. TextsFit'
    BY <1>0, <2>2 DEF Fit, TextsFit, llmVars
  <2> QED  BY <1>1, <2>1, <2>2, <2>3 DEF Fits, Fit, SlotsFit, Bare, Reply
<1>4. CASE c \notin Letters \cup {"/"}
  <2>1. /\ state' = "Idle" /\ Commit(FoldKeys(<<c>>)) /\ UNCHANGED pinyinVars
    BY <1>4 DEF FeedIdle
  <2>2. Says("CommitImmediate") /\ Clean(out')
    BY <2>1, KeyTexts, SayFacts, CleanFacts
  <2>3. Fit'
    BY <1>0, <2>1 DEF Fit, TextsFit, LettersFit, States, pinyinVars, llmVars
  <2> QED
    BY <1>0, <1>1, <2>1, <2>2, <2>3
       DEF Fits, SlotsFit, Bare, Reply, Asking, pinyinVars
<1> QED  BY <1>2, <1>3, <1>4

\* feed_char after a lone slash.
LEMMA PendingSlashFits ==
    ASSUME Fit, NEW c \in Chars, FeedPendingSlash(c)
    PROVE  Fits
<1>0. /\ state = "PendingSlash" /\ pinyin_buffer = <<>> /\ ~candidates_in_flight
      /\ UNCHANGED <<pinyinVars, previewVars, last_request, result>>
  BY DEF Fit, LettersFit, FeedPendingSlash
<1>1. SlotsFit => Bare /\ Bare'
  BY <1>0, NoneApart DEF SlotsFit, Bare, previewVars
<1>2. CASE c = "/"
  <2>1. state' = "Prompt" /\ Says("EnterPrompt") /\ prompt' = <<>>
    BY <1>2, SayFacts DEF FeedPendingSlash
  <2>2. Fit'
    BY <1>0, <2>1, TextFacts
       DEF Fit, TextsFit, LettersFit, States, pinyinVars, previewVars
  <2> QED
    BY <1>0, <1>1, <2>1, <2>2, CleanFacts
       DEF Fits, SlotsFit, Bare, Reply, Asking, pinyinVars
<1>3. CASE c # "/"
  <2>1. /\ state' = "Idle" /\ Commit(<<Key("/"), Key(c)>>) /\ UNCHANGED prompt
    BY <1>3 DEF FeedPendingSlash
  <2>2. Says("CommitImmediate") /\ Clean(out')
    BY <2>1, KeyTexts, SayFacts, CleanFacts
  <2>3. Fit'
    BY <1>0, <2>1
       DEF Fit, TextsFit, LettersFit, States, pinyinVars, previewVars
  <2> QED
    BY <1>0, <1>1, <2>1, <2>2, <2>3 DEF Fits, SlotsFit, Bare, Reply, Asking, pinyinVars
<1> QED  BY <1>2, <1>3

\* commit_pinyin_text, as an answer to a key.
LEMMA CommitReplies ==
    ASSUME Fit, NEW next \in {"Idle", "PendingSlash"}, NEW head, head # OcrText,
           NEW keys \in Seq(Chars), CommitPinyin(next, head, keys)
    PROVE  Fits
BY CommitFits DEF Fits, Reply, Asking

\* A letter typed into a composition.
LEMMA LetterFits ==
    ASSUME Fit, state \in {"Pinyin", "Prompt"}, pinyin_buffer # <<>>,
           NEW c \in Letters,
           UNCHANGED <<state, previewVars, llmVars>>,
           IF Len(pinyin_buffer) >= MaxPinyinBuffer
           THEN Quiet /\ UNCHANGED pinyinVars
           ELSE BufferTo(Append(pinyin_buffer, c))
    PROVE  Fits
<1>1. CASE Quiet /\ UNCHANGED pinyinVars
  BY <1>1, QuietFits DEF Fits
<1>2. CASE /\ ~(Len(pinyin_buffer) >= MaxPinyinBuffer)
           /\ BufferTo(Append(pinyin_buffer, c))
  <2>1. Append(pinyin_buffer, c) \in Pinyins
    <3>1. pinyin_buffer \in Pinyins /\ Len(pinyin_buffer) \in Nat
      BY PinyinFacts, LenProperties DEF Fit, LettersFit
    <3>2. MaxPinyinBuffer \in Nat
      BY MachineAssumption
    <3> QED  BY <1>2, <3>1, <3>2, PinyinGrows
  <2>2. /\ LettersFit' /\ candidates' = 0 /\ Clean(out')
        /\ Says("UpdatePinyin") /\ pinyin_buffer' # <<>> /\ Asking
    BY <1>2, <2>1, BufferFits DEF Fit
  <2>3. TextsFit'
    BY <2>2 DEF Fit, TextsFit, llmVars, previewVars
  <2>4. SlotsFit => SlotsFit' /\ Bare /\ Bare'
    BY NoneApart DEF SlotsFit, Bare, previewVars
  <2> QED  BY <2>2, <2>3, <2>4 DEF Fits, Fit, Reply
<1> QED  BY <1>1, <1>2

\* Space in a composition: a candidate, the letters, or a key that waits.
LEMMA SpaceFits ==
    ASSUME Fit, NEW rank, NEW repeated \in BOOLEAN, repeated => deferred_intents # <<>>,
           SpaceAt(rank, repeated)
    PROVE  Fits
<1>1. state = "Pinyin" /\ deferred_intents \in Seq(Chars) /\ <<>> \in Seq(Chars)
  BY EmptySeq DEF SpaceAt, Fit, LettersFit
<1>2. Raw # OcrText /\ Cand(rank) # OcrText
  BY LetterTokens DEF Fit
<1>3. CASE CommitPinyin("Idle", Cand(rank), <<>>)
  BY <1>1, <1>2, <1>3, CommitReplies
<1>4. CASE CommitPinyin("Idle", Raw, <<>>)
  BY <1>1, <1>2, <1>4, CommitReplies
<1>5. CASE Defer(" ")
  BY <1>1, <1>5, Roles, DeferFits DEF Fits
<1>6. CASE /\ repeated
           /\ CommitPinyin("Idle", Raw,
                    SubSeq(deferred_intents, 1, Len(deferred_intents) - 1))
  <2>1. SubSeq(deferred_intents, 1, Len(deferred_intents) - 1) \in Seq(Chars)
    BY <1>1, <1>6, FrontType DEF Front
  <2> QED  BY <1>2, <1>6, <2>1, CommitReplies
<1> QED  BY <1>3, <1>4, <1>5, <1>6 DEF SpaceAt

\* Every other key of a composition.
LEMMA PinyinKeyFits ==
    ASSUME Fit, NEW c \in Chars,
           \/ FeedPinyinSlash \/ FeedPinyinSpace \/ FeedPinyinLetter(c)
           \/ FeedPinyinSuffix(c) \/ FeedPinyinDigit(c)
    PROVE  Fits
<1>0. /\ <<>> \in Seq(Chars) /\ <<c>> \in Seq(Chars)
      /\ deferred_intents \in Seq(Chars)
  BY EmptySeq DEF Fit, LettersFit
<1>1. /\ FirstOrRaw(candidates) # OcrText
      /\ \A i : Cand(i) # OcrText
  BY LetterTokens DEF Fit, TextsFit
<1>2. CASE FeedPinyinSlash
  BY <1>0, <1>1, <1>2, CommitReplies DEF FeedPinyinSlash
<1>3. CASE FeedPinyinSpace
  BY <1>3, SpaceFits DEF FeedPinyinSpace, SpaceWaits
<1>4. CASE FeedPinyinLetter(c)
  <2>1. pinyin_buffer # <<>>
    BY <1>4 DEF FeedPinyinLetter, Fit, LettersFit
  <2> QED  BY <1>4, <2>1, LetterFits DEF FeedPinyinLetter
<1>5. CASE FeedPinyinSuffix(c)
  <2>1. CASE Defer(c)
    BY <1>5, <2>1, DeferFits DEF FeedPinyinSuffix, Fits
  <2>2. CASE CommitPinyin("Idle", FirstOrRaw(candidates), <<c>>)
    BY <1>0, <1>1, <2>2, CommitReplies
  <2> QED  BY <1>5, <2>1, <2>2 DEF FeedPinyinSuffix
<1>6. CASE FeedPinyinDigit(c)
  <2> DEFINE rank == pinyin_page * PageSize + DigitValue(c)
  <2>1. CASE CommitPinyin("Idle", Cand(rank), <<>>)
    BY <1>0, <1>1, <2>1, CommitReplies
  <2>2. CASE /\ Quiet
             /\ UNCHANGED <<state, pinyinVars, previewVars, llmVars, quote_open>>
    BY <2>2, QuietFits DEF Fits
  <2> QED  BY <1>6, <2>1, <2>2 DEF FeedPinyinDigit
<1> QED  BY <1>2, <1>3, <1>4, <1>5, <1>6

\* paginate.
LEMMA PageFits ==
    ASSUME Fit, NEW step, Paginate(step)
    PROVE  Fits
<1>0. /\ state = "Pinyin"
      /\ UNCHANGED <<state, pinyin_buffer, candidates, last_candidates_request,
                     candidates_in_flight, deferred_intents, previewVars, llmVars>>
  BY DEF Paginate
<1>1. Fit' /\ (SlotsFit => SlotsFit' /\ Bare /\ Bare')
  BY <1>0, NoneApart DEF Fit, TextsFit, LettersFit, SlotsFit, Bare, previewVars, llmVars
<1>2. out' = <<>> \/ Says("UpdatePinyin")
  BY SayFacts DEF Paginate
<1>3. pinyin_buffer # <<>>
  BY <1>0 DEF Fit, LettersFit
<1> QED
  BY <1>0, <1>1, <1>2, <1>3, CleanFacts
     DEF Fits, Reply, Silent, Asking, previewVars

\* feed_arrow.
LEMMA ArrowFits ==
    ASSUME Fit, NEW up \in BOOLEAN, FeedArrow(up)
    PROVE  Fits
<1>0. /\ state = "Pinyin"
      /\ UNCHANGED <<state, pinyin_buffer, candidates, deferred_intents,
                     previewVars, llmVars>>
  BY DEF FeedArrow
<1>1. pinyin_buffer \in Pinyins /\ pinyin_buffer # <<>>
  BY <1>0 DEF Fit, LettersFit
<1>2. \/ out' = <<>> /\ UNCHANGED <<last_candidates_request, candidates_in_flight>>
      \/ \E page, sel : PinyinAction(pinyin_buffer, candidates, page, sel)
  BY SayFacts DEF FeedArrow, MoveSelection
<1>3. \/ out' = <<>> /\ UNCHANGED <<last_candidates_request, candidates_in_flight>>
      \/ /\ Says("UpdatePinyin") /\ last_candidates_request' = pinyin_buffer
         /\ candidates_in_flight' \in BOOLEAN
         /\ candidates_in_flight' =>
              candidates_in_flight \/ last_candidates_request' # last_candidates_request
  BY <1>1, <1>2, ActionFits DEF Fit
<1>4. Fit'
  BY <1>0, <1>1, <1>3 DEF Fit, TextsFit, LettersFit, previewVars, llmVars
<1>5. SlotsFit => SlotsFit' /\ Bare /\ Bare'
  BY <1>0, NoneApart DEF SlotsFit, Bare, previewVars
<1>6. last_candidates_request = pinyin_buffer
  BY <1>0 DEF Fit, LettersFit
<1> QED
  BY <1>0, <1>1, <1>3, <1>4, <1>5, <1>6, CleanFacts
     DEF Fits, Reply, Silent, Asking, previewVars

\* A key that adds to the prompt.
LEMMA PromptGrowsFits ==
    ASSUME Fit, state = "Prompt", NEW text \in Texts, PromptGrows(text),
           \/ ClearCompositionState
           \/ UNCHANGED <<pinyinVars, previewVars>>
    PROVE  Fits
<1>1. /\ state' = "Prompt" /\ Says("UpdatePrompt") /\ Clean(out')
      /\ prompt' = prompt \o text /\ UNCHANGED <<last_request, result>>
  BY SayFacts, CleanFacts DEF PromptGrows
<1>2. prompt' \in Texts
  BY <1>1, TextFacts DEF Fit, TextsFit
<1>3. CASE ClearCompositionState
  <2>1. TextsFit' /\ LettersFit'
    BY <1>1, <1>2, <1>3, EmptySeq
       DEF Fit, TextsFit, LettersFit, ClearCompositionState, States
  <2>2. SlotsFit' /\ Bare'
    BY <1>1, <1>3 DEF SlotsFit, Bare, ClearCompositionState
  <2>3. Asking
    BY <1>1, <1>3 DEF Asking, ClearCompositionState
  <2> QED  BY <1>1, <2>1, <2>2, <2>3 DEF Fits, Fit, Reply
<1>4. CASE UNCHANGED <<pinyinVars, previewVars>>
  <2>1. TextsFit' /\ LettersFit'
    BY <1>1, <1>2, <1>4
       DEF Fit, TextsFit, LettersFit, pinyinVars, previewVars
  <2>2. SlotsFit => SlotsFit' /\ Bare'
    BY <1>1, <1>4, NoneApart DEF SlotsFit, Bare, previewVars
  <2>3. Asking
    BY <1>1, <1>4 DEF Asking, pinyinVars
  <2> QED  BY <1>1, <2>1, <2>2, <2>3 DEF Fits, Fit, Reply
<1> QED  BY <1>3, <1>4

\* feed_char while a prompt is composed with pinyin.
LEMMA PromptComposingFits ==
    ASSUME Fit, NEW c \in Chars, FeedPromptComposing(c)
    PROVE  Fits
<1>0. state = "Prompt" /\ pinyin_buffer # <<>>
  BY DEF FeedPromptComposing, Composing
<1>1. CASE c \in Letters
  BY <1>0, <1>1, Roles, LetterFits DEF FeedPromptComposing
<1>2. CASE c \in Digits
  <2>1. CASE PromptGrows(<<Cand(DigitValue(c))>>) /\ ClearCompositionState
    <3>1. <<Cand(DigitValue(c))>> \in Texts
      BY <1>2, LetterTokens, Roles, TextFacts DEF Fit
    <3> QED  BY <1>0, <2>1, <3>1, PromptGrowsFits
  <2>2. CASE /\ Quiet
             /\ UNCHANGED <<state, pinyinVars, previewVars, llmVars, quote_open>>
    BY <2>2, QuietFits DEF Fits
  <2> QED  BY <1>2, <2>1, <2>2, Roles DEF FeedPromptComposing
<1>3. CASE c \notin Letters \cup Digits
  <2> DEFINE text == IF c = " " THEN <<FirstOrRaw(candidates)>>
                     ELSE <<FirstOrRaw(candidates), Key(c)>>
  <2>1. PromptGrows(text) /\ ClearCompositionState
    BY <1>3 DEF FeedPromptComposing
  <2>2. text \in Texts
    <3>1. FirstOrRaw(candidates) \in Spoken /\ Key(c) \in Spoken
      BY LetterTokens, TextFacts DEF Fit, TextsFit
    <3>2. /\ <<FirstOrRaw(candidates)>> \in Texts
          /\ <<FirstOrRaw(candidates), Key(c)>> \in Texts
      BY <3>1, TextFacts
    <3> QED  BY <3>2
  <2> HIDE DEF text
  <2> QED  BY <1>0, <2>1, <2>2, PromptGrowsFits
<1> QED  BY <1>1, <1>2, <1>3

\* what Enter and Tab send from an empty composition
LEMMA SendFits ==
    ASSUME Fit, state = "Prompt", pinyin_buffer = <<>>,
           NEW name \in {"StartLlm", "StartRewrite"}, NEW text,
           StartPhase([act |-> name, text |-> text]),
           prompt' = <<>>,
           rewrite_source' \in Texts \cup {None},
           last_request' \in [prompt : Texts, rewrite_source : Texts \cup {None}],
           UNCHANGED <<pinyinVars, rewrite_preview>>
    PROVE  Fits
<1>1. /\ state' = "Streaming" /\ result' = 0 /\ ai_preview' = "Streaming"
      /\ Says(name) /\ Clean(out')
  BY SayFacts, CleanFacts DEF StartPhase
<1>2. TextsFit'
  BY <1>1, TextFacts DEF Fit, TextsFit, pinyinVars
<1>3. LettersFit'
  BY <1>1 DEF Fit, LettersFit, pinyinVars, States
<1>4. SlotsFit => SlotsFit'
  BY <1>1, NoneApart DEF SlotsFit
<1>5. Reply /\ Asking
  BY <1>1 DEF Reply, Asking, pinyinVars
<1> QED  BY <1>1, <1>2, <1>3, <1>4, <1>5 DEF Fits, Fit

\* feed_char in a prompt, with no letters.
LEMMA PromptPlainFits ==
    ASSUME Fit, NEW c \in Chars, FeedPromptPlain(c)
    PROVE  Fits
<1>0. state = "Prompt" /\ pinyin_buffer = <<>>
  BY DEF FeedPromptPlain, Composing
<1>1. CASE c \in Letters
  <2>1. BufferTo(<<c>>) /\ UNCHANGED <<state, previewVars, llmVars>>
    BY <1>1, Roles DEF FeedPromptPlain
  <2>2. <<c>> \in Pinyins
    BY <1>1, PinyinGrows
  <2>3. /\ LettersFit' /\ candidates' = 0 /\ Clean(out')
        /\ Says("UpdatePinyin") /\ pinyin_buffer' # <<>> /\ Asking
    BY <1>0, <2>1, <2>2, BufferFits DEF Fit
  <2>4. TextsFit'
    BY <2>1, <2>3 DEF Fit, TextsFit, llmVars, previewVars
  <2>5. SlotsFit => SlotsFit' /\ Bare /\ Bare'
    BY <1>0, <2>1, NoneApart DEF SlotsFit, Bare, previewVars
  <2> QED  BY <1>0, <2>1, <2>3, <2>4, <2>5 DEF Fits, Fit, Reply
<1>2. CASE c \notin Letters \cup {"\t"}
  <2>1. <<Key(c)>> \in Texts
    BY TextFacts
  <2> QED  BY <1>0, <1>2, <2>1, PromptGrowsFits DEF FeedPromptPlain
<1>3. CASE c = "\t" /\ prompt = <<>>
  <2>1. /\ Says("StartCapture")
        /\ UNCHANGED <<state, pinyinVars, previewVars, llmVars>>
    BY <1>3, Roles, SayFacts DEF FeedPromptPlain
  <2>2. Fit' /\ (SlotsFit => SlotsFit') /\ Clean(out')
    BY <2>1, KeptFits, CleanFacts
  <2> QED
    BY <1>0, <2>1, <2>2 DEF Fits, Reply, Asking, pinyinVars, previewVars
<1>4. CASE c = "\t" /\ prompt # <<>>
  <2>1. /\ StartPhase([act |-> "StartRewrite", text |-> prompt])
        /\ prompt' = <<>> /\ rewrite_source' = prompt
        /\ last_request' = [prompt |-> prompt, rewrite_source |-> prompt]
        /\ UNCHANGED <<pinyinVars, rewrite_preview>>
    BY <1>4, Roles DEF FeedPromptPlain
  <2>2. prompt \in Texts
    BY DEF Fit, TextsFit
  <2> QED  BY <1>0, <2>1, <2>2, SendFits
<1> QED  BY <1>1, <1>2, <1>3, <1>4

\* confirm_result: the stream or the result is committed.
LEMMA ConfirmFits ==
    ASSUME Fit, state \in {"Streaming", "ResultReady"}, ConfirmResult
    PROVE  Fits
<1>0. pinyin_buffer = <<>> /\ UNCHANGED <<pinyinVars, prompt, last_request>>
  BY DEF Fit, LettersFit, ConfirmResult
<1>1. CASE result = 0
  <2>1. out' = <<>> /\ UNCHANGED <<state, rewrite_source, rewrite_preview, ai_preview, result>>
    BY <1>1, SayFacts DEF ConfirmResult
  <2>2. Fit' /\ (SlotsFit => SlotsFit')
    BY <1>0, <2>1 DEF Fit, TextsFit, LettersFit, SlotsFit, pinyinVars
  <2> QED
    BY <1>0, <2>1, <2>2, CleanFacts DEF Fits, Reply, Silent, Asking, pinyinVars
<1>2. CASE result # 0
  <2>1. /\ state' = "Idle" /\ result' = 0 /\ rewrite_source' = None
        /\ rewrite_preview' = None /\ ai_preview' = None
        /\ Says("CommitResult")
    BY <1>2, SayFacts DEF ConfirmResult
  <2>2. TextsFit' /\ LettersFit' /\ SlotsFit' /\ Bare'
    BY <1>0, <2>1 DEF Fit, TextsFit, LettersFit, SlotsFit, Bare, pinyinVars, States
  <2> QED
    BY <1>0, <2>1, <2>2, CleanFacts DEF Fits, Fit, Reply, Asking, pinyinVars
<1> QED  BY <1>1, <1>2

\* retry_last_llm: the last request is sent again.
LEMMA RetryFits ==
    ASSUME Fit, state \in {"ResultReady", "Failed"}, RetryLastLlm
    PROVE  Fits
<1>0. pinyin_buffer = <<>> /\ UNCHANGED <<pinyinVars, prompt, last_request>>
  BY DEF Fit, LettersFit, RetryLastLlm
<1>1. CASE last_request = None
  <2>1. out' = <<>> /\ UNCHANGED <<state, rewrite_source, rewrite_preview, ai_preview, result>>
    BY <1>1, SayFacts DEF RetryLastLlm
  <2>2. Fit' /\ (SlotsFit => SlotsFit')
    BY <1>0, <2>1 DEF Fit, TextsFit, LettersFit, SlotsFit, pinyinVars
  <2> QED
    BY <1>0, <2>1, <2>2, CleanFacts DEF Fits, Reply, Silent, Asking, pinyinVars
<1>2. CASE last_request # None
  <2>1. /\ state' = "Streaming" /\ result' = 0 /\ ai_preview' = "Streaming"
        /\ Says("StartLlm") \/ Says("StartRewrite")
        /\ rewrite_preview' = None
        /\ rewrite_source' \in {rewrite_source, last_request.rewrite_source}
    BY <1>2, SayFacts DEF RetryLastLlm, StartPhase
  <2>2. last_request.rewrite_source \in Texts \cup {None}
    BY <1>2 DEF Fit, TextsFit
  <2>3. TextsFit' /\ LettersFit' /\ SlotsFit'
    BY <1>0, <2>1, <2>2, NoneApart
       DEF Fit, TextsFit, LettersFit, SlotsFit, pinyinVars, States
  <2> QED
    BY <1>0, <2>1, <2>3, CleanFacts DEF Fits, Fit, Reply, Asking, pinyinVars
<1> QED  BY <1>1, <1>2

\* feed_ai_preview: the keys of the result overlay.
LEMMA AiKeyFits ==
    ASSUME Fit, NEW key_, FeedAiPreview(key_)
    PROVE  Fits
<1>0. state \in {"ResultReady", "Failed"} /\ pinyin_buffer = <<>>
  BY DEF FeedAiPreview, Fit, LettersFit
<1>1. CASE state = "ResultReady" /\ ConfirmResult
  BY <1>1, ConfirmFits
<1>2. CASE RetryLastLlm
  BY <1>0, <1>2, RetryFits
<1>3. CASE EditLastPrompt
  <2>1. /\ state' = "Prompt" /\ result' = 0 /\ rewrite_source' = None
        /\ rewrite_preview' = None /\ ai_preview' = None /\ last_request' = None
        /\ prompt' = IF last_request = None THEN prompt ELSE last_request.prompt
        /\ Says("UpdatePrompt") /\ UNCHANGED pinyinVars
    BY <1>3, SayFacts DEF EditLastPrompt
  <2>2. prompt' \in Texts
    BY <2>1 DEF Fit, TextsFit
  <2>3. TextsFit' /\ LettersFit' /\ SlotsFit' /\ Bare'
    BY <1>0, <2>1, <2>2
       DEF Fit, TextsFit, LettersFit, SlotsFit, Bare, pinyinVars, States
  <2> QED
    BY <1>0, <2>1, <2>3, CleanFacts DEF Fits, Fit, Reply, Asking, pinyinVars
<1>4. CASE /\ Quiet
           /\ UNCHANGED <<state, pinyinVars, previewVars, llmVars, quote_open>>
  BY <1>4, QuietFits DEF Fits
<1> QED  BY <1>0, <1>1, <1>2, <1>3, <1>4 DEF FeedAiPreview

\* feed_char, in every state but a preview.
LEMMA CharFits ==
    ASSUME Fit, state # "OcrPreviewing", NEW c \in Chars, FeedChar(c)
    PROVE  Fits
<1>1. CASE FeedIdle(c)
  BY <1>1, IdleFits DEF FeedIdle
<1>2. CASE FeedStreaming(c)
  BY <1>2, ConfirmFits, QuietFits DEF FeedStreaming, Fits
<1>3. CASE \/ FeedPinyinSlash \/ FeedPinyinSpace \/ FeedPinyinLetter(c)
           \/ FeedPinyinSuffix(c) \/ FeedPinyinDigit(c)
  BY <1>3, PinyinKeyFits
<1>4. CASE Paginate(-1) \/ Paginate(1)
  BY <1>4, PageFits
<1>5. CASE FeedPendingSlash(c)
  BY <1>5, PendingSlashFits
<1>6. CASE FeedPromptComposing(c) \/ FeedPromptPlain(c)
  BY <1>6, PromptComposingFits, PromptPlainFits
<1>7. CASE FeedAiPreview(AiKey(c))
  BY <1>7, AiKeyFits
<1> QED  BY <1>1, <1>2, <1>3, <1>4, <1>5, <1>6, <1>7 DEF FeedChar

\* leaving a state with nothing said but a name, the letters cleared or kept
LEMMA LeaveFits ==
    ASSUME Fit, NEW next, NEW name, LeaveTo(next, name),
           \/ name = "Cancel" /\ next = "Idle"
           \/ name = "UpdatePrompt" /\ next = "Prompt",
           state \in {"PendingSlash", "Pinyin", "Prompt"},
           prompt' \in Texts, UNCHANGED <<last_request, result>>,
           \/ ClearCompositionState
           \/ pinyin_buffer = <<>> /\ UNCHANGED <<pinyinVars, previewVars>>
    PROVE  Fits
<1>1. state' = next /\ Says(name) /\ Clean(out')
  BY SayFacts, CleanFacts DEF LeaveTo
<1>2. CASE ClearCompositionState
  <2>1. TextsFit' /\ LettersFit' /\ SlotsFit' /\ Bare'
    BY <1>1, <1>2, EmptySeq
       DEF Fit, TextsFit, LettersFit, SlotsFit, Bare, ClearCompositionState, States
  <2> QED
    BY <1>1, <1>2, <2>1 DEF Fits, Fit, Reply, Asking, ClearCompositionState
<1>3. CASE pinyin_buffer = <<>> /\ UNCHANGED <<pinyinVars, previewVars>>
  <2>1. TextsFit' /\ LettersFit'
    BY <1>1, <1>3
       DEF Fit, TextsFit, LettersFit, pinyinVars, previewVars, States
  <2>2. SlotsFit => SlotsFit' /\ Bare'
    BY <1>1, <1>3, NoneApart DEF SlotsFit, Bare, previewVars
  <2> QED
    BY <1>1, <1>3, <2>1, <2>2 DEF Fits, Fit, Reply, Asking, pinyinVars
<1> QED  BY <1>2, <1>3

\* feed_backspace.
LEMMA BackspaceFits ==
    ASSUME Fit, state # "OcrPreviewing", FeedBackspace
    PROVE  Fits
<1>0. prompt \in Texts /\ (pinyin_buffer # <<>> => pinyin_buffer \in Pinyins)
  BY DEF Fit, TextsFit, LettersFit
<1>1. CASE NoAction
  BY <1>1, QuietFits DEF NoAction, Fits
<1>2. CASE /\ state = "PendingSlash" /\ LeaveTo("Idle", "Cancel")
           /\ UNCHANGED <<pinyinVars, previewVars, llmVars>>
  BY <1>0, <1>2, LeaveFits DEF Fit, LettersFit, llmVars
<1>3. CASE /\ state = "Pinyin" /\ Len(pinyin_buffer) > 1
           /\ BufferTo(Front(pinyin_buffer))
           /\ UNCHANGED <<state, previewVars, llmVars, quote_open>>
  <2>1. pinyin_buffer # <<>>
    BY <1>3 DEF Fit, LettersFit
  <2>2. Front(pinyin_buffer) \in Pinyins
    BY <1>0, <1>3, <2>1, PinyinGrows
  <2>3. /\ LettersFit' /\ candidates' = 0 /\ Clean(out')
        /\ Says("UpdatePinyin") /\ pinyin_buffer' # <<>> /\ Asking
    BY <1>3, <2>2, BufferFits DEF Fit
  <2>4. TextsFit'
    BY <1>3, <2>3 DEF Fit, TextsFit, llmVars, previewVars
  <2>5. SlotsFit => SlotsFit' /\ Bare /\ Bare'
    BY <1>3, NoneApart DEF SlotsFit, Bare, previewVars
  <2> QED  BY <1>3, <2>3, <2>4, <2>5 DEF Fits, Fit, Reply
<1>4. CASE /\ state \in {"Pinyin", "Prompt"} /\ ClearCompositionState
           /\ \/ state = "Pinyin" /\ LeaveTo("Idle", "Cancel")
              \/ state = "Prompt" /\ LeaveTo("Prompt", "UpdatePrompt")
           /\ UNCHANGED llmVars
  BY <1>0, <1>4, LeaveFits DEF llmVars
<1>5. CASE /\ state = "Prompt" /\ Len(pinyin_buffer) > 1
           /\ pinyin_buffer' = Front(pinyin_buffer)
           /\ candidates' = 0
           /\ LeaveTo("Prompt", "UpdatePrompt")
           /\ UNCHANGED <<last_candidates_request, candidates_in_flight,
                          deferred_intents, previewVars, llmVars>>
  <2>1. pinyin_buffer # <<>>
    BY <1>5, EmptySeq
  <2>2. Front(pinyin_buffer) \in Pinyins
    BY <1>0, <1>5, <2>1, PinyinGrows
  <2>3. state' = "Prompt" /\ Says("UpdatePrompt") /\ Clean(out')
    BY <1>5, SayFacts, CleanFacts DEF LeaveTo
  <2>4. TextsFit' /\ LettersFit'
    BY <1>5, <2>2, <2>3, NoneApart
       DEF Fit, TextsFit, LettersFit, llmVars, previewVars, States
  <2>5. SlotsFit => SlotsFit' /\ Bare'
    BY <1>5, <2>3, NoneApart DEF SlotsFit, Bare, previewVars
  <2> QED  BY <1>5, <2>3, <2>4, <2>5 DEF Fits, Fit, Reply, Asking
<1>6. CASE /\ state = "Prompt" /\ pinyin_buffer = <<>>
           /\ \/ /\ prompt # <<>> /\ prompt' = Front(prompt)
                 /\ LeaveTo("Prompt", "UpdatePrompt")
              \/ LeaveTo("Idle", "Cancel") /\ UNCHANGED prompt
           /\ UNCHANGED <<pinyinVars, previewVars, last_request, result>>
  <2>1. prompt # <<>> => Front(prompt) \in Texts
    BY <1>0, FrontType DEF Texts
  <2>2. prompt' \in Texts
    BY <1>0, <1>6, <2>1
  <2> QED  BY <1>6, <2>2, LeaveFits
<1>7. CASE FeedAiPreview("Edit")
  BY <1>7, AiKeyFits
<1> QED
  BY <1>1, <1>2, <1>3, <1>4, <1>5, <1>6, <1>7
     DEF FeedBackspace, EndOcrPreview, Composing, llmVars

\* feed_enter.
LEMMA EnterFits ==
    ASSUME Fit, state # "OcrPreviewing", FeedEnter
    PROVE  Fits
<1>1. CASE NoAction
  BY <1>1, QuietFits DEF NoAction, Fits
<1>2. CASE CommitPinyin("Idle", Raw, <<>>)
  BY <1>2, EmptySeq, LetterTokens, CommitReplies DEF Fit
<1>3. CASE state = "Prompt" /\ PromptGrows(<<Raw>>) /\ ClearCompositionState
  <2>1. <<Raw>> \in Texts
    BY LetterTokens, TextFacts DEF Fit
  <2> QED  BY <1>3, <2>1, PromptGrowsFits
<1>4. CASE /\ state = "Prompt" /\ pinyin_buffer = <<>>
           /\ StartPhase([act |-> "StartLlm", text |-> prompt])
           /\ prompt' = <<>>
           /\ last_request' = [prompt |-> prompt, rewrite_source |-> None]
           /\ UNCHANGED <<pinyinVars, ocr_preview, rewrite_source, rewrite_preview,
                          quote_open>>
  <2>1. prompt \in Texts /\ rewrite_source' \in Texts \cup {None}
    BY <1>4 DEF Fit, TextsFit
  <2> QED  BY <1>4, <2>1, SendFits
<1>5. CASE state \in {"Streaming", "ResultReady"} /\ ConfirmResult
  BY <1>5, ConfirmFits
<1>6. CASE state = "Failed" /\ RetryLastLlm
  BY <1>6, RetryFits
<1> QED
  BY <1>1, <1>2, <1>3, <1>4, <1>5, <1>6
     DEF FeedEnter, EndOcrPreview, Composing

\* feed_escape.
LEMMA EscapeFits ==
    ASSUME Fit, FeedEscape
    PROVE  Fits /\ SlotsFit' /\ Bare' /\ state' = "Idle"
<1>0. ClearCompositionState /\ UNCHANGED last_request
  BY DEF FeedEscape
<1>1. \/ state = "Idle" /\ out' = <<>> /\ UNCHANGED <<state, prompt, result>>
      \/ state' = "Idle" /\ prompt' = <<>> /\ result' = 0 /\ Says("Cancel")
  BY SayFacts DEF FeedEscape
<1>2. TextsFit' /\ LettersFit' /\ SlotsFit' /\ Bare' /\ state' = "Idle"
  <2>1. state' = "Idle" /\ prompt' \in Texts /\ result' \in Nat
    BY <1>1, TextFacts DEF Fit, TextsFit
  <2>2. TextsFit'
    BY <1>0, <2>1 DEF Fit, TextsFit, ClearCompositionState
  <2>3. LettersFit'
    BY <1>0, <2>1, EmptySeq DEF LettersFit, ClearCompositionState, States
  <2> QED
    BY <1>0, <2>1, <2>2, <2>3 DEF SlotsFit, Bare, ClearCompositionState
<1>3. Clean(out')
  BY <1>1, CleanFacts
<1>4. SlotsFit => Reply
  <2>1. CASE state = "Idle" /\ out' = <<>>
    BY <1>0, <1>2, <2>1, NoneApart
       DEF Reply, Silent, SlotsFit, Bare, Fit, LettersFit, ClearCompositionState
  <2> QED  BY <1>1, <1>2, <2>1 DEF Reply
<1>5. Asking
  BY <1>0, <1>2 DEF Asking, ClearCompositionState
<1> QED  BY <1>2, <1>3, <1>4, <1>5 DEF Fits, Fit

(***************************************************************************)
(* The calls of the preview, the comparison, the streams and the candidates.*)
(***************************************************************************)
\* The keys of a preview, its deadline and its end: idle afterwards.
LEMMA OcrFits ==
    ASSUME Fit,
           \/ EndOcrPreview
           \/ \E k \in {"Confirm", "Escape"} : FeedOcrPreview(k)
    PROVE  /\ Fit' /\ (SlotsFit => SlotsFit' /\ Bare')
           /\ state = "OcrPreviewing" /\ state' = "Idle"
           /\ UNCHANGED <<pinyinVars, ai_preview, rewrite_preview>>
           /\ EndOcrPreview => out' = <<>>
           /\ out' = <<>> \/ Says("CommitImmediate") \/ Says("Cancel")
<1>1. /\ state = "OcrPreviewing" /\ state' = "Idle"
      /\ UNCHANGED <<pinyinVars, rewrite_source, ai_preview, rewrite_preview, llmVars>>
  BY DEF EndOcrPreview, FeedOcrPreview
<1>2. /\ EndOcrPreview => out' = <<>>
      /\ out' = <<>> \/ Says("CommitImmediate") \/ Says("Cancel")
  BY SayFacts DEF EndOcrPreview, FeedOcrPreview
<1>3. Fit'
  BY <1>1 DEF Fit, TextsFit, LettersFit, pinyinVars, llmVars, States
<1>4. SlotsFit => SlotsFit' /\ Bare'
  BY <1>1, NoneApart DEF SlotsFit, Bare
<1> QED  BY <1>1, <1>2, <1>3, <1>4

\* begin_ocr_preview: a preview where the machine takes one, else nothing.
LEMMA BeginOcrFits ==
    ASSUME Fit, BeginOcrPreview(<<OcrText>>)
    PROVE  /\ Fit' /\ (SlotsFit => SlotsFit') /\ Clean(out')
           /\ UNCHANGED <<pinyinVars, ai_preview>>
           /\ state' = IF state \in {"Idle", "OcrPreviewing"} THEN "OcrPreviewing"
                       ELSE state
           /\ SlotsFit => UNCHANGED rewrite_preview
<1>0. <<OcrText>> # <<>>
  OBVIOUS
<1>1. /\ UNCHANGED <<pinyinVars, rewrite_source, ai_preview, llmVars>>
      /\ \/ /\ state \in {"Idle", "OcrPreviewing"} /\ state' = "OcrPreviewing"
            /\ rewrite_preview' = None /\ Says("OcrPreview")
         \/ /\ state \notin {"Idle", "OcrPreviewing"} /\ out' = <<>>
            /\ UNCHANGED <<state, rewrite_preview>>
  BY <1>0, SayFacts DEF BeginOcrPreview
<1>2. TextsFit'
  BY <1>1 DEF Fit, TextsFit, llmVars, pinyinVars
<1>3. LettersFit'
  BY <1>1 DEF Fit, LettersFit, pinyinVars, States
<1>4. SlotsFit => SlotsFit' /\ UNCHANGED rewrite_preview
  BY <1>1, NoneApart DEF SlotsFit
<1> QED  BY <1>1, <1>2, <1>3, <1>4, CleanFacts DEF Fit

\* begin_rewrite_preview: the comparison takes the place of the result.
LEMMA BeginRewriteFits ==
    ASSUME Fit, NEW rewritten \in Nat, NEW source \in Texts,
           BeginRewritePreview(rewritten, source)
    PROVE  /\ Fit' /\ (SlotsFit => SlotsFit') /\ out' = <<>>
           /\ UNCHANGED <<state, pinyinVars>>
           /\ state = "ResultReady" => rewrite_preview' # None
           /\ state # "ResultReady" => UNCHANGED <<rewrite_preview, ai_preview>>
<1>1. /\ UNCHANGED <<state, pinyinVars, rewrite_source, llmVars>> /\ out' = <<>>
      /\ IF state = "ResultReady"
         THEN /\ rewrite_preview' = [rewritten |-> rewritten, source |-> source]
              /\ ai_preview' = None
         ELSE UNCHANGED <<rewrite_preview, ai_preview>>
  BY SayFacts DEF BeginRewritePreview
<1>2. [rewritten |-> rewritten, source |-> source] # None
  BY NoneApart
<1>3. TextsFit'
  BY <1>1 DEF Fit, TextsFit, llmVars, pinyinVars
<1>4. LettersFit'
  BY <1>1 DEF Fit, LettersFit, pinyinVars
<1>5. SlotsFit => SlotsFit'
  BY <1>1, <1>2, NoneApart DEF SlotsFit
<1> QED  BY <1>1, <1>2, <1>3, <1>4, <1>5 DEF Fit

\* The result of a stream is no recognised text.
LEMMA ResultClean == \A n : ResultText(n) # <<OcrText>>
<1> TAKE n
<1>1. CASE n = 0
  BY <1>1 DEF ResultText
<1>2. CASE n # 0
  <2>1. ResultText(n)[1].what = "result"
    BY <1>2 DEF ResultText
  <2>2. <<OcrText>>[1].what = "ocr"
    BY DEF OcrText
  <2> QED  BY <2>1, <2>2
<1> QED  BY <1>1, <1>2

\* feed_rewrite_preview: one of the two texts is committed, or none.
LEMMA RewriteKeyFits ==
    ASSUME Fit, NEW k, FeedRewritePreview(k)
    PROVE  /\ Fit' /\ (SlotsFit => SlotsFit' /\ Bare') /\ Clean(out')
           /\ state = "ResultReady" /\ state' = "Idle"
           /\ UNCHANGED pinyinVars
           /\ Says("CommitImmediate") \/ Says("Cancel")
<1>1. /\ state = "ResultReady" /\ rewrite_preview # None
      /\ state' = "Idle" /\ rewrite_preview' = None /\ result' = 0
      /\ UNCHANGED <<pinyinVars, rewrite_source, ai_preview, prompt, last_request>>
  BY DEF FeedRewritePreview, RewritePreviewing
<1>2. rewrite_preview.source # <<OcrText>>
  BY <1>1, TextFacts DEF Fit, TextsFit
<1>3. Says("CommitImmediate") \/ Says("Cancel")
  BY SayFacts DEF FeedRewritePreview
<1>4. Clean(out')
  <2>1. CASE Tell("Cancel")
    BY <2>1, SayFacts, CleanFacts
  <2>2. CASE Commit(ResultText(rewrite_preview.rewritten))
    BY <2>2, ResultClean, CleanFacts
  <2>3. CASE Commit(rewrite_preview.source)
    BY <1>2, <2>3, CleanFacts
  <2> QED  BY <2>1, <2>2, <2>3 DEF FeedRewritePreview
<1>5. TextsFit' /\ LettersFit'
  BY <1>1 DEF Fit, TextsFit, LettersFit, pinyinVars, States
<1>6. SlotsFit => SlotsFit' /\ Bare'
  BY <1>1, NoneApart DEF SlotsFit, Bare
<1> QED  BY <1>1, <1>3, <1>4, <1>5, <1>6 DEF Fit

\* on_llm_chunk: drawn while the stream is waited for, else dropped.
LEMMA ChunkFits ==
    ASSUME Fit, OnLlmChunk
    PROVE  /\ Fit' /\ (SlotsFit => SlotsFit') /\ Clean(out')
           /\ UNCHANGED <<state, pinyinVars, ai_preview, rewrite_preview>>
           /\ \/ state = "Streaming" /\ Says("UpdateResult")
              \/ state # "Streaming" /\ out' = <<>>
<1>1. /\ UNCHANGED <<state, pinyinVars, previewVars, prompt, last_request>>
      /\ result' \in {result, result + 1}
      /\ \/ state = "Streaming" /\ Says("UpdateResult")
         \/ state # "Streaming" /\ out' = <<>>
  BY SayFacts DEF OnLlmChunk, Ignored
<1>2. TextsFit' /\ LettersFit'
  BY <1>1 DEF Fit, TextsFit, LettersFit, pinyinVars, previewVars
<1>3. SlotsFit => SlotsFit'
  BY <1>1 DEF SlotsFit, previewVars
<1> QED  BY <1>1, <1>2, <1>3, CleanFacts DEF Fit, previewVars

\* on_llm_done: the result is ready, or is to be compared.
LEMMA DoneFits ==
    ASSUME Fit, OnLlmDone
    PROVE  /\ Fit' /\ (SlotsFit => SlotsFit') /\ Clean(out')
           /\ UNCHANGED pinyinVars
           /\ \/ /\ state = "Streaming" /\ state' = "ResultReady"
                 /\ SlotsFit => ai_preview' = "Ready"
                 /\ \/ Says("ResultReady")
                    \/ /\ Says("RewriteReady")
                       /\ out'[1].rewritten \in Nat /\ out'[1].source \in Texts
              \/ /\ state # "Streaming" /\ out' = <<>>
                 /\ UNCHANGED <<state, ai_preview, rewrite_preview>>
<1>0. UNCHANGED <<pinyinVars, prompt, last_request>>
  BY DEF OnLlmDone
<1>1. CASE state = "Streaming"
  <2>1. /\ state' = "ResultReady" /\ rewrite_source' = None
        /\ ai_preview' = IF ai_preview = None THEN None ELSE "Ready"
        /\ UNCHANGED <<rewrite_preview, result>>
    BY <1>1 DEF OnLlmDone
  <2>2. \/ Says("ResultReady")
        \/ /\ Says("RewriteReady")
           /\ out'[1].rewritten \in Nat /\ out'[1].source \in Texts
    <3>1. CASE rewrite_source = None
      <4>1. out' = <<[act |-> "ResultReady", rewritten |-> result]>>
        BY <1>1, <3>1 DEF OnLlmDone, Emit
      <4> QED  BY <4>1 DEF Says
    <3>2. CASE rewrite_source # None
      <4>1. out' = <<[act |-> "RewriteReady", rewritten |-> result,
                      source |-> rewrite_source]>>
        BY <1>1, <3>2 DEF OnLlmDone, Emit
      <4> QED  BY <3>2, <4>1 DEF Says, Fit, TextsFit
    <3> QED  BY <3>1, <3>2
  <2>3. TextsFit'
    BY <1>0, <2>1 DEF Fit, TextsFit, pinyinVars
  <2>4. LettersFit'
    BY <1>0, <1>1, <2>1 DEF Fit, LettersFit, pinyinVars, States
  <2>5. SlotsFit => SlotsFit' /\ ai_preview' = "Ready"
    BY <1>1, <2>1, NoneApart DEF SlotsFit
  <2> QED  BY <1>0, <1>1, <2>1, <2>2, <2>3, <2>4, <2>5, CleanFacts DEF Fit
<1>2. CASE state # "Streaming"
  <2>1. /\ out' = <<>> /\ UNCHANGED <<state, previewVars, result>>
    BY <1>2, SayFacts DEF OnLlmDone, Ignored
  <2>2. Fit' /\ (SlotsFit => SlotsFit')
    BY <1>0, <2>1, KeptFits DEF llmVars
  <2> QED  BY <1>0, <1>2, <2>1, <2>2, CleanFacts DEF previewVars
<1> QED  BY <1>1, <1>2

\* on_llm_error: the stream has failed.
LEMMA ErrorFits ==
    ASSUME Fit, OnLlmError
    PROVE  /\ Fit' /\ Clean(out')
           /\ SlotsFit => SlotsFit'
           /\ UNCHANGED pinyinVars
           /\ \/ /\ state = "Streaming" /\ state' = "Failed" /\ Says("LlmFailed")
                 /\ SlotsFit => ai_preview' = "Failed"
              \/ /\ state \in {"ResultReady", "Failed"} /\ state' = "Failed"
                 /\ out' = <<>> \/ Says("LlmFailed")
              \/ /\ state \notin {"Streaming", "ResultReady", "Failed"} /\ out' = <<>>
                 /\ UNCHANGED <<state, ai_preview>>
                 /\ SlotsFit => UNCHANGED rewrite_preview
<1>1. /\ UNCHANGED <<pinyinVars, llmVars>>
      /\ rewrite_source' = None /\ rewrite_preview' = None
  BY DEF OnLlmError
<1>2. CASE state \in {"Streaming", "ResultReady", "Failed"}
  <2>1. /\ state' = "Failed"
        /\ ai_preview' = IF ai_preview = None THEN None ELSE "Failed"
        /\ IF state = "ResultReady" THEN out' = <<>> ELSE Says("LlmFailed")
    BY <1>2, SayFacts DEF OnLlmError
  <2>2. Fit'
    BY <1>1, <1>2, <2>1
       DEF Fit, TextsFit, LettersFit, pinyinVars, llmVars, States
  <2>3. SlotsFit => SlotsFit' /\ (state = "Streaming" => ai_preview' = "Failed")
    BY <1>1, <2>1, NoneApart DEF SlotsFit
  <2>4. Clean(out')
    BY <2>1, CleanFacts
  <2> QED  BY <1>1, <1>2, <2>1, <2>2, <2>3, <2>4
<1>3. CASE state \notin {"Streaming", "ResultReady", "Failed"}
  <2>1. out' = <<>> /\ UNCHANGED <<state, ai_preview>>
    BY <1>3, SayFacts DEF OnLlmError
  <2>2. Fit'
    BY <1>1, <2>1 DEF Fit, TextsFit, LettersFit, pinyinVars, llmVars
  <2>3. SlotsFit => SlotsFit' /\ UNCHANGED rewrite_preview
    BY <1>1, <1>3, <2>1, NoneApart DEF SlotsFit
  <2> QED  BY <1>1, <1>3, <2>1, <2>2, <2>3, CleanFacts
<1> QED  BY <1>2, <1>3

\* on_llm_candidates: the list grows, or the waiting keys run and commit.  What
\* it leaves waiting is another pinyin's answer.
LEMMA AnswerFits ==
    ASSUME Fit, NEW p \in Pinyins, NEW n \in Nat, OnLlmCandidates(p, n, TRUE)
    PROVE  /\ Fit' /\ (SlotsFit => SlotsFit') /\ Clean(out')
           /\ \/ /\ out' = <<>> \/ (Says("UpdatePinyin") /\ pinyin_buffer # <<>>)
                 /\ UNCHANGED <<state, pinyin_buffer, ai_preview, rewrite_preview>>
              \/ /\ Says("CommitImmediate") /\ state' = "Idle" /\ Bare'
                 /\ pinyin_buffer # <<>>
           /\ state' = "Pinyin" /\ candidates_in_flight' =>
                /\ state = "Pinyin" /\ candidates_in_flight /\ p # pinyin_buffer
                /\ UNCHANGED last_candidates_request
<1> DEFINE count == IF n > candidates THEN n ELSE candidates
<1>0. count \in Nat
  BY DEF Fit, TextsFit
<1>1. CASE p # pinyin_buffer
  <2>1. /\ out' = <<>>
        /\ UNCHANGED <<state, pinyinVars, previewVars, llmVars>>
    BY <1>1, SayFacts DEF OnLlmCandidates
  <2> QED
    BY <1>1, <2>1, KeptFits, CleanFacts DEF pinyinVars, previewVars
<1>2. CASE p = pinyin_buffer /\ deferred_intents = <<>>
  <2>1. /\ candidates' = count /\ candidates_in_flight' = FALSE
        /\ UNCHANGED <<state, pinyin_buffer, last_candidates_request,
                       deferred_intents, previewVars, llmVars>>
        /\ out' = <<>> \/ Says("UpdatePinyin")
    BY <1>2, SayFacts DEF OnLlmCandidates
  <2>2. Fit' /\ (SlotsFit => SlotsFit')
    <3> HIDE DEF count
    <3> QED
      BY <1>0, <2>1 DEF Fit, TextsFit, LettersFit, SlotsFit, previewVars, llmVars
  <2> QED
    BY <1>2, <2>1, <2>2, NoneApart, CleanFacts DEF previewVars
<1>3. CASE p = pinyin_buffer /\ deferred_intents # <<>>
  <2> DEFINE held == count = 0 /\ Head(deferred_intents) = " "
             rest == IF held THEN Tail(deferred_intents) ELSE deferred_intents
  <2>0. rest \in Seq(Chars) /\ DropSpace(rest) \in Seq(Chars)
    <3>1. deferred_intents \in Seq(Chars)
      BY DEF Fit, LettersFit
    <3>2. rest \in Seq(Chars)
      BY <1>3, <3>1, HeadTailProperties
    <3> HIDE DEF rest
    <3> QED  BY <3>2, HeadTailProperties DEF DropSpace
  <2>1. ReplayDeferredIntents(count)
    BY <1>3 DEF OnLlmCandidates
  <2>2. CASE CommitPinyin("Idle", FirstOrRaw(count), DropSpace(rest))
    <3>1. FirstOrRaw(count) # OcrText
      BY LetterTokens DEF Fit
    <3> HIDE DEF count, rest
    <3> QED  BY <1>3, <2>0, <2>2, <3>1, CommitFits, NoneApart
  <2>3. CASE /\ candidates' = 0
             /\ deferred_intents' = <<>>
             /\ candidates_in_flight' = FALSE
             /\ Emit(UpdatePinyin(0, 0, 0, ShowsRaw(pinyin_buffer, 0, FALSE)))
             /\ UNCHANGED <<state, pinyin_buffer, last_candidates_request,
                            previewVars, llmVars, quote_open>>
    <3>1. Says("UpdatePinyin")
      BY <2>3, SayFacts
    <3>2. Fit' /\ (SlotsFit => SlotsFit')
      BY <2>3, EmptySeq
         DEF Fit, TextsFit, LettersFit, SlotsFit, previewVars, llmVars
    <3> QED
      BY <1>3, <2>3, <3>1, <3>2, NoneApart, CleanFacts DEF previewVars
  <2> QED  BY <2>1, <2>2, <2>3 DEF ReplayDeferredIntents
<1> QED  BY <1>1, <1>2, <1>3
=============================================================================
