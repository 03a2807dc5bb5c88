------------------------- MODULE TextService_proofs --------------------------
(***************************************************************************)
(* Theorems about the Windows text service.                                *)
(*                                                                         *)
(* For every host: recognised text reaches the document only from a        *)
(* preview that is shown and in time.  The invariant is Handled: what the  *)
(* machine holds, where the thread is, what the queue and the list hold.   *)
(*                                                                         *)
(* For a host that performs the edits it is asked for and ends no          *)
(* composition within one (HostCooperates): the window, the composition,   *)
(* the queries and the streams agree with the machine between handlers.    *)
(* A refused edit undoes that at once: set_preedit returns with no         *)
(* composition while the machine composes.  Within a handler the picture   *)
(* lags behind the machine, so the invariant, Cooperative, says what the   *)
(* waiting actions still owe: WindowFit the picture, StreamsFit the        *)
(* stream's events, AsksFit the candidates asked for.                      *)
(***************************************************************************)
EXTENDS TextService, SequenceTheorems, TLAPS

(***************************************************************************)
(* The machine's calls, as CompositionMachine_proofs describes them.       *)
(***************************************************************************)
C == INSTANCE CompositionMachine_proofs

\* The assumptions it makes are this module's.
LEMMA Given == C!MachineAssumption /\ C!KeyAssumption /\ C!NoneAssumption
<1>1. M!Digits = C!Digits /\ M!Suffixes = C!Suffixes /\ M!Kinds = C!Kinds
  BY DEF M!Digits, C!Digits, M!Suffixes, C!Suffixes, M!Kinds, C!Kinds
<1>2. M!Chars = C!Chars
  BY <1>1 DEF M!Chars, C!Chars
<1>3. M!IsFiniteSet(Quotes) <=> C!IsFiniteSet(Quotes)
  BY DEF M!IsFiniteSet, C!IsFiniteSet
<1>4. M!Token = C!Token
  BY <1>1, <1>2 DEF M!Token, C!Token
<1>5. M!Text = C!Text
  BY <1>4 DEF M!Text, C!Text
<1>6. M!Requests = C!Requests /\ M!Comparisons = C!Comparisons
  BY <1>5 DEF M!Requests, C!Requests, M!Comparisons, C!Comparisons
<1> QED
  BY <1>1, <1>2, <1>3, <1>5, <1>6, TextServiceAssumption
     DEF M!MachineAssumption, C!MachineAssumption, M!KeyAssumption, C!KeyAssumption,
         M!NoneAssumption, C!NoneAssumption

\* The calls that CompositionMachine_proofs speaks of are the ones made here.
LEMMA SameCalls ==
    /\ M!Chars = C!Chars /\ M!States = C!States /\ M!OcrText = C!OcrText
    /\ M!Pinyins = C!Pinyins
    /\ \A c : M!FeedChar(c) <=> C!FeedChar(c)
    /\ \A step : M!Paginate(step) <=> C!Paginate(step)
    /\ \A up : M!FeedArrow(up) <=> C!FeedArrow(up)
    /\ M!FeedBackspace <=> C!FeedBackspace
    /\ M!FeedEnter <=> C!FeedEnter
    /\ M!FeedEscape <=> C!FeedEscape
    /\ M!EndOcrPreview <=> C!EndOcrPreview
    /\ \A k : M!FeedOcrPreview(k) <=> C!FeedOcrPreview(k)
    /\ \A text : M!BeginOcrPreview(text) <=> C!BeginOcrPreview(text)
    /\ \A rewritten, source :
            M!BeginRewritePreview(rewritten, source)
                <=> C!BeginRewritePreview(rewritten, source)
    /\ \A k : M!FeedRewritePreview(k) <=> C!FeedRewritePreview(k)
    /\ (M!OnLlmChunk <=> C!OnLlmChunk) /\ (M!OnLlmDone <=> C!OnLlmDone)
    /\ (M!OnLlmError <=> C!OnLlmError)
    /\ \A pinyin, n, done :
            M!OnLlmCandidates(pinyin, n, done) <=> C!OnLlmCandidates(pinyin, n, done)
<1>1. M!Digits = C!Digits
  BY DEF M!Digits, C!Digits
<1>2. M!Suffixes = C!Suffixes
  BY DEF M!Suffixes, C!Suffixes
<1>6. \A c : M!Key(c) = C!Key(c)
  BY DEF M!Key, C!Key
<1>7. M!Raw = C!Raw
  BY DEF M!Raw, C!Raw
<1>8. \A i : M!Cand(i) = C!Cand(i)
  BY DEF M!Cand, C!Cand
<1>9. \A n : M!ResultText(n) = C!ResultText(n)
  BY DEF M!ResultText, C!ResultText
<1>10. \A n : M!FirstOrRaw(n) = C!FirstOrRaw(n)
  BY <1>7, <1>8 DEF M!FirstOrRaw, C!FirstOrRaw
<1>11. \A keys, i, c : M!QuotesBefore(keys, i, c) = C!QuotesBefore(keys, i, c)
  <2>1. \A S : M!Cardinality(S) = C!Cardinality(S)
    BY DEF M!Cardinality, C!Cardinality
  <2> QED  BY <2>1 DEF M!QuotesBefore, C!QuotesBefore
<1>12. \A n : M!Odd(n) <=> C!Odd(n)
  BY DEF M!Odd, C!Odd
<1>13. \A keys, i : M!Opens(keys, i) <=> C!Opens(keys, i)
  BY <1>11, <1>12 DEF M!Opens, C!Opens
<1>14. \A keys : M!FoldKeys(keys) = C!FoldKeys(keys)
  BY <1>13 DEF M!FoldKeys, C!FoldKeys
<1>15. \A keys : M!QuotesAfter(keys) = C!QuotesAfter(keys)
  BY <1>11, <1>12 DEF M!QuotesAfter, C!QuotesAfter
<1>16. \A n, page, sel, raw :
        M!UpdatePinyin(n, page, sel, raw) = C!UpdatePinyin(n, page, sel, raw)
  BY DEF M!UpdatePinyin, C!UpdatePinyin
<1>17. M!Quiet <=> C!Quiet
  BY DEF M!Quiet, C!Quiet
<1>18. \A action : M!Emit(action) <=> C!Emit(action)
  BY <1>16 DEF M!Emit, C!Emit
<1>19. \A name : M!Tell(name) <=> C!Tell(name)
  BY <1>18 DEF M!Tell, C!Tell
<1>20. \A text : M!Commit(text) <=> C!Commit(text)
  BY <1>18 DEF M!Commit, C!Commit
<1>21. M!ClearCompositionState <=> C!ClearCompositionState
  BY DEF M!ClearCompositionState, C!ClearCompositionState
<1>22. M!Composing <=> C!Composing
  BY DEF M!Composing, C!Composing
<1>23. M!BlindWindow <=> C!BlindWindow
  BY DEF M!BlindWindow, C!BlindWindow
<1>24. \A buffer, n, inFlight :
        M!ShowsRaw(buffer, n, inFlight) <=> C!ShowsRaw(buffer, n, inFlight)
  BY DEF M!ShowsRaw, C!ShowsRaw
<1>25. \A buffer, n, page, sel :
        M!PinyinAction(buffer, n, page, sel) <=> C!PinyinAction(buffer, n, page, sel)
  BY <1>16, <1>18, <1>24 DEF M!PinyinAction, C!PinyinAction
<1>26. \A buffer : M!BufferTo(buffer) <=> C!BufferTo(buffer)
  BY <1>25 DEF M!BufferTo, C!BufferTo
<1>27. \A next, head, keys :
        M!CommitPinyin(next, head, keys) <=> C!CommitPinyin(next, head, keys)
  BY <1>14, <1>15, <1>20, <1>21 DEF M!CommitPinyin, C!CommitPinyin, M!llmVars, C!llmVars
<1>28. \A c : M!Defer(c) <=> C!Defer(c)
  BY <1>7, <1>17, <1>25, <1>27 DEF M!Defer, C!Defer, M!previewVars, C!previewVars,
     M!llmVars, C!llmVars
<1>29. \A c : M!FeedIdle(c) <=> C!FeedIdle(c)
  BY <1>14, <1>15, <1>19, <1>20, <1>26 DEF M!FeedIdle, C!FeedIdle, M!pinyinVars,
     C!pinyinVars, M!llmVars, C!llmVars
<1>30. \A c : M!FeedPendingSlash(c) <=> C!FeedPendingSlash(c)
  BY <1>6, <1>19, <1>20 DEF M!FeedPendingSlash, C!FeedPendingSlash, M!pinyinVars,
     C!pinyinVars, M!previewVars, C!previewVars
<1>31. M!FeedPinyinSlash <=> C!FeedPinyinSlash
  BY <1>10, <1>27 DEF M!FeedPinyinSlash, C!FeedPinyinSlash
<1>32. \A c : M!FeedPinyinLetter(c) <=> C!FeedPinyinLetter(c)
  BY <1>17, <1>26 DEF M!FeedPinyinLetter, C!FeedPinyinLetter, M!pinyinVars,
     C!pinyinVars, M!previewVars, C!previewVars, M!llmVars, C!llmVars
<1>33. \A c : M!FeedPinyinSuffix(c) <=> C!FeedPinyinSuffix(c)
  BY <1>2, <1>10, <1>23, <1>27, <1>28 DEF M!FeedPinyinSuffix, C!FeedPinyinSuffix
<1>34. \A c : M!DigitValue(c) = C!DigitValue(c)
  BY DEF M!DigitValue, C!DigitValue
<1>35. \A c : M!FeedPinyinDigit(c) <=> C!FeedPinyinDigit(c)
  BY <1>1, <1>8, <1>17, <1>27, <1>34 DEF M!FeedPinyinDigit, C!FeedPinyinDigit,
     M!pinyinVars, C!pinyinVars, M!previewVars, C!previewVars, M!llmVars, C!llmVars
<1>36. \A rank, repeated : M!SpaceAt(rank, repeated) <=> C!SpaceAt(rank, repeated)
  BY <1>7, <1>8, <1>27, <1>28 DEF M!SpaceAt, C!SpaceAt
<1>37. M!HighlightedRank = C!HighlightedRank
  BY DEF M!HighlightedRank, C!HighlightedRank
<1>38. M!SpaceWaits <=> C!SpaceWaits
  BY DEF M!SpaceWaits, C!SpaceWaits
<1>39. M!FeedPinyinSpace <=> C!FeedPinyinSpace
  BY <1>36, <1>37, <1>38 DEF M!FeedPinyinSpace, C!FeedPinyinSpace
<1>40. M!TotalPages = C!TotalPages
  BY DEF M!TotalPages, C!TotalPages
<1>41. \A step : M!Paginate(step) <=> C!Paginate(step)
  BY <1>16, <1>17, <1>18, <1>40 DEF M!Paginate, C!Paginate, M!previewVars,
     C!previewVars, M!llmVars, C!llmVars
<1>42. \A page : M!PageItems(page) = C!PageItems(page)
  BY DEF M!PageItems, C!PageItems
<1>43. \A page, sel : M!MoveSelection(page, sel) <=> C!MoveSelection(page, sel)
  BY <1>25 DEF M!MoveSelection, C!MoveSelection
<1>44. \A up : M!FeedArrow(up) <=> C!FeedArrow(up)
  BY <1>17, <1>40, <1>42, <1>43 DEF M!FeedArrow, C!FeedArrow, M!previewVars,
     C!previewVars, M!llmVars, C!llmVars
<1>45. \A text : M!PromptGrows(text) <=> C!PromptGrows(text)
  BY <1>19 DEF M!PromptGrows, C!PromptGrows
<1>46. \A c : M!FeedPromptComposing(c) <=> C!FeedPromptComposing(c)
  BY <1>1, <1>6, <1>8, <1>10, <1>17, <1>21, <1>22, <1>26, <1>34, <1>45 DEF
     M!FeedPromptComposing, C!FeedPromptComposing, M!pinyinVars, C!pinyinVars,
     M!previewVars, C!previewVars, M!llmVars, C!llmVars
<1>47. \A action : M!StartPhase(action) <=> C!StartPhase(action)
  BY <1>18 DEF M!StartPhase, C!StartPhase
<1>48. \A c : M!FeedPromptPlain(c) <=> C!FeedPromptPlain(c)
  BY <1>6, <1>19, <1>22, <1>26, <1>45, <1>47 DEF M!FeedPromptPlain, C!FeedPromptPlain,
     M!pinyinVars, C!pinyinVars, M!previewVars, C!previewVars, M!llmVars, C!llmVars
<1>49. M!ConfirmResult <=> C!ConfirmResult
  BY <1>9, <1>17, <1>18 DEF M!ConfirmResult, C!ConfirmResult, M!pinyinVars, C!pinyinVars
<1>50. M!RetryLastLlm <=> C!RetryLastLlm
  BY <1>17, <1>47 DEF M!RetryLastLlm, C!RetryLastLlm, M!pinyinVars, C!pinyinVars
<1>51. M!EditLastPrompt <=> C!EditLastPrompt
  BY <1>19 DEF M!EditLastPrompt, C!EditLastPrompt, M!pinyinVars, C!pinyinVars
<1>52. \A c : M!AiKey(c) = C!AiKey(c)
  BY DEF M!AiKey, C!AiKey
<1>53. M!AiPreviewing <=> C!AiPreviewing
  BY DEF M!AiPreviewing, C!AiPreviewing
<1>54. \A k : M!FeedAiPreview(k) <=> C!FeedAiPreview(k)
  BY <1>17, <1>49, <1>50, <1>51, <1>53 DEF M!FeedAiPreview, C!FeedAiPreview,
     M!pinyinVars, C!pinyinVars, M!previewVars, C!previewVars, M!llmVars, C!llmVars
<1>55. \A c : M!FeedStreaming(c) <=> C!FeedStreaming(c)
  BY <1>17, <1>49 DEF M!FeedStreaming, C!FeedStreaming, M!pinyinVars, C!pinyinVars,
     M!previewVars, C!previewVars, M!llmVars, C!llmVars
<1>56. \A c : M!FeedChar(c) <=> C!FeedChar(c)
  BY <1>29, <1>30, <1>31, <1>32, <1>33, <1>35, <1>39, <1>41, <1>46, <1>48, <1>52, <1>54,
     <1>55 DEF M!FeedChar, C!FeedChar
<1>57. \A buffer : M!Front(buffer) = C!Front(buffer)
  BY DEF M!Front, C!Front
<1>58. \A next, name : M!LeaveTo(next, name) <=> C!LeaveTo(next, name)
  BY <1>19 DEF M!LeaveTo, C!LeaveTo
<1>59. M!EndOcrPreview <=> C!EndOcrPreview
  BY <1>17 DEF M!EndOcrPreview, C!EndOcrPreview, M!pinyinVars, C!pinyinVars, M!llmVars,
     C!llmVars
<1>60. M!NoAction <=> C!NoAction
  BY <1>17 DEF M!NoAction, C!NoAction, M!pinyinVars, C!pinyinVars, M!previewVars,
     C!previewVars, M!llmVars, C!llmVars
<1>61. M!FeedBackspace <=> C!FeedBackspace
  BY <1>21, <1>22, <1>26, <1>54, <1>57, <1>58, <1>59, <1>60 DEF M!FeedBackspace,
     C!FeedBackspace, M!pinyinVars, C!pinyinVars, M!previewVars, C!previewVars,
     M!llmVars, C!llmVars
<1>62. M!FeedEnter <=> C!FeedEnter
  BY <1>7, <1>21, <1>22, <1>27, <1>45, <1>47, <1>49, <1>50, <1>59, <1>60 DEF
     M!FeedEnter, C!FeedEnter, M!pinyinVars, C!pinyinVars
<1>63. M!FeedEscape <=> C!FeedEscape
  BY <1>17, <1>19, <1>21 DEF M!FeedEscape, C!FeedEscape
<1>64. M!OcrText = C!OcrText
  BY DEF M!OcrText, C!OcrText
<1>65. \A text : M!BeginOcrPreview(text) <=> C!BeginOcrPreview(text)
  BY <1>17, <1>18 DEF M!BeginOcrPreview, C!BeginOcrPreview, M!pinyinVars, C!pinyinVars,
     M!llmVars, C!llmVars
<1>66. \A k : M!FeedOcrPreview(k) <=> C!FeedOcrPreview(k)
  BY <1>17, <1>19, <1>20 DEF M!FeedOcrPreview, C!FeedOcrPreview, M!pinyinVars,
     C!pinyinVars, M!llmVars, C!llmVars
<1>67. \A rewritten, source :
        M!BeginRewritePreview(rewritten, source) <=> C!BeginRewritePreview(rewritten, source)
  BY <1>17 DEF M!BeginRewritePreview, C!BeginRewritePreview, M!pinyinVars, C!pinyinVars,
     M!llmVars, C!llmVars
<1>68. M!RewritePreviewing <=> C!RewritePreviewing
  BY DEF M!RewritePreviewing, C!RewritePreviewing
<1>69. \A k : M!FeedRewritePreview(k) <=> C!FeedRewritePreview(k)
  BY <1>9, <1>19, <1>20, <1>68 DEF M!FeedRewritePreview, C!FeedRewritePreview,
     M!pinyinVars, C!pinyinVars
<1>70. M!StreamEvent <=> C!StreamEvent
  BY DEF M!StreamEvent, C!StreamEvent
<1>71. M!Ignored <=> C!Ignored
  BY <1>17 DEF M!Ignored, C!Ignored, M!previewVars, C!previewVars
<1>72. M!OnLlmChunk <=> C!OnLlmChunk
  BY <1>19, <1>70, <1>71 DEF M!OnLlmChunk, C!OnLlmChunk, M!pinyinVars, C!pinyinVars,
     M!previewVars, C!previewVars
<1>73. M!OnLlmDone <=> C!OnLlmDone
  BY <1>18, <1>70, <1>71 DEF M!OnLlmDone, C!OnLlmDone, M!pinyinVars, C!pinyinVars
<1>74. M!OnLlmError <=> C!OnLlmError
  BY <1>17, <1>19, <1>70 DEF M!OnLlmError, C!OnLlmError, M!pinyinVars, C!pinyinVars,
     M!llmVars, C!llmVars
<1>75. \A keys : M!DropSpace(keys) = C!DropSpace(keys)
  BY DEF M!DropSpace, C!DropSpace
<1>76. \A n : M!ReplayDeferredIntents(n) <=> C!ReplayDeferredIntents(n)
  BY <1>10, <1>16, <1>18, <1>24, <1>27, <1>75 DEF M!ReplayDeferredIntents,
     C!ReplayDeferredIntents, M!previewVars, C!previewVars, M!llmVars, C!llmVars
<1>77. \A pinyin, n, done :
        M!OnLlmCandidates(pinyin, n, done) <=> C!OnLlmCandidates(pinyin, n, done)
  BY <1>17, <1>18, <1>76 DEF M!OnLlmCandidates, C!OnLlmCandidates, M!UpdatePinyin,
     C!UpdatePinyin, M!pinyinVars, C!pinyinVars, M!previewVars, C!previewVars,
     M!llmVars, C!llmVars
<1>78. M!States = C!States /\ M!Pinyins = C!Pinyins
  BY DEF M!States, C!States, M!Pinyins, C!Pinyins
<1>79. M!Chars = C!Chars
  BY <1>1, <1>2 DEF M!Chars, C!Chars
<1> QED
  BY <1>56, <1>41, <1>44, <1>61, <1>62, <1>63, <1>59, <1>66, <1>65, <1>67, <1>69, <1>72,
     <1>73, <1>74, <1>77, <1>64, <1>78, <1>79

\* its pinyins too
LEMMA LettersHere == C!Pinyins = Pinyins
BY SameCalls DEF Pinyins

\* None is confused with no value that stands beside it.
LEMMA NoneApart ==
    /\ None \notin Pinyins /\ <<>> \notin Pinyins /\ None # <<>>
    /\ None \notin {"Streaming", "Ready", "Failed"}
    /\ None \notin Slots
BY Given, SameCalls, C!NoneApart, TextServiceAssumption DEF Pinyins

\* The action a call returns, by the operator that returns it.
LEMMA SayFacts ==
    /\ M!Quiet => out' = <<>>
    /\ \A name : M!Tell(name) => C!Says(name)
    /\ \A text : M!Commit(text) => C!Says("CommitImmediate") /\ out'[1].text = text
    /\ \A n, page, sel, raw :
            M!Emit(M!UpdatePinyin(n, page, sel, raw)) => C!Says("UpdatePinyin")
    /\ \A name, text : M!Emit([act |-> name, text |-> text]) => C!Says(name)
BY DEF M!Quiet, M!Tell, M!Commit, M!Emit, M!UpdatePinyin, C!Says

\* In the states of a result there is something to show: every handler leaves it so.
Covered == state \in {"ResultReady", "Failed"} =>
                ai_preview # None \/ rewrite_preview # None
SlotsFit == C!SlotsFit /\ Covered

\* What every key call keeps and answers.
Fits == /\ C!Fit' /\ C!Clean(out')
        /\ SlotsFit => SlotsFit' /\ C!Reply /\ C!Asking

LEMMA KeysKeepCover == C!Fits => Fits
BY DEF C!Fits, Fits, SlotsFit, C!SlotsFit, Covered, C!Reply, C!Silent

\* A new machine (CompositionMachine::new) composes nothing.
LEMMA NewFits ==
    ASSUME C!Fit, NewMachine
    PROVE  /\ C!Fit' /\ SlotsFit' /\ C!Bare' /\ state' = "Idle" /\ out' = <<>>
           /\ pinyin_buffer' = <<>> /\ C!Clean(out')
<1>1. /\ M!ClearCompositionState /\ state' = "Idle" /\ prompt' = <<>>
      /\ last_request' = None /\ result' = 0 /\ out' = <<>>
  BY DEF NewMachine
<1>2. C!TextsFit'
  BY <1>1, Given, C!TextFacts DEF C!TextsFit, M!ClearCompositionState
<1>3. C!LettersFit'
  BY <1>1, EmptySeq DEF C!LettersFit, M!ClearCompositionState, C!States
<1> QED
  BY <1>1, <1>2, <1>3
     DEF C!Fit, SlotsFit, C!SlotsFit, Covered, C!Bare, C!Clean, M!ClearCompositionState

\* A machine left alone still fits.
LEMMA KeptMachine ==
    ASSUME UNCHANGED kept
    PROVE  /\ C!Fit => C!Fit'
           /\ SlotsFit => SlotsFit'
           /\ UNCHANGED <<state, pinyin_buffer, last_candidates_request,
                          candidates_in_flight, ai_preview, rewrite_preview>>
BY DEF kept, C!Fit, C!TextsFit, C!LettersFit, SlotsFit, C!SlotsFit, Covered

\* No such action but a commit can carry recognised text.
LEMMA CleanFacts ==
    /\ out' = <<>> => C!Clean(out')
    /\ \A name : C!Says(name) /\ name # "CommitImmediate" => C!Clean(out')
BY DEF C!Clean, C!Says

\* feed_char, in every state but a preview.
LEMMA CharFits ==
    ASSUME C!Fit, state # "OcrPreviewing", NEW c \in M!Chars, M!FeedChar(c)
    PROVE  Fits
BY Given, SameCalls, KeysKeepCover, C!CharFits

\* paginate.
LEMMA PageFits ==
    ASSUME C!Fit, NEW step, M!Paginate(step)
    PROVE  Fits
BY Given, SameCalls, KeysKeepCover, C!PageFits

\* feed_arrow.
LEMMA ArrowFits ==
    ASSUME C!Fit, NEW up \in BOOLEAN, M!FeedArrow(up)
    PROVE  Fits
BY Given, SameCalls, KeysKeepCover, C!ArrowFits

\* feed_backspace.
LEMMA BackspaceFits ==
    ASSUME C!Fit, state # "OcrPreviewing", M!FeedBackspace
    PROVE  Fits
BY Given, SameCalls, KeysKeepCover, C!BackspaceFits

\* feed_enter.
LEMMA EnterFits ==
    ASSUME C!Fit, state # "OcrPreviewing", M!FeedEnter
    PROVE  Fits
BY Given, SameCalls, KeysKeepCover, C!EnterFits

\* feed_escape.
LEMMA EscapeFits ==
    ASSUME C!Fit, M!FeedEscape
    PROVE  Fits
BY Given, SameCalls, KeysKeepCover, C!EscapeFits

\* The keys of a preview, its deadline and its end: idle afterwards.
LEMMA OcrFits ==
    ASSUME C!Fit,
           \/ M!EndOcrPreview
           \/ \E k \in {"Confirm", "Escape"} : M!FeedOcrPreview(k)
    PROVE  /\ C!Fit' /\ (SlotsFit => SlotsFit' /\ C!Bare')
           /\ state = "OcrPreviewing" /\ state' = "Idle"
           /\ UNCHANGED <<M!pinyinVars, ai_preview, rewrite_preview>>
           /\ M!EndOcrPreview => out' = <<>>
           /\ out' = <<>> \/ C!Says("CommitImmediate") \/ C!Says("Cancel")
BY Given, SameCalls, C!OcrFits
   DEF SlotsFit, C!SlotsFit, Covered, M!pinyinVars, C!pinyinVars

\* begin_ocr_preview: a preview where the machine takes one, else nothing.
LEMMA BeginOcrFits ==
    ASSUME C!Fit, M!BeginOcrPreview(<<M!OcrText>>)
    PROVE  /\ C!Fit' /\ (SlotsFit => SlotsFit') /\ C!Clean(out')
           /\ UNCHANGED <<M!pinyinVars, ai_preview>>
           /\ state' = IF state \in {"Idle", "OcrPreviewing"} THEN "OcrPreviewing"
                       ELSE state
           /\ SlotsFit => UNCHANGED rewrite_preview
BY Given, SameCalls, C!BeginOcrFits
   DEF SlotsFit, C!SlotsFit, Covered, M!pinyinVars, C!pinyinVars

\* begin_rewrite_preview: the comparison takes the place of the result.
LEMMA BeginRewriteFits ==
    ASSUME C!Fit, NEW rewritten \in Nat, NEW source \in C!Texts,
           M!BeginRewritePreview(rewritten, source)
    PROVE  /\ C!Fit' /\ (SlotsFit => SlotsFit') /\ out' = <<>>
           /\ UNCHANGED <<state, M!pinyinVars>>
           /\ state = "ResultReady" => rewrite_preview' # None
           /\ state # "ResultReady" => UNCHANGED <<rewrite_preview, ai_preview>>
BY Given, SameCalls, C!BeginRewriteFits
   DEF SlotsFit, C!SlotsFit, Covered, M!pinyinVars, C!pinyinVars

\* feed_rewrite_preview: one of the two texts is committed, or none.
LEMMA RewriteKeyFits ==
    ASSUME C!Fit, NEW k, M!FeedRewritePreview(k)
    PROVE  /\ C!Fit' /\ (SlotsFit => SlotsFit' /\ C!Bare') /\ C!Clean(out')
           /\ state = "ResultReady" /\ state' = "Idle"
           /\ UNCHANGED M!pinyinVars
           /\ C!Says("CommitImmediate") \/ C!Says("Cancel")
BY Given, SameCalls, C!RewriteKeyFits
   DEF SlotsFit, C!SlotsFit, Covered, M!pinyinVars, C!pinyinVars

\* on_llm_chunk: drawn while the stream is waited for, else dropped.
LEMMA ChunkFits ==
    ASSUME C!Fit, M!OnLlmChunk
    PROVE  /\ C!Fit' /\ (SlotsFit => SlotsFit') /\ C!Clean(out')
           /\ UNCHANGED <<state, M!pinyinVars, ai_preview, rewrite_preview>>
           /\ \/ state = "Streaming" /\ C!Says("UpdateResult")
              \/ state # "Streaming" /\ out' = <<>>
BY Given, SameCalls, C!ChunkFits
   DEF SlotsFit, C!SlotsFit, Covered, M!pinyinVars, C!pinyinVars

\* on_llm_done: the result is ready, or is to be compared.
LEMMA DoneFits ==
    ASSUME C!Fit, M!OnLlmDone
    PROVE  /\ C!Fit' /\ (SlotsFit => SlotsFit') /\ C!Clean(out')
           /\ UNCHANGED M!pinyinVars
           /\ \/ /\ state = "Streaming" /\ state' = "ResultReady"
                 /\ SlotsFit => ai_preview' = "Ready"
                 /\ \/ C!Says("ResultReady")
                    \/ /\ C!Says("RewriteReady")
                       /\ out'[1].rewritten \in Nat /\ out'[1].source \in C!Texts
              \/ /\ state # "Streaming" /\ out' = <<>>
                 /\ UNCHANGED <<state, ai_preview, rewrite_preview>>
BY Given, SameCalls, C!DoneFits
   DEF SlotsFit, C!SlotsFit, Covered, M!pinyinVars, C!pinyinVars

\* on_llm_error: the stream has failed.
LEMMA ErrorFits ==
    ASSUME C!Fit, M!OnLlmError
    PROVE  /\ C!Fit' /\ C!Clean(out')
           /\ state \notin {"ResultReady", "Failed"} /\ SlotsFit => SlotsFit'
           /\ UNCHANGED M!pinyinVars
           /\ \/ /\ state = "Streaming" /\ state' = "Failed" /\ C!Says("LlmFailed")
                 /\ SlotsFit => ai_preview' = "Failed"
              \/ /\ state \in {"ResultReady", "Failed"} /\ state' = "Failed"
                 /\ out' = <<>> \/ C!Says("LlmFailed")
              \/ /\ state \notin {"Streaming", "ResultReady", "Failed"} /\ out' = <<>>
                 /\ UNCHANGED <<state, ai_preview>>
                 /\ SlotsFit => UNCHANGED rewrite_preview
BY Given, SameCalls, C!ErrorFits
   DEF SlotsFit, C!SlotsFit, Covered, M!pinyinVars, C!pinyinVars

\* on_llm_candidates: the list grows, or the waiting keys run and commit.  What
\* it leaves waiting is another pinyin's answer.
LEMMA AnswerFits ==
    ASSUME C!Fit, NEW p \in Pinyins, NEW n \in Nat, M!OnLlmCandidates(p, n, TRUE)
    PROVE  /\ C!Fit' /\ (SlotsFit => SlotsFit') /\ C!Clean(out')
           /\ \/ /\ out' = <<>> \/ (C!Says("UpdatePinyin") /\ pinyin_buffer # <<>>)
                 /\ UNCHANGED <<state, pinyin_buffer, ai_preview, rewrite_preview>>
              \/ /\ C!Says("CommitImmediate") /\ state' = "Idle" /\ C!Bare'
                 /\ pinyin_buffer # <<>>
           /\ state' = "Pinyin" /\ candidates_in_flight' =>
                /\ state = "Pinyin" /\ candidates_in_flight /\ p # pinyin_buffer
                /\ UNCHANGED last_candidates_request
BY Given, SameCalls, C!AnswerFits, LettersHere
   DEF SlotsFit, C!SlotsFit, Covered, M!pinyinVars, C!pinyinVars

(***************************************************************************)
Listed(s) == s \in Seq({s[i] : i \in 1..Len(s)})

\* A sequence of any type is one of its own elements.
LEMMA ListedFacts ==
    ASSUME NEW S, NEW s \in Seq(S)
    PROVE  Listed(s) /\ Len(s) \in Nat /\ (s = <<>> <=> Len(s) = 0)
<1> DEFINE T == {s[i] : i \in 1..Len(s)}
<1>1. Len(s) \in Nat /\ s \in [1..Len(s) -> S]
  BY LenProperties
<1>2. s \in [1..Len(s) -> T]
  BY <1>1
<1>3. s \in Seq(T)
  <2> HIDE DEF T
  <2> QED  BY <1>1, <1>2, SeqDef
<1>4. s = <<>> <=> Len(s) = 0
  BY EmptySeq
<1> QED  BY <1>1, <1>3, <1>4 DEF Listed

\* What Head and Tail leave of a list.
LEMMA TailListed ==
    ASSUME NEW s, Listed(s), s # <<>>
    PROVE  /\ Listed(Tail(s)) /\ Len(s) \in Nat \ {0} /\ Len(Tail(s)) = Len(s) - 1
           /\ Head(s) = s[1]
           /\ \A i \in 1..(Len(s) - 1) : Tail(s)[i] = s[i + 1]
           /\ Len(s) = 1 => Tail(s) = <<>>
<1> DEFINE T == {s[i] : i \in 1..Len(s)}
<1>1. s \in Seq(T)
  BY DEF Listed
<1>2. Head(s) = s[1]
  OBVIOUS
<1> HIDE DEF T
<1>3. /\ Tail(s) \in Seq(T) /\ Len(Tail(s)) = Len(s) - 1
      /\ \A i \in 1..Len(Tail(s)) : Tail(s)[i] = s[i + 1]
  BY <1>1, HeadTailProperties
<1>4. Len(s) \in Nat /\ (s = <<>> <=> Len(s) = 0)
  BY <1>1, ListedFacts
<1>5. Listed(Tail(s)) /\ (Tail(s) = <<>> <=> Len(Tail(s)) = 0)
  <2>1. Tail(s) \in Seq(T)
    BY <1>3
  <2> QED  BY <2>1, ListedFacts
<1> QED  BY <1>2, <1>3, <1>4, <1>5

\* What Returned makes of the one action a call answers.
LEMMA ReturnedShape ==
    ASSUME Returned, out' = <<>> \/ Len(out') = 1
    PROVE  /\ Listed(steps')
           /\ out' = <<>> => steps' = <<>> /\ ui' = "idle"
           /\ out' # <<>> =>
                /\ Len(steps') = 1 /\ ui' = "applying"
                /\ steps'[1].do = out'[1] /\ steps'[1].event = FALSE
                /\ steps'[1].ask = IF last_candidates_request' # last_candidates_request
                                   THEN last_candidates_request' ELSE None
<1> DEFINE ask == IF last_candidates_request' # last_candidates_request
                  THEN last_candidates_request' ELSE None
           S == {[do |-> out'[i], ask |-> ask, event |-> FALSE] : i \in 1..Len(out')}
<1>1. /\ steps' = [i \in 1..Len(out') |-> [do |-> out'[i], ask |-> ask, event |-> FALSE]]
      /\ ui' = IF out' = <<>> THEN "idle" ELSE "applying"
  BY DEF Returned
<1>2. Len(out') \in Nat /\ (out' = <<>> => Len(out') = 0)
  OBVIOUS
<1>3. steps' \in [1..Len(out') -> S]
  <2> HIDE DEF ask
  <2> QED  BY <1>1
<1>4. steps' \in Seq(S)
  <2> HIDE DEF S
  <2> QED  BY <1>2, <1>3, SeqDef
<1>5. Len(steps') = Len(out')
  <2> HIDE DEF S, ask
  <2> QED  BY <1>2, <1>3, <1>4, LenProperties
<1>6. Listed(steps') /\ (steps' = <<>> <=> Len(steps') = 0)
  <2> HIDE DEF S, ask
  <2> QED  BY <1>4, ListedFacts
<1>7. CASE out' = <<>>
  BY <1>1, <1>2, <1>5, <1>6, <1>7
<1>8. CASE out' # <<>>
  <2>1. Len(out') = 1
    BY <1>8
  <2>2. steps'[1] = [do |-> out'[1], ask |-> ask, event |-> FALSE]
    <3> HIDE DEF ask
    <3> QED  BY <1>1, <2>1
  <2> QED  BY <1>1, <1>5, <1>6, <1>8, <2>1, <2>2
<1> QED  BY <1>7, <1>8

\* What Collected adds: the actions of one event, after those already there but
\* for a growing result that is drawn again.
FromEvent(a) == [do |-> a, ask |-> None, event |-> TRUE]
Added(acts, k) ==
    /\ k \in Nat /\ (k = Len(steps) \/ k = Len(steps) - 1)
    /\ Listed(Collected(acts)) /\ Len(Collected(acts)) = k + Len(acts)
    /\ \A i \in 1..k : Collected(acts)[i] = steps[i]
    /\ \A i \in 1..Len(acts) :
          Collected(acts)[k + i] = FromEvent(acts[i])
    /\ k # Len(steps) => acts # <<>> /\ acts[1].act = "UpdateResult"

\* The fields of an action that an event led to.
LEMMA EventFields ==
    \A a : FromEvent(a).do = a /\ FromEvent(a).ask = None /\ FromEvent(a).event = TRUE
BY DEF FromEvent

\* collect_steps keeps what waits, but for a result that is drawn again, and adds
\* the event's actions.
LEMMA CollectedShape ==
    ASSUME Listed(steps), NEW acts, Listed(acts)
    PROVE  \E k : Added(acts, k)
<1> DEFINE new == [i \in 1..Len(acts) |-> [do |-> acts[i], ask |-> None, event |-> TRUE]]
           S == {new[i] : i \in 1..Len(acts)}
           T == {steps[i] : i \in 1..Len(steps)}
           redrawn == /\ new # <<>> /\ new[1].do.act = "UpdateResult"
                      /\ steps # <<>> /\ steps[Len(steps)].do.act = "UpdateResult"
           k == IF redrawn THEN Len(steps) - 1 ELSE Len(steps)
           front == IF redrawn THEN SubSeq(steps, 1, Len(steps) - 1) ELSE steps
<1>1. Len(acts) \in Nat /\ (acts = <<>> <=> Len(acts) = 0)
  BY ListedFacts DEF Listed
<1>2. Len(steps) \in Nat /\ (steps = <<>> <=> Len(steps) = 0) /\ steps \in Seq(T)
  BY ListedFacts DEF Listed
<1>3. new \in [1..Len(acts) -> S]
  OBVIOUS
<1>4. new \in Seq(S) /\ Len(new) = Len(acts) /\ (new = <<>> <=> Len(new) = 0)
  <2>1. new \in Seq(S)
    <3> HIDE DEF new, S
    <3> QED  BY <1>1, <1>3, SeqDef
  <2> HIDE DEF new, S
  <2> QED  BY <1>1, <1>3, <2>1, LenProperties, ListedFacts
<1>5. \A i \in 1..Len(acts) : new[i] = FromEvent(acts[i])
  BY DEF FromEvent
<1>6. redrawn => acts # <<>> /\ acts[1].act = "UpdateResult" /\ Len(steps) # 0
  <2>1. ASSUME redrawn  PROVE acts # <<>> /\ acts[1].act = "UpdateResult" /\ Len(steps) # 0
    <3>1. new # <<>> /\ new[1].do.act = "UpdateResult" /\ steps # <<>>
      BY <2>1
    <3> HIDE DEF new, T
    <3>2. 1 \in 1..Len(acts) /\ acts # <<>> /\ Len(steps) # 0
      BY <1>1, <1>2, <1>4, <3>1
    <3>3. new[1].do = acts[1]
      BY <1>5, <3>2, EventFields
    <3> QED  BY <3>1, <3>2, <3>3
  <2> QED  BY <2>1
<1>7. k \in Nat /\ (k = Len(steps) \/ (redrawn /\ k = Len(steps) - 1)) /\ k <= Len(steps)
  <2> HIDE DEF redrawn
  <2> QED  BY <1>2, <1>6
<1>8. front \in Seq(T) /\ Len(front) = k /\ \A i \in 1..k : front[i] = steps[i]
  <2> HIDE DEF redrawn, new
  <2>1. CASE redrawn
    <3>1. \A i \in 1..(Len(steps) - 1) : steps[i] \in T
      BY <1>2
    <3> HIDE DEF T
    <3>2. /\ front \in Seq(T)
          /\ Len(front) = IF 1 <= Len(steps) - 1 THEN Len(steps) - 1 - 1 + 1 ELSE 0
          /\ \A i \in 1..(Len(steps) - 1 - 1 + 1) : front[i] = steps[1 + i - 1]
      BY <1>2, <1>6, <2>1, <3>1, SubSeqProperties
    <3>3. k = Len(steps) - 1
      BY <2>1
    <3> QED  BY <1>2, <1>6, <2>1, <3>2, <3>3
  <2>2. CASE ~redrawn
    <3> HIDE DEF T
    <3> QED  BY <1>2, <2>2
  <2> QED  BY <2>1, <2>2
<1> DEFINE all == front \o new
           U == S \cup T
<1>9. Collected(acts) = all
  BY DEF Collected
<1> HIDE DEF new, front, redrawn, k, S, T
<1>10. front \in Seq(U) /\ new \in Seq(U)
  <2>1. front \in [1..Len(front) -> T] /\ new \in [1..Len(new) -> S]
    BY <1>4, <1>8, LenProperties
  <2>2. front \in [1..Len(front) -> U] /\ new \in [1..Len(new) -> U]
    BY <2>1
  <2> QED  BY <1>1, <1>4, <1>7, <1>8, <2>2, SeqDef
<1> HIDE DEF U
<1>11. /\ all \in Seq(U) /\ Len(all) = Len(front) + Len(new)
       /\ \A i \in 1..(Len(front) + Len(new)) :
            all[i] = IF i <= Len(front) THEN front[i] ELSE new[i - Len(front)]
  BY <1>10, ConcatProperties
<1> HIDE DEF all
<1>12. \A i \in 1..k : all[i] = steps[i]
  <2> TAKE i \in 1..k
  <2>1. i \in 1..(Len(front) + Len(new)) /\ i <= Len(front)
    BY <1>1, <1>4, <1>7, <1>8
  <2> QED  BY <1>8, <1>11, <2>1
<1>13. \A i \in 1..Len(acts) : all[k + i] = FromEvent(acts[i])
  <2> TAKE i \in 1..Len(acts)
  <2>1. /\ k + i \in 1..(Len(front) + Len(new)) /\ ~(k + i <= Len(front))
        /\ (k + i) - Len(front) = i
    BY <1>1, <1>4, <1>7, <1>8
  <2>2. all[k + i] = new[i]
    BY <1>11, <2>1
  <2>3. new[i] = FromEvent(acts[i])
    BY <1>5
  <2> QED  BY <2>2, <2>3
<1>14. Listed(all)
  BY <1>11, ListedFacts
<1>15. k # Len(steps) => acts # <<>> /\ acts[1].act = "UpdateResult"
  BY <1>6, <1>7
<1> QED  BY <1>4, <1>7, <1>8, <1>9, <1>11, <1>12, <1>13, <1>14, <1>15 DEF Added

\* One action, and with the state line two.
LEMMA FewActs ==
    ASSUME NEW a, NEW b
    PROVE  /\ Listed(<<>>) /\ Listed(<<a>>) /\ Listed(<<a, b>>)
           /\ Len(<<>>) = 0 /\ Len(<<a>>) = 1 /\ Len(<<a, b>>) = 2
           /\ <<a>>[1] = a /\ <<a, b>>[1] = a /\ <<a, b>>[2] = b
           /\ <<a>> \o <<>> = <<a>> /\ <<a>> \o <<b>> = <<a, b>> /\ <<>> \o <<b>> = <<b>>
           /\ <<>> \o <<>> = <<>>
<1> DEFINE S == {a, b}
<1>1. <<>> \in Seq(S) /\ <<a>> \in Seq(S) /\ <<a, b>> \in Seq(S) /\ <<b>> \in Seq(S)
  OBVIOUS
<1>2. Listed(<<>>) /\ Listed(<<a>>) /\ Listed(<<a, b>>)
  <2> HIDE DEF S
  <2> QED  BY <1>1, ListedFacts
<1>3. <<a>> \o <<>> = <<a>> /\ <<>> \o <<b>> = <<b>> /\ <<>> \o <<>> = <<>>
  BY <1>1, ConcatEmptySeq
<1>4. <<a>> \o <<b>> = <<a, b>>
  <2>1. /\ <<a>> \o <<b>> \in Seq(S) /\ Len(<<a>> \o <<b>>) = 2
        /\ (<<a>> \o <<b>>)[1] = a /\ (<<a>> \o <<b>>)[2] = b
    <3> HIDE DEF S
    <3> QED  BY <1>1, ConcatProperties
  <2>2. \A i \in 1..2 : (<<a>> \o <<b>>)[i] = <<a, b>>[i]
    BY <2>1
  <2> HIDE DEF S
  <2> QED  BY <1>1, <2>1, <2>2, SeqEqual
<1> QED  BY <1>2, <1>3, <1>4

(***************************************************************************)
(* What any call of a key handler answers.                                 *)
(***************************************************************************)
KeyNames == {"UpdatePinyin", "UpdatePrompt", "EnterPrompt", "CommitImmediate",
             "CommitResult", "Cancel", "StartCapture", "StartLlm", "StartRewrite"}
Shaped == /\ state' # "OcrPreviewing"
          /\ out' = <<>> \/ \E name \in KeyNames : C!Says(name)

\* The answers of the machine's shared pieces.
LEMMA PieceShapes ==
    /\ M!Quiet => out' = <<>>
    /\ \A head, keys, next : M!CommitPinyin(next, head, keys) =>
            state' = next /\ C!Says("CommitImmediate")
    /\ \A b : M!BufferTo(b) => C!Says("UpdatePinyin")
    /\ \A c : M!Defer(c) /\ state # "OcrPreviewing" => Shaped
    /\ \A t : M!PromptGrows(t) => UNCHANGED state /\ C!Says("UpdatePrompt")
    /\ M!ConfirmResult /\ state # "OcrPreviewing" => Shaped
    /\ M!RetryLastLlm /\ state # "OcrPreviewing" => Shaped
    /\ \A k : M!FeedAiPreview(k) => Shaped
<1>1. \A head, keys, next : M!CommitPinyin(next, head, keys) =>
            state' = next /\ C!Says("CommitImmediate")
  BY SayFacts DEF M!CommitPinyin
<1>2. \A b, n, p, s : M!PinyinAction(b, n, p, s) => C!Says("UpdatePinyin")
  BY SayFacts DEF M!PinyinAction
<1>3. \A b : M!BufferTo(b) => C!Says("UpdatePinyin")
  BY <1>2 DEF M!BufferTo
<1>4. \A c : M!Defer(c) /\ state # "OcrPreviewing" => Shaped
  <2> TAKE c
  <2> HAVE M!Defer(c) /\ state # "OcrPreviewing"
  <2> DEFINE queue == Append(deferred_intents, c)
  <2>1. CASE M!CommitPinyin("Idle", M!Raw, queue)
    <3> HIDE DEF queue
    <3> QED  BY <1>1, <2>1 DEF Shaped, KeyNames
  <2>2. CASE UNCHANGED state /\ (c = " " => M!Quiet)
             /\ (c # " " => M!PinyinAction(pinyin_buffer, candidates, pinyin_page,
                                          selected_index))
    BY <1>2, <2>2, SayFacts DEF Shaped, KeyNames
  <2> QED  BY <2>1, <2>2 DEF M!Defer
<1>5. \A t : M!PromptGrows(t) => UNCHANGED state /\ C!Says("UpdatePrompt")
  BY SayFacts DEF M!PromptGrows
<1>6. M!ConfirmResult /\ state # "OcrPreviewing" => Shaped
  BY SayFacts DEF M!ConfirmResult, Shaped, KeyNames
<1>7. M!RetryLastLlm /\ state # "OcrPreviewing" => Shaped
  BY SayFacts DEF M!RetryLastLlm, M!StartPhase, Shaped, KeyNames
<1>8. \A k : M!FeedAiPreview(k) => Shaped
  BY <1>6, <1>7, SayFacts DEF M!FeedAiPreview, M!EditLastPrompt, Shaped, KeyNames
<1> QED  BY <1>1, <1>3, <1>4, <1>5, <1>6, <1>7, <1>8, SayFacts

\* feed_char answers nothing or one action that a key can lead to.
LEMMA CharShape ==
    ASSUME state # "OcrPreviewing", NEW c, M!FeedChar(c)
    PROVE  Shaped
<1>1. CASE M!FeedIdle(c)
  BY <1>1, PieceShapes, SayFacts DEF M!FeedIdle, Shaped, KeyNames
<1>2. CASE M!FeedStreaming(c) \/ M!FeedAiPreview(M!AiKey(c))
  BY <1>2, PieceShapes DEF M!FeedStreaming, Shaped
<1>3. CASE \/ M!FeedPinyinSlash \/ M!FeedPinyinLetter(c)
           \/ M!FeedPinyinSuffix(c) \/ M!FeedPinyinDigit(c)
  BY <1>3, PieceShapes, SayFacts
     DEF M!FeedPinyinSlash, M!FeedPinyinLetter, M!FeedPinyinSuffix, M!FeedPinyinDigit,
         Shaped, KeyNames
<1>4. CASE M!FeedPinyinSpace
  <2> DEFINE rank == M!HighlightedRank
             front == SubSeq(deferred_intents, 1, Len(deferred_intents) - 1)
  <2>1. CASE \/ M!CommitPinyin("Idle", M!Cand(rank), <<>>)
             \/ M!CommitPinyin("Idle", M!Raw, front)
             \/ M!CommitPinyin("Idle", M!Raw, <<>>)
    <3> HIDE DEF rank, front
    <3> QED  BY <2>1, PieceShapes DEF Shaped, KeyNames
  <2>2. CASE M!Defer(" ")
    BY <2>2, PieceShapes
  <2> QED  BY <1>4, <2>1, <2>2 DEF M!FeedPinyinSpace, M!SpaceAt
<1>5. CASE M!Paginate(-1) \/ M!Paginate(1)
  BY <1>5, SayFacts DEF M!Paginate, Shaped, KeyNames
<1>6. CASE M!FeedPendingSlash(c)
  BY <1>6, SayFacts DEF M!FeedPendingSlash, Shaped, KeyNames
<1>7. CASE M!FeedPromptComposing(c)
  BY <1>7, PieceShapes DEF M!FeedPromptComposing, Shaped, KeyNames
<1>8. CASE M!FeedPromptPlain(c)
  BY <1>8, PieceShapes, SayFacts DEF M!FeedPromptPlain, M!StartPhase, Shaped, KeyNames
<1> QED
  BY <1>1, <1>2, <1>3, <1>4, <1>5, <1>6, <1>7, <1>8 DEF M!FeedChar

\* So does every call of on_key_down, and it leaves the machine fit.
LEMMA FeedFits ==
    ASSUME C!Fit, state # "OcrPreviewing", NEW k, NEW was, Feed(k, was)
    PROVE  /\ Fits /\ Shaped /\ Returned
           /\ UNCHANGED <<mode, composition, panel, expired, queries, ai, chunks, capture>>
<1>1. CASE k \in Printable /\ M!FeedChar(k)
  <2>1. k \in M!Chars
    BY <1>1 DEF Printable, M!Chars, M!Suffixes, M!Digits
  <2> QED  BY <1>1, <2>1, CharFits, CharShape DEF Feed
<1>2. CASE M!Paginate(1) \/ M!FeedArrow(FALSE)
  <2>1. Fits
    BY <1>2, PageFits, ArrowFits
  <2>2. Shaped
    BY <1>2, SayFacts
       DEF M!Paginate, M!FeedArrow, M!MoveSelection, M!PinyinAction, Shaped, KeyNames
  <2> QED  BY <2>1, <2>2 DEF Feed
<1>3. CASE M!FeedEnter
  <2>1. Shaped
    BY <1>3, PieceShapes, SayFacts
       DEF M!FeedEnter, M!NoAction, M!StartPhase, M!EndOcrPreview, Shaped, KeyNames
  <2> QED  BY <1>3, <2>1, EnterFits DEF Feed
<1>4. CASE M!FeedBackspace
  <2>1. Shaped
    BY <1>4, PieceShapes, SayFacts
       DEF M!FeedBackspace, M!NoAction, M!LeaveTo, M!EndOcrPreview, Shaped, KeyNames
  <2> QED  BY <1>4, <2>1, BackspaceFits DEF Feed
<1>5. CASE M!FeedEscape
  <2>1. Shaped
    BY <1>5, SayFacts DEF M!FeedEscape, Shaped, KeyNames
  <2> QED  BY <1>5, <2>1, EscapeFits DEF Feed
<1> QED  BY <1>1, <1>2, <1>3, <1>4, <1>5 DEF Feed

(***************************************************************************)
(* Where the host's thread is, and what waits: whatever the host does.     *)
(***************************************************************************)
SourceFits(step) ==
    step.do.act = "RewriteReady" => step.do.rewritten \in Nat /\ step.do.source \in C!Texts
UiFit ==
    /\ ui \in {"idle", "claimed", "routing", "draining", "collecting", "applying"}
    /\ Listed(steps)
    /\ ui = "applying" => steps # <<>>
    /\ ui \notin {"collecting", "applying"} => steps = <<>>
    /\ ui = "claimed" => Previewing
    /\ ui = "routing" => state = "Idle"
    /\ Previewing => panel = "preview" /\ steps = <<>>
    /\ \A i \in 1..Len(steps) : SourceFits(steps[i])
QueueFit ==
    /\ batch \in Seq(Events) /\ chunks \in Seq(Events)
    /\ ui = "collecting" <=> batch # <<>>
\* The invariant for every host.
Handled == C!Fit /\ UiFit /\ QueueFit

\* What commits recognised text ends a preview that is on screen and in time, and
\* what is not a new result makes and renews none.
StaleOut == IsOcrCommit => Previewing /\ ~expired /\ panel = "preview" /\ ~Previewing'
NoneOffered == Previewing' => Previewing /\ (expired => expired')

\* A step that commits no recognised text breaks no promise about it.
LEMMA CleanStays == C!Clean(out') \/ out' = out => StaleOut
BY SameCalls DEF C!Clean, StaleOut, IsOcrCommit

\* A step that leaves the machine alone leaves it fit.
LEMMA MachineStays ==
    UNCHANGED machine => (C!Fit => C!Fit') /\ UNCHANGED <<state, out>>
BY KeptMachine DEF machine

\* A handler that makes one call and hands on what it answers.
LEMMA OneStep ==
    ASSUME NEW s, Len(s) = 1, SourceFits(s[1])
    PROVE  s # <<>> /\ \A i \in 1..Len(s) : SourceFits(s[i])
<1>1. \A i \in 1..Len(s) : i = 1
  OBVIOUS
<1>2. Len(<<>>) = 0
  OBVIOUS
<1> QED  BY <1>1, <1>2

\* A handler that makes one call hands on what it answers.
LEMMA CallHandled ==
    ASSUME Handled, C!Fit', C!Clean(out'), state' # "OcrPreviewing", Returned,
           out' = <<>> \/ \E name \in KeyNames : C!Says(name),
           UNCHANGED <<batch, chunks>>, ui # "collecting"
    PROVE  Handled' /\ StaleOut /\ NoneOffered
<1>1. Listed(steps') /\ (out' = <<>> => steps' = <<>> /\ ui' = "idle")
  BY ReturnedShape DEF C!Says
<1>2. out' # <<>> => Len(steps') = 1 /\ ui' = "applying" /\ steps'[1].do = out'[1]
  BY ReturnedShape DEF C!Says
<1>3. out' # <<>> => out'[1].act # "RewriteReady"
  BY DEF KeyNames, C!Says
<1>4. UiFit'
  <2>1. CASE out' = <<>>
    <3>1. \A i \in 1..Len(steps') : FALSE
      BY <1>1, <2>1
    <3> QED  BY <1>1, <2>1, <3>1 DEF UiFit, Previewing
  <2>2. CASE out' # <<>>
    <3>1. SourceFits(steps'[1])
      BY <1>2, <1>3, <2>2 DEF SourceFits
    <3>2. steps' # <<>> /\ \A i \in 1..Len(steps') : SourceFits(steps'[i])
      BY <1>2, <2>2, <3>1, OneStep
    <3> QED  BY <1>1, <1>2, <2>2, <3>2 DEF UiFit, Previewing
  <2> QED  BY <2>1, <2>2
<1>5. QueueFit'
  BY <1>1, <1>2 DEF Handled, QueueFit
<1> QED  BY <1>4, <1>5, CleanStays DEF Handled, NoneOffered, Previewing

\* on_test_key_down and on_key_down keep the invariant.
LEMMA KeysHandled ==
    ASSUME Handled, NEW k \in Keys, UserKey(k)
    PROVE  Handled' /\ StaleOut /\ NoneOffered
<1>1. CASE TestKeyDown(k)
  <2>1. /\ ui = "idle" /\ Previewing /\ ui' = "claimed"
        /\ UNCHANGED <<machine, steps, batch, panel, expired, chunks>>
    BY <1>1 DEF TestKeyDown, Claimed
  <2>2. C!Fit' /\ UNCHANGED <<state, out>>
    BY <2>1, MachineStays DEF Handled
  <2> QED
    BY <2>1, <2>2, CleanStays DEF Handled, UiFit, QueueFit, Previewing, NoneOffered
<1>2. CASE KeyDown(k)
  <2>1. ui = "idle" /\ state # "OcrPreviewing" /\ Feed(k, state) /\ C!Fit
    BY <1>2 DEF KeyDown, Claimed, Previewing, Handled
  <2>2. /\ Fits /\ Shaped /\ Returned
        /\ UNCHANGED <<mode, composition, panel, expired, queries, ai, chunks, capture>>
    BY <2>1, FeedFits
  <2> QED  BY <2>1, <2>2, CallHandled DEF Fits, Shaped, Returned
<1>3. CASE KeyDownRewrite(k)
  <2>1. /\ ui = "idle" /\ Returned /\ C!Fit /\ UNCHANGED chunks
        /\ \E key_ : M!FeedRewritePreview(key_)
    BY <1>3 DEF KeyDownRewrite, Claimed, Handled
  <2>2. /\ C!Fit' /\ C!Clean(out') /\ state' = "Idle"
        /\ C!Says("CommitImmediate") \/ C!Says("Cancel")
    BY <2>1, RewriteKeyFits
  <2> QED  BY <2>1, <2>2, CallHandled DEF Returned, KeyNames
<1> QED  BY <1>1, <1>2, <1>3 DEF UserKey

\* So do the keys that find or end a preview: only Confirm on a live one commits
\* recognised text.
LEMMA HandlersHandled ==
    ASSUME Handled, KeyHandler
    PROVE  Handled' /\ StaleOut /\ NoneOffered
<1>1. CASE KeyDownPreview
  <2>1. /\ ui = "claimed" /\ Previewing /\ ~expired /\ Returned /\ UNCHANGED chunks
        /\ \E k \in {"Confirm", "Escape"} : M!FeedOcrPreview(k)
    BY <1>1 DEF KeyDownPreview, Overdue
  <2>2. /\ C!Fit' /\ state' = "Idle"
        /\ out' = <<>> \/ C!Says("CommitImmediate") \/ C!Says("Cancel")
    BY <2>1, OcrFits DEF Handled
  <2>3. StaleOut
    BY <2>1, <2>2 DEF StaleOut, Handled, UiFit, Previewing
  <2>4. Listed(steps') /\ (out' = <<>> => steps' = <<>> /\ ui' = "idle")
    BY <2>1, <2>2, ReturnedShape DEF C!Says
  <2>5. out' # <<>> => Len(steps') = 1 /\ ui' = "applying" /\ steps'[1].do = out'[1]
    BY <2>1, <2>2, ReturnedShape DEF C!Says
  <2>6. UiFit'
    <3>1. CASE out' = <<>>
      <4>1. \A i \in 1..Len(steps') : FALSE
        BY <2>4, <3>1
      <4> QED  BY <2>2, <2>4, <3>1, <4>1 DEF UiFit, Previewing
    <3>2. CASE out' # <<>>
      <4>1. SourceFits(steps'[1])
        BY <2>2, <2>5, <3>2 DEF SourceFits, C!Says
      <4>2. steps' # <<>> /\ \A i \in 1..Len(steps') : SourceFits(steps'[i])
        BY <2>5, <3>2, <4>1, OneStep
      <4> QED  BY <2>2, <2>4, <2>5, <3>2, <4>2 DEF UiFit, Previewing
    <3> QED  BY <3>1, <3>2
  <2>7. QueueFit'
    BY <2>1, <2>4, <2>5 DEF Handled, QueueFit, Returned
  <2> QED  BY <2>2, <2>3, <2>6, <2>7 DEF Handled, NoneOffered, Previewing
<1>2. CASE KeyDownEndsPreview
  <2>1. /\ ui = "claimed" /\ Previewing /\ M!EndOcrPreview /\ ui' \in {"idle", "routing"}
        /\ UNCHANGED <<steps, batch, chunks>>
    BY <1>2 DEF KeyDownEndsPreview
  <2>2. C!Fit' /\ state' = "Idle" /\ out' = <<>>
    BY <2>1, OcrFits DEF Handled
  <2> QED
    BY <2>1, <2>2, CleanFacts, CleanStays
       DEF Handled, UiFit, QueueFit, Previewing, NoneOffered
<1>3. CASE KeyDownGoesOn
  <2>1. ui = "routing" /\ state = "Idle" /\ Feed(key, before)
    BY <1>3 DEF KeyDownGoesOn, Handled, UiFit
  <2>2. /\ Fits /\ Shaped /\ Returned
        /\ UNCHANGED <<mode, composition, panel, expired, queries, ai, chunks, capture>>
    BY <2>1, FeedFits DEF Handled
  <2> QED  BY <2>1, <2>2, CallHandled DEF Fits, Shaped, Returned
<1> QED  BY <1>1, <1>2, <1>3 DEF KeyHandler

\* apply_action takes the head of the list.
LEMMA TakenHandled ==
    ASSUME UiFit, QueueFit, ui = "applying", Taken, state' # "OcrPreviewing"
    PROVE  UiFit' /\ QueueFit'
<1>1. Listed(steps) /\ steps # <<>>
  BY DEF UiFit
<1>2. /\ Listed(Tail(steps)) /\ Len(steps) \in Nat \ {0}
      /\ Len(Tail(steps)) = Len(steps) - 1
      /\ \A i \in 1..(Len(steps) - 1) : Tail(steps)[i] = steps[i + 1]
      /\ Len(steps) = 1 => Tail(steps) = <<>>
  BY <1>1, TailListed
<1>3. /\ steps' = Tail(steps) /\ UNCHANGED <<batch, chunks>>
      /\ ui' = IF Len(steps) = 1 THEN "idle" ELSE "applying"
  BY DEF Taken
<1>4. \A i \in 1..Len(steps') : SourceFits(steps'[i])
  <2> TAKE i \in 1..Len(steps')
  <2>1. i + 1 \in 1..Len(steps) /\ i \in 1..(Len(steps) - 1)
    BY <1>2, <1>3
  <2>2. steps'[i] = steps[i + 1] /\ SourceFits(steps[i + 1])
    BY <1>2, <1>3, <2>1 DEF UiFit
  <2> QED  BY <2>2
<1>5. ui' # "applying" => steps' = <<>>
  BY <1>2, <1>3
<1>6. Listed(steps')
  <2>1. steps' = Tail(steps) /\ Listed(Tail(steps))
    BY <1>2, <1>3
  <2> QED  BY ONLY <2>1 DEF Listed
<1>7. ui' = "applying" => steps' # <<>>
  <2>1. ASSUME Len(steps) # 1  PROVE Tail(steps) # <<>>
    BY <1>2, <2>1
  <2> QED  BY <1>3, <2>1
<1>8. UiFit'
  BY <1>2, <1>3, <1>4, <1>5, <1>6, <1>7 DEF UiFit, Previewing
<1>9. QueueFit'
  BY <1>3 DEF QueueFit
<1> QED  BY <1>8, <1>9

\* Whatever is applied, the machine is left alone, replaced, or told to compare.
LEMMA ApplyMoves ==
    ASSUME Apply
    PROVE  /\ ui = "applying" /\ Taken
           /\ \/ Kept
              \/ NewMachine
              \/ /\ Head(steps).do.act = "RewriteReady"
                 /\ M!BeginRewritePreview(Head(steps).do.rewritten, Head(steps).do.source)
<1>1. CASE ApplyPinyin \/ ApplyPrompt \/ ApplyResult \/ ApplyPreedit \/ ApplyStart
  BY <1>1
     DEF ApplyPinyin, ApplyPrompt, ApplyResult, ApplyPreedit, ApplyStart, Applying,
         SetPreedit
<1>2. CASE (\E n \in {0, 1} : ApplyCommand(n)) \/ ApplyStartCapture \/ ApplyReady
  BY <1>2 DEF ApplyCommand, ApplyStartCapture, ApplyReady, Applying
<1>3. CASE ApplyRewriteReady
  BY <1>3 DEF ApplyRewriteReady, Applying
<1>4. CASE ApplyCommit \/ ApplyCommitResult \/ ApplyCancel
  BY <1>4 DEF ApplyCommit, ApplyCommitResult, ApplyCancel, Applying
<1> QED  BY <1>1, <1>2, <1>3, <1>4 DEF Apply

\* apply_action keeps the invariant, whatever the host makes of the edit.
LEMMA ApplyHandled ==
    ASSUME Handled, Apply
    PROVE  Handled' /\ StaleOut /\ NoneOffered
<1>1. /\ ui = "applying" /\ Taken
      /\ \/ Kept
         \/ NewMachine
         \/ /\ Head(steps).do.act = "RewriteReady"
            /\ M!BeginRewritePreview(Head(steps).do.rewritten, Head(steps).do.source)
  BY ApplyMoves
<1>2. state # "OcrPreviewing" /\ steps # <<>> /\ Listed(steps)
  BY <1>1 DEF Handled, UiFit, Previewing
<1>3. C!Fit' /\ C!Clean(out') /\ state' # "OcrPreviewing"
  <2>1. CASE Kept
    BY <1>2, <2>1, KeptMachine, CleanFacts DEF Kept, Handled
  <2>2. CASE NewMachine
    BY <2>2, NewFits DEF Handled
  <2>3. CASE /\ Head(steps).do.act = "RewriteReady"
             /\ M!BeginRewritePreview(Head(steps).do.rewritten, Head(steps).do.source)
    <3>1. Head(steps) = steps[1] /\ 1 \in 1..Len(steps)
      BY <1>2, TailListed
    <3>2. Head(steps).do.rewritten \in Nat /\ Head(steps).do.source \in C!Texts
      BY <2>3, <3>1 DEF Handled, UiFit, SourceFits
    <3> QED  BY <1>2, <2>3, <3>2, BeginRewriteFits, CleanFacts DEF Handled
  <2> QED  BY <1>1, <2>1, <2>2, <2>3
<1>4. UiFit' /\ QueueFit'
  BY <1>1, <1>3, TakenHandled DEF Handled
<1> QED  BY <1>3, <1>4, CleanStays DEF Handled, NoneOffered, Previewing

\* An event of the queue, and the queue without it or with one more.
LEMMA EventsHandled ==
    /\ batch # <<>> /\ batch \in Seq(Events) =>
        /\ Head(batch) \in Events /\ Head(batch) = batch[1]
        /\ Tail(batch) \in Seq(Events) /\ Len(batch) \in Nat \ {0}
        /\ Len(Tail(batch)) = Len(batch) - 1
        /\ \A i \in 1..(Len(batch) - 1) : Tail(batch)[i] = batch[i + 1]
        /\ Tail(batch) = <<>> <=> Len(batch) = 1
    /\ \A e \in Events, q \in Seq(Events) : Append(q, e) \in Seq(Events)
<1>1. ASSUME batch # <<>>, batch \in Seq(Events)
      PROVE  /\ Head(batch) \in Events /\ Head(batch) = batch[1]
             /\ Tail(batch) \in Seq(Events) /\ Len(batch) \in Nat \ {0}
             /\ Len(Tail(batch)) = Len(batch) - 1
             /\ \A i \in 1..(Len(batch) - 1) : Tail(batch)[i] = batch[i + 1]
             /\ Tail(batch) = <<>> <=> Len(batch) = 1
  <2>1. /\ Head(batch) \in Events /\ Tail(batch) \in Seq(Events)
        /\ Len(Tail(batch)) = Len(batch) - 1
        /\ \A i \in 1..Len(Tail(batch)) : Tail(batch)[i] = batch[i + 1]
    BY <1>1, HeadTailProperties
  <2>2. Head(batch) = batch[1]
    OBVIOUS
  <2>3. Len(batch) \in Nat \ {0}
    BY <1>1, EmptySeq
  <2>4. Tail(batch) = <<>> <=> Len(Tail(batch)) = 0
    BY <2>1, ListedFacts
  <2> QED  BY <2>1, <2>2, <2>3, <2>4
<1>2. \A e \in Events, q \in Seq(Events) : Append(q, e) \in Seq(Events)
  BY AppendProperties
<1> QED  BY <1>1, <1>2

EventKinds ==
    /\ \A e \in Events :
        \/ e.kind = "Candidates" /\ e.pinyin \in Pinyins /\ e.count \in Nat
        \/ e.kind \in {"Chunk", "Final", "Error"} /\ e.slot \in Slots
    /\ \A p \in Pinyins, n \in Answers \cup {0} :
        [kind |-> "Candidates", pinyin |-> p, count |-> n] \in Events
    /\ \A s \in Slots, k \in {"Chunk", "Final", "Error"} :
        [kind |-> k, slot |-> s] \in Events
\* What the events are.
LEMMA EventFacts == EventKinds
<1>1. Answers \subseteq Nat
  BY TextServiceAssumption DEF M!MachineAssumption
<1>2. \A e \in Events :
        \/ e.kind = "Candidates" /\ e.pinyin \in Pinyins /\ e.count \in Nat
        \/ e.kind \in {"Chunk", "Final", "Error"} /\ e.slot \in Slots
  BY <1>1 DEF Events
<1>3. \A p \in Pinyins, n \in Answers \cup {0} :
        [kind |-> "Candidates", pinyin |-> p, count |-> n] \in Events
  BY DEF Events
<1>4. \A s \in Slots, k \in {"Chunk", "Final", "Error"} :
        [kind |-> k, slot |-> s] \in Events
  BY DEF Events
<1> QED  BY <1>2, <1>3, <1>4 DEF EventKinds

\* A list has a length.
LEMMA ListedLength ==
    \A s : Listed(s) => Len(s) \in Nat /\ (s = <<>> <=> Len(s) = 0)
BY ListedFacts DEF Listed

\* A list of one has no other index.
LEMMA OneAct == \A s : s = <<s[1]>> => \A i \in 1..Len(s) : i = 1
<1> TAKE s
<1> HAVE s = <<s[1]>>
<1>1. Len(s) = 1
  OBVIOUS
<1> QED  BY <1>1

\* An event's answer with the state line after it.
LEMMA DrawnActs ==
    ASSUME out' = <<>> \/ out' = <<out'[1]>>
    PROVE  /\ Listed(out' \o StateLine)
           /\ \A i \in 1..Len(out' \o StateLine) :
                \/ (out' \o StateLine)[i] = [act |-> "Preedit"]
                \/ out' # <<>> /\ (out' \o StateLine)[i] = out'[1]
           /\ state' \in {"Idle", "OcrPreviewing"} => out' \o StateLine = out'
           /\ state' \notin {"Idle", "OcrPreviewing"} =>
                IF out' = <<>> THEN out' \o StateLine = <<[act |-> "Preedit"]>>
                ELSE out' \o StateLine = <<out'[1], [act |-> "Preedit"]>>
<1> DEFINE a == out'[1]
           b == [act |-> "Preedit"]
<1>1. StateLine = IF state' \in {"Idle", "OcrPreviewing"} THEN <<>> ELSE <<b>>
  BY DEF StateLine
<1>2. \/ out' = <<>> /\ StateLine = <<>> /\ out' \o StateLine = <<>>
      \/ out' = <<>> /\ StateLine = <<b>> /\ out' \o StateLine = <<b>>
      \/ out' = <<a>> /\ StateLine = <<>> /\ out' \o StateLine = <<a>>
      \/ out' = <<a>> /\ StateLine = <<b>> /\ out' \o StateLine = <<a, b>>
  <2> HIDE DEF a, b
  <2>1. \A x, y : <<x>> \o <<>> = <<x>> /\ <<x>> \o <<y>> = <<x, y>>
                 /\ <<>> \o <<y>> = <<y>> /\ <<>> \o <<>> = <<>>
    BY FewActs
  <2>2. out' = <<>> \/ out' = <<a>>
    BY DEF a
  <2>3. StateLine = <<>> \/ StateLine = <<b>>
    BY <1>1
  <2> QED  BY <2>1, <2>2, <2>3
<1> HIDE DEF a, b
<1>3. \A i \in 1..Len(out' \o StateLine) :
        (out' \o StateLine)[i] = b \/ (out' # <<>> /\ (out' \o StateLine)[i] = a)
  <2>1. <<a>> # <<>>
    OBVIOUS
  <2>2. CASE out' \o StateLine = <<>>
    BY <2>2, FewActs
  <2>3. CASE out' \o StateLine = <<b>>
    BY <2>3
  <2>4. CASE out' = <<a>> /\ out' \o StateLine = <<a>>
    BY <2>1, <2>4
  <2>5. CASE out' = <<a>> /\ out' \o StateLine = <<a, b>>
    <3>1. \A i \in 1..Len(<<a, b>>) : <<a, b>>[i] = a \/ <<a, b>>[i] = b
      OBVIOUS
    <3> QED  BY <2>1, <2>5, <3>1
  <2> QED  BY <1>2, <2>2, <2>3, <2>4, <2>5
<1>4. Listed(out' \o StateLine)
  BY <1>2, FewActs
<1>5. /\ state' \in {"Idle", "OcrPreviewing"} => out' \o StateLine = out'
      /\ state' \notin {"Idle", "OcrPreviewing"} =>
            IF out' = <<>> THEN out' \o StateLine = <<b>>
            ELSE out' \o StateLine = <<a, b>>
  <2>1. <<a>> # <<>> /\ <<b>> # <<>>
    OBVIOUS
  <2> QED  BY <1>1, <1>2, <2>1
<1> QED  BY <1>3, <1>4, <1>5 DEF a, b

\* What a stream event or an answer may leave to be drawn.
LEMMA CollectHandled ==
    ASSUME Handled, Collect
    PROVE  Handled' /\ StaleOut /\ NoneOffered
<1> DEFINE e == Head(batch)
<1>1. /\ ui = "collecting" /\ batch' = Tail(batch) /\ UNCHANGED <<panel, expired, chunks>>
      /\ ui' = IF Len(batch) > 1 THEN "collecting"
               ELSE IF steps' = <<>> THEN "idle" ELSE "applying"
  BY DEF Collect
<1>2. batch # <<>> /\ batch \in Seq(Events) /\ chunks \in Seq(Events)
  BY <1>1 DEF Handled, QueueFit
<1>3. /\ e \in Events /\ Tail(batch) \in Seq(Events) /\ Len(batch) \in Nat \ {0}
      /\ Tail(batch) = <<>> <=> Len(batch) = 1
  BY <1>2, EventsHandled
<1> HIDE DEF e
<1>4. QueueFit'
  <2>1. batch' # <<>> <=> Len(batch) > 1
    BY <1>1, <1>3
  <2> QED  BY <1>1, <1>2, <1>3, <2>1 DEF QueueFit
<1>5. /\ C!Fit'
      /\ C!Clean(out') \/ out' = out
      /\ \/ UNCHANGED <<state, steps>>
         \/ /\ state = "OcrPreviewing" <=> state' = "OcrPreviewing"
            /\ state = "OcrPreviewing" => out' = <<>>
            /\ out' # <<>> =>
                /\ out' = <<out'[1]>>
                /\ out'[1].act = "RewriteReady" =>
                    out'[1].rewritten \in Nat /\ out'[1].source \in C!Texts
            /\ \/ steps' = Collected(out')
               \/ steps' = Collected(out' \o StateLine)
  <2>0. C!Fit
    BY DEF Handled
  <2>1. CASE UNCHANGED <<machine, steps>>
    BY <2>0, <2>1, MachineStays
  <2>2. CASE M!OnLlmChunk /\ steps' = Collected(out')
    BY <2>0, <2>2, ChunkFits DEF C!Says
  <2>3. CASE M!OnLlmDone /\ steps' = Collected(out' \o StateLine)
    BY <2>0, <2>3, DoneFits DEF C!Says
  <2>4. CASE M!OnLlmError /\ steps' = Collected(out' \o StateLine)
    BY <2>0, <2>4, ErrorFits DEF C!Says
  <2>5. CASE /\ e.kind = "Candidates" /\ M!OnLlmCandidates(e.pinyin, e.count, TRUE)
             /\ steps' = Collected(out')
    <3>1. e.pinyin \in Pinyins /\ e.count \in Nat
      BY <1>3, <2>5, EventFacts DEF EventKinds
    <3>2. state = "OcrPreviewing" => pinyin_buffer = <<>>
      BY <2>0 DEF C!Fit, C!LettersFit
    <3> QED  BY <2>0, <2>5, <3>1, <3>2, AnswerFits DEF C!Says
  <2> QED  BY <2>1, <2>2, <2>3, <2>4, <2>5 DEF Collect, e
<1>6. /\ Listed(steps')
      /\ \A i \in 1..Len(steps') : SourceFits(steps'[i])
      /\ Previewing' => Previewing /\ steps' = <<>>
  <2>1. CASE UNCHANGED <<state, steps>>
    BY <2>1 DEF Handled, UiFit, Previewing
  <2>2. ASSUME /\ state = "OcrPreviewing" <=> state' = "OcrPreviewing"
               /\ state = "OcrPreviewing" => out' = <<>>
               /\ out' # <<>> =>
                   /\ out' = <<out'[1]>>
                   /\ out'[1].act = "RewriteReady" =>
                       out'[1].rewritten \in Nat /\ out'[1].source \in C!Texts,
               \/ steps' = Collected(out')
               \/ steps' = Collected(out' \o StateLine)
        PROVE  /\ Listed(steps')
               /\ \A i \in 1..Len(steps') : SourceFits(steps'[i])
               /\ Previewing' => Previewing /\ steps' = <<>>
    <3>1. PICK acts : /\ steps' = Collected(acts) /\ Listed(acts)
                      /\ \A i \in 1..Len(acts) :
                            acts[i].act = "RewriteReady" =>
                                acts[i].rewritten \in Nat /\ acts[i].source \in C!Texts
                      /\ Previewing' => acts = <<>>
      <4>1. CASE steps' = Collected(out')
        <5>1. CASE out' = <<>>
          <6>1. Listed(<<>>) /\ Len(<<>>) = 0
            BY FewActs
          <6>2. \A i \in 1..Len(<<>>) : FALSE
            BY <6>1
          <6> QED  BY <4>1, <5>1, <6>1, <6>2
        <5>2. CASE out' # <<>>
          BY <2>2, <4>1, <5>2, FewActs, OneAct DEF Previewing
        <5> QED  BY <5>1, <5>2
      <4>2. CASE steps' = Collected(out' \o StateLine)
        <5>1. PICK acts : acts = out' \o StateLine
          OBVIOUS
        <5>2. /\ Listed(acts)
              /\ \A i \in 1..Len(acts) :
                    acts[i] = [act |-> "Preedit"] \/ (out' # <<>> /\ acts[i] = out'[1])
              /\ Previewing' => acts = <<>>
          BY <2>2, <5>1, DrawnActs DEF Previewing
        <5>3. [act |-> "Preedit"].act # "RewriteReady"
          OBVIOUS
        <5> QED  BY <2>2, <4>2, <5>1, <5>2, <5>3
      <4> QED  BY <2>2, <4>1, <4>2
    <3>2. PICK k : Added(acts, k)
      BY <3>1, CollectedShape DEF Handled, UiFit
    <3>3. \A i \in 1..Len(steps') : SourceFits(steps'[i])
      <4> TAKE i \in 1..Len(steps')
      <4>1. CASE i <= k
        <5>1. i \in 1..k /\ i \in 1..Len(steps)
          BY <3>1, <3>2, <4>1, ListedLength DEF Added, Handled, UiFit
        <5> QED  BY <3>1, <3>2, <5>1 DEF Added, Handled, UiFit
      <4>2. CASE ~(i <= k)
        <5>1. PICK j \in 1..Len(acts) : i = k + j
          BY <3>1, <3>2, <4>2, ListedLength DEF Added
        <5>2. steps'[i] = FromEvent(acts[j])
          BY <3>1, <3>2, <5>1 DEF Added
        <5> QED  BY <3>1, <5>2, EventFields DEF SourceFits
      <4> QED  BY <4>1, <4>2
    <3>4. ASSUME Previewing'  PROVE Previewing /\ steps' = <<>>
      <4>1. Previewing /\ steps = <<>> /\ acts = <<>>
        BY <2>2, <3>1, <3>4 DEF Previewing, Handled, UiFit
      <4>2. Len(steps') = 0
        BY <3>1, <3>2, <4>1, ListedLength DEF Added
      <4> QED  BY <3>1, <3>2, <4>1, <4>2, ListedLength DEF Added
    <3> QED  BY <3>1, <3>2, <3>3, <3>4 DEF Added
  <2> QED  BY <1>5, <2>1, <2>2
<1>7. UiFit'
  BY <1>1, <1>3, <1>6 DEF Handled, UiFit, Previewing
<1> QED  BY <1>1, <1>4, <1>5, <1>6, <1>7, CleanStays DEF Handled, NoneOffered

\* on_timer takes the queue.
LEMMA TakeBatchHandled ==
    ASSUME QueueFit, TakeBatch, steps' = <<>>,
           Previewing' => panel' = "preview"
    PROVE  UiFit' /\ QueueFit'
<1>1. /\ batch' = chunks /\ chunks' = <<>>
      /\ ui' = IF chunks = <<>> THEN "idle" ELSE "collecting"
  BY DEF TakeBatch
<1>2. Listed(steps') /\ \A i \in 1..Len(steps') : SourceFits(steps'[i])
  <2>1. Listed(<<>>) /\ Len(<<>>) = 0
    BY FewActs
  <2> QED  BY <2>1
<1>3. <<>> \in Seq(Events)
  BY EmptySeq
<1>4. UiFit'
  BY <1>1, <1>2 DEF UiFit, Previewing
<1>5. QueueFit'
  BY <1>1, <1>3 DEF QueueFit
<1> QED  BY <1>4, <1>5

\* on_timer's deadline and drain_trigger_results keep the invariant.
LEMMA TimerHandled ==
    ASSUME Handled, Tick \/ DrainResult
    PROVE  Handled' /\ StaleOut /\ (Tick => NoneOffered)
<1>1. CASE Tick
  <2>1. ui = "idle" /\ steps = <<>> /\ steps' = <<>> /\ batch = <<>>
    BY <1>1 DEF Tick, Handled, UiFit, QueueFit
  <2>2. /\ C!Fit' /\ (C!Clean(out') \/ out' = out)
        /\ Previewing' => panel' = "preview"
        /\ NoneOffered
    <3>1. CASE M!ExpireStaleOcrPreview
      BY <3>1, OcrFits, CleanFacts
         DEF M!ExpireStaleOcrPreview, Handled, Previewing, NoneOffered
    <3>2. CASE UNCHANGED <<machine, panel, expired>>
      BY <3>2, MachineStays DEF Handled, UiFit, Previewing, NoneOffered
    <3> QED  BY <1>1, <3>1, <3>2 DEF Tick
  <2>3. CASE TakeBatch
    BY <2>1, <2>2, <2>3, TakeBatchHandled, CleanStays DEF Handled
  <2>4. CASE ui' = "draining" /\ UNCHANGED <<batch, chunks>>
    <3>1. UiFit'
      BY <2>1, <2>2, <2>4 DEF Handled, UiFit, Previewing
    <3>2. QueueFit'
      BY <2>1, <2>4 DEF Handled, QueueFit
    <3> QED  BY <2>2, <3>1, <3>2, CleanStays DEF Handled
  <2> QED  BY <1>1, <2>3, <2>4 DEF Tick
<1>2. CASE DrainResult
  <2>0. ~Tick
    BY <1>2 DEF Tick, DrainResult
  <2>1. ui = "draining" /\ steps = <<>> /\ steps' = <<>>
    BY <1>2 DEF DrainResult, Handled, UiFit
  <2>2. /\ C!Fit' /\ C!Clean(out')
        /\ Previewing' => panel' = "preview"
    <3>1. CASE NewMachine
      BY <3>1, NewFits DEF Handled, Previewing
    <3>2. CASE /\ M!BeginOcrPreview(<<M!OcrText>>)
               /\ state \in {"Idle", "OcrPreviewing"} => panel' = "preview"
      BY <3>2, BeginOcrFits DEF Handled, Previewing
    <3> QED  BY <1>2, <3>1, <3>2 DEF DrainResult, Composing
  <2>3. CASE TakeBatch
    BY <2>0, <2>1, <2>2, <2>3, TakeBatchHandled, CleanStays DEF Handled
  <2>4. CASE UNCHANGED <<ui, batch, chunks>>
    <3>1. UiFit'
      BY <2>1, <2>2, <2>4 DEF Handled, UiFit, Previewing
    <3>2. QueueFit'
      BY <2>4 DEF Handled, QueueFit
    <3> QED  BY <2>0, <2>2, <3>1, <3>2, CleanStays DEF Handled
  <2> QED  BY <1>2, <2>3, <2>4 DEF DrainResult
<1> QED  BY <1>1, <1>2

\* Workers and the clock only add to the queue, the user and the host only
\* replace the machine between two handlers.
LEMMA OutsideHandled ==
    ASSUME Handled,
           \/ Hotkey \/ Workers \/ DeadlinePasses \/ HostEndsComposition
           \/ Toggle \/ Deactivate \/ Activate \/ UNCHANGED vars
    PROVE  Handled' /\ StaleOut /\ NoneOffered
<1>1. chunks \in Seq(Events)
  BY DEF Handled, QueueFit
<1>2. ASSUME UNCHANGED <<machine, ui, steps, batch, panel>>, chunks' \in Seq(Events),
             expired => expired'
      PROVE  Handled' /\ StaleOut /\ NoneOffered
  <2>1. C!Fit' /\ UNCHANGED <<state, out>>
    BY <1>2, MachineStays DEF Handled
  <2>2. UiFit' /\ QueueFit'
    BY <1>2, <2>1 DEF Handled, UiFit, QueueFit, Previewing
  <2> QED  BY <1>2, <2>1, <2>2, CleanStays DEF Handled, NoneOffered, Previewing
<1>3. CASE Hotkey \/ DeadlinePasses \/ Activate \/ UNCHANGED vars
  BY <1>1, <1>2, <1>3
     DEF Hotkey, DeadlinePasses, Activate, vars, handler, mode, queries, ai, capture,
         Others
<1>4. CASE Workers
  <2>1. UNCHANGED <<Others, expired>>
    BY <1>4 DEF Workers, QueryStarts, QueryEnds, StreamSends, StreamEnds, CaptureEnds
  <2>2. chunks' \in Seq(Events)
    <3>1. \A e \in Events : Append(chunks, e) \in Seq(Events)
      BY <1>1, EventsHandled
    <3>2. CASE CaptureEnds \/ \E p \in Pinyins : QueryStarts(p)
      BY <1>1, <3>2 DEF CaptureEnds, QueryStarts
    <3>3. CASE \E p \in Pinyins : QueryEnds(p)
      BY <3>1, <3>3, EventFacts DEF QueryEnds, EventKinds
    <3>4. CASE \E s \in Slots : StreamSends(s)
      BY <3>1, <3>4, EventFacts DEF StreamSends, EventKinds
    <3>5. CASE \E s \in Slots : StreamEnds(s)
      BY <1>1, <3>1, <3>5, EventFacts DEF StreamEnds, EventKinds
    <3> QED  BY <1>4, <3>2, <3>3, <3>4, <3>5 DEF Workers
  <2> QED  BY <1>2, <2>1, <2>2 DEF Others, handler
<1>5. ASSUME ui = "idle", UNCHANGED <<ui, steps, batch, chunks>>,
             NewMachine \/ (state # "OcrPreviewing" /\ UNCHANGED machine)
      PROVE  Handled' /\ StaleOut /\ NoneOffered
  <2>1. C!Fit' /\ state' # "OcrPreviewing" /\ (C!Clean(out') \/ out' = out)
    BY <1>5, MachineStays, NewFits DEF Handled
  <2>2. UiFit' /\ QueueFit'
    BY <1>5, <2>1 DEF Handled, UiFit, QueueFit, Previewing
  <2> QED  BY <2>1, <2>2, CleanStays DEF Handled, NoneOffered, Previewing
<1>6. CASE HostEndsComposition \/ Toggle \/ Deactivate
  BY <1>5, <1>6 DEF HostEndsComposition, Toggle, Deactivate, handler
<1> QED  BY <1>3, <1>4, <1>6

\* The invariant holds when the service is made.
LEMMA StartHandled == Init => Handled
<1> SUFFICES ASSUME Init PROVE Handled
  OBVIOUS
<1>1. M!Init /\ ui = "idle" /\ steps = <<>> /\ batch = <<>> /\ chunks = <<>>
  BY DEF Init
<1>2. <<>> \in Seq(M!Chars) /\ <<>> \in Seq(Events) /\ Listed(<<>>) /\ Len(<<>>) = 0
  BY FewActs, EmptySeq
<1>3. C!TextsFit
  BY <1>1, Given, C!TextFacts DEF M!Init, C!TextsFit
<1>4. C!LettersFit
  BY <1>1, <1>2, SameCalls DEF M!Init, C!LettersFit, M!States
<1>5. UiFit /\ QueueFit
  BY <1>1, <1>2 DEF UiFit, QueueFit, M!Init, Previewing
<1> QED  BY <1>3, <1>4, <1>5 DEF Handled, C!Fit

\* Every step keeps the thread's invariant and commits recognised text only from a
\* preview that is on screen and in time; only drain_trigger_results makes one.
LEMMA StepHandled ==
    ASSUME Handled, [Next]_vars
    PROVE  Handled' /\ StaleOut /\ (DrainResult \/ NoneOffered)
<1>1. CASE \E k \in Keys : UserKey(k)
  BY <1>1, KeysHandled
<1>2. CASE KeyHandler
  BY <1>2, HandlersHandled
<1>3. CASE Apply
  BY <1>3, ApplyHandled
<1>4. CASE Tick \/ DrainResult
  BY <1>4, TimerHandled
<1>5. CASE Collect
  BY <1>5, CollectHandled
<1>6. CASE \/ Hotkey \/ Workers \/ DeadlinePasses \/ HostEndsComposition
           \/ Toggle \/ Deactivate \/ Activate \/ UNCHANGED vars
  BY <1>6, OutsideHandled
<1> QED  BY <1>1, <1>2, <1>3, <1>4, <1>5, <1>6 DEF Next, Timer

\* The thread's invariant holds for every host.
THEOREM HandlersKeepFit == Spec => []Handled
<1>1. Handled /\ [Next]_vars => Handled'
  BY StepHandled
<1> QED  BY StartHandled, <1>1, PTL DEF Spec

\* The captures under way and the texts that came back, while on_timer works them off.
Counted ==
    /\ captures \in Nat /\ results \in Nat
    /\ ui = "draining" => results # 0

\* Only a worker brings a text back, only drain_trigger_results takes one, and only a
\* hotkey or a command captures another.
CountsStep ==
    \/ UNCHANGED capture
    \/ captures' = captures - 1 /\ results' \in {results, results + 1} /\ captures > 0
    \/ captures' = captures + 1 /\ UNCHANGED results /\ (~Previewing \/ out' = out)
    \/ DrainResult /\ UNCHANGED captures /\ results' = results - 1

LEMMA StepCounts ==
    ASSUME Handled, Counted, [Next]_vars
    PROVE  CountsStep /\ (ui' = "draining" => results' # 0)
<1>1. CASE \E k \in Keys : UserKey(k)
  <2>1. UNCHANGED capture /\ ui' # "draining"
    BY <1>1 DEF UserKey, TestKeyDown, KeyDown, KeyDownRewrite, Feed, Returned
  <2> QED  BY <2>1 DEF CountsStep
<1>2. CASE KeyHandler
  <2>1. UNCHANGED capture /\ ui' # "draining"
    BY <1>2
       DEF KeyHandler, KeyDownPreview, KeyDownEndsPreview, KeyDownGoesOn, Feed, Returned
  <2> QED  BY <2>1 DEF CountsStep
<1>3. CASE Apply
  <2>1. /\ ui' # "draining" /\ UNCHANGED results
        /\ captures' = captures \/ captures' = captures + 1
    <3>1. CASE \E n \in {0, 1} : ApplyCommand(n)
      BY <3>1 DEF ApplyCommand, Applying, Taken, Counted
    <3>2. CASE ~\E n \in {0, 1} : ApplyCommand(n)
      BY <1>3, <3>2
         DEF Apply, ApplyPinyin, ApplyPrompt, ApplyResult, ApplyPreedit, ApplyStart,
             ApplyStartCapture, ApplyReady, ApplyRewriteReady, ApplyCommit,
             ApplyCommitResult, ApplyCancel, Applying, Taken
    <3> QED  BY <3>1, <3>2
  <2>2. ~Previewing
    BY <1>3, ApplyMoves DEF Handled, UiFit
  <2> QED  BY <2>1, <2>2 DEF CountsStep, capture
<1>4. CASE Tick
  BY <1>4 DEF Tick, TakeBatch, CountsStep, capture
<1>5. CASE DrainResult
  <2>1. UNCHANGED captures /\ results' = results - 1 /\ results \in Nat \ {0}
    BY <1>5 DEF DrainResult, Counted
  <2>2. TakeBatch \/ (results # 1 /\ UNCHANGED ui)
    BY <1>5 DEF DrainResult
  <2> QED  BY <1>5, <2>1, <2>2 DEF CountsStep, TakeBatch
<1>6. CASE Collect
  BY <1>6 DEF Collect, CountsStep
<1>7. CASE Workers \/ DeadlinePasses \/ UNCHANGED vars
  <2>1. UNCHANGED ui /\ (results' = results \/ results' = results + 1)
    BY <1>7
       DEF Workers, QueryStarts, QueryEnds, StreamSends, StreamEnds, CaptureEnds,
           DeadlinePasses, Others, handler, vars, capture
  <2>2. CountsStep
    BY <1>7
       DEF Workers, QueryStarts, QueryEnds, StreamSends, StreamEnds, CaptureEnds,
           DeadlinePasses, vars, capture, CountsStep
  <2> QED  BY <2>1, <2>2 DEF Counted
<1>8. CASE Hotkey \/ HostEndsComposition \/ Toggle \/ Deactivate \/ Activate
  <2>1. ui = "idle" /\ UNCHANGED ui
    BY <1>8
       DEF Hotkey, HostEndsComposition, Toggle, Deactivate, Activate, handler
  <2>2. CountsStep
    BY <1>8
       DEF Hotkey, HostEndsComposition, Toggle, Deactivate, Activate, capture, machine,
           CountsStep
  <2> QED  BY <2>1, <2>2
<1> QED  BY <1>1, <1>2, <1>3, <1>4, <1>5, <1>6, <1>7, <1>8 DEF Next, Timer

\* What drain_trigger_results does with a text: on the screen, or into the document
\* of the user who composes.
LEMMA ResultShown ==
    ASSUME Handled, DrainResult
    PROVE  IF Composing THEN ~Previewing /\ ~Previewing'
           ELSE state' = "OcrPreviewing"
<1>1. CASE Composing
  <2>1. CASE NewMachine
    BY <1>1, <2>1 DEF NewMachine, Composing, Previewing
  <2>2. CASE M!BeginOcrPreview(<<M!OcrText>>)
    BY <1>1, <2>2, BeginOcrFits DEF Handled, Composing, Previewing
  <2> QED  BY <1>1, <2>1, <2>2 DEF DrainResult
<1>2. CASE ~Composing
  <2>1. M!BeginOcrPreview(<<M!OcrText>>)
    BY <1>2 DEF DrainResult
  <2> QED  BY <1>2, <2>1, BeginOcrFits DEF Handled, Composing
<1> QED  BY <1>1, <1>2

\* Sums compare as their parts do.
LEMMA SumsCompare ==
    \A a, c, x, z \in Int :
        /\ a < x /\ c <= z + 1 => ~(a + c > x + z)
        /\ a < x /\ c <= z => a + c < x + z
        /\ a <= x /\ c <= z => ~(a + c > x + z)
        /\ a <= x /\ c < z => a + c < x + z
OBVIOUS

\* A text that comes back has been paid for by its capture, one that is shown or
\* inserted by its result, and one that is committed by its preview.
LEMMA OfferSpent ==
    ASSUME Handled, Counted, [Next]_vars
    PROVE  /\ OnOffer' > OnOffer => captures' > captures
           /\ IsOcrCommit \/ IsInserted => OnOffer' < OnOffer
           /\ IsOcrCommit => panel = "preview"
           /\ IsInserted => Composing
<1> DEFINE n == IF Previewing /\ ~expired THEN 1 ELSE 0
           sum == captures + results
<1>1. StaleOut /\ (DrainResult \/ NoneOffered) /\ CountsStep
  BY StepHandled, StepCounts
<1>2. captures \in Nat /\ results \in Nat /\ sum \in Int
      /\ n \in Int /\ n' \in Int
  BY DEF Counted
<1>3. OnOffer = sum + n /\ OnOffer' = sum' + n'
  BY DEF OnOffer
<1>4. (NoneOffered => n' <= n) /\ n' <= n + 1
  BY DEF NoneOffered
<1>5. IsOcrCommit => n' < n /\ panel = "preview" /\ Previewing /\ out' # out
  BY <1>1 DEF StaleOut, IsOcrCommit
<1>6. CASE DrainResult
  <2>1. UNCHANGED captures /\ results' = results - 1
    BY <1>6 DEF DrainResult
  <2>2. Composing => n' <= n
    BY <1>6, ResultShown
  <2>3. IsInserted => Composing
    BY <1>6, ResultShown DEF IsInserted
  <2>4. sum' \in Int /\ sum' < sum
    BY <1>2, <2>1
  <2> HIDE DEF n, sum
  <2>5. ~(OnOffer' > OnOffer) /\ (n' <= n => OnOffer' < OnOffer)
    BY <1>2, <1>3, <1>4, <2>4, SumsCompare
  <2>6. n' < n => n' <= n
    BY <1>2
  <2> QED  BY <1>5, <2>2, <2>3, <2>5, <2>6
<1>7. CASE ~DrainResult
  <2>1. \/ UNCHANGED <<captures, results>>
        \/ captures' = captures - 1 /\ results' \in {results, results + 1}
        \/ captures' = captures + 1 /\ UNCHANGED results /\ (~Previewing \/ out' = out)
    BY <1>1, <1>7 DEF CountsStep, capture
  <2>2. ~IsInserted
    BY <1>2, <2>1 DEF IsInserted
  <2>3. n' <= n
    BY <1>1, <1>4, <1>7
  <2>4. CASE captures' = captures + 1
    <3>1. captures' > captures /\ ~IsOcrCommit
      BY <1>2, <1>5, <2>1, <2>4
    <3> QED  BY <2>2, <3>1
  <2>5. CASE captures' # captures + 1
    <3>1. sum' \in Int /\ sum' <= sum
      BY <1>2, <2>1, <2>5
    <3> HIDE DEF n, sum
    <3>2. ~(OnOffer' > OnOffer) /\ (n' < n => OnOffer' < OnOffer)
      BY <1>2, <1>3, <2>3, <3>1, SumsCompare
    <3> QED  BY <1>5, <2>2, <3>2
  <2> QED  BY <2>4, <2>5
<1> QED  BY <1>6, <1>7

\* A recognised text reaches the document at most once, and never after its preview
\* was dismissed, replaced or taken away or OCR_PREVIEW_TTL has passed: the key
\* handlers, toggle_ime, on_timer and drain_trigger_results see to it, whatever the
\* host does to the edits.
THEOREM TextAlwaysUsedOnce == Spec => TextUsedOnce
<1>1. Init => Counted
  BY DEF Init, Counted
<1>2. Handled /\ Counted /\ [Next]_vars => Counted'
  <2> SUFFICES ASSUME Handled, Counted, [Next]_vars  PROVE Counted'
    OBVIOUS
  <2>1. CountsStep /\ (ui' = "draining" => results' # 0)
    BY StepCounts
  <2>2. CASE DrainResult
    BY <2>1, <2>2 DEF DrainResult, Counted
  <2>3. CASE ~DrainResult
    BY <2>1, <2>3 DEF CountsStep, Counted, capture
  <2> QED  BY <2>2, <2>3
<1>3. Handled /\ Counted /\ [Next]_vars =>
        [ /\ OnOffer' > OnOffer => captures' > captures
          /\ IsOcrCommit \/ IsInserted => OnOffer' < OnOffer
          /\ IsOcrCommit => panel = "preview"
          /\ IsInserted => Composing ]_vars
  BY OfferSpent
<1> QED  BY HandlersKeepFit, <1>1, <1>2, <1>3, PTL DEF Spec, TextUsedOnce

(***************************************************************************)
(* What is still to be drawn, with a host that obeys.                      *)
(***************************************************************************)
DrawActs == {"UpdatePinyin", "Preedit"}
EndActs == {"CommitImmediate", "CommitResult", "Cancel"}
StartActs == {"StartLlm", "StartRewrite"}
ResultActs == {"UpdateResult", "ResultReady", "LlmFailed", "RewriteReady", "Preedit"}

\* where in the list of waiting actions they may be
OnlyIn(s, acts) == \A i \in 1..Len(s) : s[i].do.act \in acts
FrontIn(s, acts) == \A i \in 1..(Len(s) - 1) : s[i].do.act \in acts
EndsIn(s, acts) == s # <<>> /\ s[Len(s)].do.act \in acts
One(s, acts) == Len(s) = 1 /\ s[1].do.act \in acts

Plain == C!Bare /\ ~Previewing

\* The composition ends with the last action.
Ending ==
    /\ EndsIn(steps, EndActs) /\ FrontIn(steps, DrawActs)
    /\ C!Bare /\ state \in {"Idle", "PendingSlash"}
    /\ ui = "collecting" => state = "Idle"

\* A call that leaves or changes the prompt, or sends it.
Capturing ==
    /\ One(steps, {"StartCapture"}) /\ ui = "applying"
    /\ state # "Streaming"
Starting ==
    /\ One(steps, StartActs) /\ ui = "applying"
    /\ state = "Streaming" /\ ai_preview # None
Prompting ==
    /\ One(steps, {"UpdatePrompt", "EnterPrompt"}) /\ ui = "applying"
    /\ C!Bare /\ state \in {"PendingSlash", "Prompt"}

\* Letters on the screen, or about to be.
Drawing ==
    /\ OnlyIn(steps, DrawActs)
    /\ Plain /\ state # "Idle"
    /\ panel \in {"hidden", "candidates", "orphan"}
    /\ panel = "candidates" => pinyin_buffer # <<>>
    /\ pinyin_buffer = <<>> => OnlyIn(steps, {"Preedit"})
    /\ composition \/ state = "PendingSlash" \/ steps # <<>>

\* A result on the screen.  The one that is to be compared comes last.
ComparedLast(s) ==
    \A i, j \in 1..Len(s) :
        i < j /\ s[i].do.act = "RewriteReady" => s[j].do.act = "Preedit"
Overlaid ==
    /\ OnlyIn(steps, ResultActs) /\ ComparedLast(steps)
    /\ state # "ResultReady" => OnlyIn(steps, ResultActs \ {"RewriteReady"})
    /\ ai_preview # None /\ panel = "overlay" /\ composition
Comparing ==
    /\ OnlyIn(steps, {"Preedit"})
    /\ rewrite_preview # None /\ panel = "comparison" /\ composition

\* Nothing but perhaps a preview.
Resting ==
    /\ steps = <<>> /\ state \in {"Idle", "OcrPreviewing"} /\ ~composition /\ C!Bare
    /\ IF Previewing THEN panel = "preview" ELSE panel \in {"hidden", "orphan"}

\* Whatever waits, one of these pictures is what it leads to.
Owed ==
    \/ Ending \/ Capturing \/ Starting \/ Prompting
    \/ Drawing \/ Overlaid \/ Comparing \/ Resting
WindowFit == SlotsFit /\ Owed

(***************************************************************************)
(* The streams and their events.                                           *)
(***************************************************************************)
Of(e, s) == e.kind # "Candidates" /\ e.slot = s
Over(e) == e.kind \in {"Final", "Error"}
\* No event of the stream in the queue; none after its last words.
Silence(q, s) == \A i \in 1..Len(q) : ~Of(q[i], s)
LastWords(q) == \A i, j \in 1..Len(q) : Over(q[i]) /\ i < j => ~Of(q[j], q[i].slot)
\* The worker has left, and nothing of it is on the way.
Spent(s) == streams[s] = "free" /\ Silence(chunks, s)
EventsFit ==
    /\ LastWords(batch) /\ LastWords(chunks)
    /\ \A i \in 1..Len(chunks) : Over(chunks[i]) => streams[chunks[i].slot] = "free"
    /\ \A i \in 1..Len(batch) : Over(batch[i]) => Spent(batch[i].slot)
    /\ state \in {"ResultReady", "Failed"} /\ current # None =>
        Spent(current) /\ Silence(batch, current)
\* The machine waits for the stream, or is about to cancel it.
Awaited == \/ state = "Streaming" /\ ~Starting
           \/ ui = "applying" /\ EndsIn(steps, {"CommitResult", "Cancel"})
OpenFit ==
    /\ current \in Slots \cup {None}
    /\ streams \in [Slots -> {"free", "open", "cancelled", "orphan"}]
    /\ \A s \in Slots : streams[s] = "open" => s = current /\ Awaited
StreamsFit == EventsFit /\ OpenFit

(***************************************************************************)
(* The queries.                                                            *)
(***************************************************************************)
\* Only the one action a key led to asks, and for the letters on screen.
AskFits(step) ==
    step.ask # None =>
        /\ ui = "applying" /\ Len(steps) = 1
        /\ step.do.act = "UpdatePinyin" /\ step.event = FALSE
        /\ step.ask = last_candidates_request
\* The answer has been taken from the queue; the request waits to be made.
InHand(p) ==
    \E i \in 1..Len(batch) : batch[i].kind = "Candidates" /\ batch[i].pinyin = p
ToAsk(p) == \E i \in 1..Len(steps) : steps[i].ask = p
AsksFit ==
    /\ pending \in Pinyins \cup {None}
    /\ started \in [Pinyins -> Nat] /\ working \in [Pinyins -> Nat]
    /\ \A i \in 1..Len(steps) : AskFits(steps[i])
    /\ state = "Pinyin" /\ candidates_in_flight =>
        \/ UnderWay(last_candidates_request)
        \/ InHand(last_candidates_request)
        \/ ToAsk(last_candidates_request)

\* The whole invariant, and the host it needs.
Cooperative == Handled /\ WindowFit /\ StreamsFit /\ AsksFit
HostCooperates == ~EditsFail /\ ~HostEndsInEdit

\* A host that obeys keeps the composition a recognised text is inserted into.
LEMMA ObeyedResult ==
    ASSUME HostCooperates, DrainResult
    PROVE  /\ ui = "draining" /\ M!BeginOcrPreview(<<M!OcrText>>)
           /\ IF state \in {"Idle", "OcrPreviewing"} THEN panel' = "preview"
              ELSE UNCHANGED panel
           /\ TakeBatch \/ UNCHANGED <<ui, batch, chunks>>
           /\ UNCHANGED <<steps, composition, queries, ai>>
BY DEF HostCooperates, Outcomes, DrainResult, Composing

\* What a host that obeys makes of each action.
LEMMA Obeyed ==
    ASSUME HostCooperates, Apply, NEW step, step = Head(steps)
    PROVE  /\ step.do.act = "UpdatePinyin" =>
                /\ Kept /\ composition' = TRUE /\ panel' \in {panel, "candidates"}
                /\ UNCHANGED ai
                /\ step.ask # None => ScheduleQuery(step.ask)
                /\ step.ask = None => UNCHANGED queries
           /\ step.do.act \in {"EnterPrompt", "UpdatePrompt"} =>
                /\ Kept /\ composition' = TRUE /\ UNCHANGED <<queries, ai>>
                /\ ai_preview = None => panel' = "hidden"
           /\ step.do.act = "UpdateResult" =>
                /\ Kept /\ composition' = TRUE /\ panel' = "overlay"
                /\ UNCHANGED <<queries, ai>>
           /\ step.do.act = "Preedit" =>
                Kept /\ composition' = TRUE /\ UNCHANGED <<panel, queries, ai>>
           /\ step.do.act \in StartActs =>
                /\ UNCHANGED queries
                /\ \/ Kept /\ composition' = TRUE /\ panel' = "overlay" /\ StartStream
                   \/ /\ NewMachine /\ composition' = FALSE /\ panel' = "hidden"
                      /\ UNCHANGED ai
           /\ step.do.act = "StartCapture" =>
                /\ NewMachine /\ composition' = FALSE /\ panel' = "hidden"
                /\ UNCHANGED <<queries, ai>>
           /\ step.do.act \in {"ResultReady", "LlmFailed"} =>
                /\ Kept /\ panel' \in {panel, "overlay"}
                /\ UNCHANGED <<composition, queries, ai>>
           /\ step.do.act = "RewriteReady" =>
                /\ M!BeginRewritePreview(step.do.rewritten, step.do.source)
                /\ state = "ResultReady" => panel' = "comparison"
                /\ UNCHANGED <<composition, queries, ai>>
           /\ step.do.act \in EndActs =>
                /\ Kept /\ composition' = FALSE /\ panel' = "hidden" /\ CancelQuery
                /\ step.do.act = "CommitImmediate" => UNCHANGED ai
                /\ step.do.act # "CommitImmediate" => CancelLlm
<1>0. ~EditsFail /\ Outcomes = {"works"}
  BY DEF HostCooperates, Outcomes
<1>1. SetPreedit("works") => Kept /\ composition' = TRUE
  BY DEF SetPreedit
<1>2. CASE ApplyPinyin
  <2>1. step.do.act = "UpdatePinyin"
    BY <1>2 DEF ApplyPinyin, Applying
  <2>2. /\ Kept /\ composition' = TRUE /\ panel' \in {panel, "candidates"}
        /\ UNCHANGED ai
        /\ step.ask # None => ScheduleQuery(step.ask)
        /\ step.ask = None => UNCHANGED queries
    BY <1>0, <1>1, <1>2 DEF ApplyPinyin
  <2> QED  BY <2>1, <2>2 DEF StartActs, EndActs
<1>3. CASE ApplyPrompt
  <2>1. step.do.act \in {"EnterPrompt", "UpdatePrompt"}
    BY <1>3 DEF ApplyPrompt, Applying
  <2>2. /\ Kept /\ composition' = TRUE /\ UNCHANGED <<queries, ai>>
        /\ ai_preview = None => panel' = "hidden"
    BY <1>0, <1>1, <1>3 DEF ApplyPrompt
  <2> QED  BY <2>1, <2>2 DEF StartActs, EndActs
<1>4. CASE ApplyResult
  <2>1. step.do.act = "UpdateResult"
    BY <1>4 DEF ApplyResult, Applying
  <2>2. Kept /\ composition' = TRUE /\ panel' = "overlay" /\ UNCHANGED <<queries, ai>>
    BY <1>0, <1>1, <1>4 DEF ApplyResult
  <2> QED  BY <2>1, <2>2 DEF StartActs, EndActs
<1>5. CASE ApplyPreedit
  <2>1. step.do.act = "Preedit"
    BY <1>5 DEF ApplyPreedit, Applying
  <2>2. Kept /\ composition' = TRUE /\ UNCHANGED <<panel, queries, ai>>
    BY <1>0, <1>1, <1>5 DEF ApplyPreedit
  <2> QED  BY <2>1, <2>2 DEF StartActs, EndActs
<1>6. CASE ApplyStart
  <2>1. step.do.act \in StartActs
    BY <1>6 DEF ApplyStart, Applying, StartActs
  <2>2. /\ UNCHANGED queries /\ Kept /\ composition' = TRUE /\ panel' = "overlay"
        /\ StartStream
    BY <1>0, <1>1, <1>6 DEF ApplyStart
  <2> QED  BY <2>1, <2>2 DEF StartActs, EndActs
<1>7. CASE \E n \in {0, 1} : ApplyCommand(n)
  <2>1. step.do.act = "StartLlm"
    BY <1>7 DEF ApplyCommand, Applying
  <2>2. /\ NewMachine /\ composition' = FALSE /\ panel' = "hidden"
        /\ UNCHANGED <<queries, ai>>
    BY <1>7 DEF ApplyCommand
  <2> QED  BY <2>1, <2>2 DEF StartActs, EndActs
<1>8. CASE ApplyStartCapture
  <2>1. step.do.act = "StartCapture"
    BY <1>8 DEF ApplyStartCapture, Applying
  <2>2. /\ NewMachine /\ composition' = FALSE /\ panel' = "hidden"
        /\ UNCHANGED <<queries, ai>>
    BY <1>8 DEF ApplyStartCapture
  <2> QED  BY <2>1, <2>2 DEF StartActs, EndActs
<1>9. CASE ApplyReady
  <2>1. step.do.act \in {"ResultReady", "LlmFailed"}
    BY <1>9 DEF ApplyReady, Applying
  <2>2. Kept /\ panel' \in {panel, "overlay"} /\ UNCHANGED <<composition, queries, ai>>
    BY <1>9 DEF ApplyReady
  <2> QED  BY <2>1, <2>2 DEF StartActs, EndActs
<1>10. CASE ApplyRewriteReady
  <2>1. step.do.act = "RewriteReady"
    BY <1>10 DEF ApplyRewriteReady, Applying
  <2>2. /\ M!BeginRewritePreview(step.do.rewritten, step.do.source)
        /\ state = "ResultReady" => panel' = "comparison"
        /\ UNCHANGED <<composition, queries, ai>>
    BY <1>10 DEF ApplyRewriteReady
  <2> QED  BY <2>1, <2>2 DEF StartActs, EndActs
<1>11. CASE ApplyCommit \/ ApplyCommitResult \/ ApplyCancel
  <2>1. /\ step.do.act \in EndActs
        /\ ApplyCommit <=> step.do.act = "CommitImmediate"
    BY <1>11 DEF ApplyCommit, ApplyCommitResult, ApplyCancel, Applying, EndActs
  <2>2. /\ Kept /\ composition' = FALSE /\ panel' = "hidden" /\ CancelQuery
        /\ ApplyCommit => UNCHANGED ai
        /\ ~ApplyCommit => CancelLlm
    BY <1>0, <1>11 DEF ApplyCommit, ApplyCommitResult, ApplyCancel
  <2> QED  BY <2>1, <2>2 DEF StartActs, EndActs
<1> QED
  BY <1>2, <1>3, <1>4, <1>5, <1>6, <1>7, <1>8, <1>9, <1>10, <1>11 DEF Apply

\* The list after its head is taken.
LEMMA ListTaken ==
    ASSUME UiFit, ui = "applying", Taken
    PROVE  /\ steps # <<>> /\ Len(steps) \in Nat \ {0} /\ Head(steps) = steps[1]
           /\ Len(steps') = Len(steps) - 1
           /\ \A i \in 1..Len(steps') : steps'[i] = steps[i + 1] /\ i + 1 \in 1..Len(steps)
           /\ Len(steps) = 1 <=> steps' = <<>>
           /\ ui' = IF Len(steps) = 1 THEN "idle" ELSE "applying"
           /\ \A acts : OnlyIn(steps, acts) => OnlyIn(steps', acts)
           /\ \A acts : FrontIn(steps, acts) => FrontIn(steps', acts)
           /\ \A acts : steps' # <<>> /\ EndsIn(steps, acts) => EndsIn(steps', acts)
           /\ ComparedLast(steps) => ComparedLast(steps')
<1>1. steps # <<>> /\ Listed(steps)
  BY DEF UiFit
<1>2. /\ Len(steps) \in Nat \ {0} /\ Head(steps) = steps[1]
      /\ Len(Tail(steps)) = Len(steps) - 1 /\ Listed(Tail(steps))
      /\ \A i \in 1..(Len(steps) - 1) : Tail(steps)[i] = steps[i + 1]
  BY <1>1, TailListed
<1>3. /\ steps' = Tail(steps)
      /\ ui' = IF Len(steps) = 1 THEN "idle" ELSE "applying"
  BY DEF Taken
<1>4. Len(steps') = Len(steps) - 1
  BY <1>2, <1>3
<1>5. \A i \in 1..Len(steps') : steps'[i] = steps[i + 1] /\ i + 1 \in 1..Len(steps)
  BY <1>2, <1>3, <1>4
<1>6. Len(steps) = 1 <=> steps' = <<>>
  <2>1. Len(steps) = 1 => Tail(steps) = <<>>
    BY <1>1, TailListed
  <2>2. Tail(steps) = <<>> => Len(Tail(steps)) = 0
    BY FewActs
  <2>3. Tail(steps) = <<>> <=> Len(steps) = 1
    BY <1>2, <2>1, <2>2
  <2> QED  BY <1>3, <2>3
<1>7. \A acts : OnlyIn(steps, acts) => OnlyIn(steps', acts)
  BY <1>5 DEF OnlyIn
<1>8. \A acts : FrontIn(steps, acts) => FrontIn(steps', acts)
  <2>1. \A i \in 1..(Len(steps') - 1) :
            steps'[i] = steps[i + 1] /\ i + 1 \in 1..(Len(steps) - 1)
    BY <1>2, <1>4, <1>5
  <2> QED  BY <2>1 DEF FrontIn
<1>9. \A acts : steps' # <<>> /\ EndsIn(steps, acts) => EndsIn(steps', acts)
  <2>1. steps' # <<>> => Len(steps') \in 1..Len(steps')
    BY <1>2, <1>4, <1>6
  <2>2. steps' # <<>> => steps'[Len(steps')] = steps[Len(steps)]
    BY <1>2, <1>4, <1>5, <2>1
  <2> QED  BY <2>2 DEF EndsIn
<1>10. ComparedLast(steps) => ComparedLast(steps')
  <2>1. ASSUME ComparedLast(steps), NEW i \in 1..Len(steps'), NEW j \in 1..Len(steps'),
               i < j, steps'[i].do.act = "RewriteReady"
        PROVE  steps'[j].do.act = "Preedit"
    <3>1. /\ steps'[i] = steps[i + 1] /\ i + 1 \in 1..Len(steps)
          /\ steps'[j] = steps[j + 1] /\ j + 1 \in 1..Len(steps)
      BY <1>5
    <3>2. i + 1 < j + 1
      BY <1>2, <1>4, <2>1
    <3>3. steps[i + 1].do.act = "RewriteReady"
      BY <2>1, <3>1
    <3> QED  BY <2>1, <3>1, <3>2, <3>3 DEF ComparedLast
  <2> QED  BY <2>1 DEF ComparedLast
<1> QED  BY <1>1, <1>2, <1>3, <1>4, <1>5, <1>6, <1>7, <1>8, <1>9, <1>10

\* When nothing waits, one of four pictures is on the screen.
LEMMA Pictures ==
    ASSUME Owed, steps = <<>>
    PROVE  Drawing \/ Overlaid \/ Comparing \/ Resting
<1>1. Len(<<>>) = 0
  OBVIOUS
<1> QED  BY <1>1 DEF Owed, Ending, Capturing, Starting, Prompting, EndsIn, One

\* An empty list.
LEMMA NoSteps ==
    /\ \A acts : OnlyIn(<<>>, acts)
    /\ ComparedLast(<<>>)
BY DEF OnlyIn, ComparedLast

\* A list of one action.
LEMMA OneAction ==
    ASSUME NEW s, Len(s) = 1, NEW acts, s[1].do.act \in acts
    PROVE  OnlyIn(s, acts) /\ FrontIn(s, {}) /\ EndsIn(s, acts) /\ One(s, acts) /\ s # <<>>
<1>1. \A i \in 1..Len(s) : i = 1
  OBVIOUS
<1>2. s # <<>> /\ 1..(Len(s) - 1) = {}
  <2>1. Len(<<>>) = 0
    OBVIOUS
  <2> QED  BY <2>1
<1> QED  BY <1>1, <1>2 DEF OnlyIn, FrontIn, EndsIn, One

\* A key: what the machine answers is owed next.
LEMMA ReplyOwed ==
    ASSUME Handled, WindowFit, Handled', ui \in {"idle", "routing"},
           state # "OcrPreviewing", Fits, Shaped, Returned,
           UNCHANGED <<composition, panel>>,
           state = "Streaming" =>
                out' = <<>> \/ C!Says("CommitResult") \/ C!Says("Cancel")
    PROVE  WindowFit'
<1>1. SlotsFit' /\ C!Reply /\ SlotsFit
  BY DEF Fits, WindowFit
<1>2. steps = <<>> /\ (Drawing \/ Overlaid \/ Comparing \/ Resting)
  BY Pictures DEF Handled, UiFit, WindowFit
<1>3. /\ out' = <<>> => steps' = <<>> /\ ui' = "idle"
      /\ out' # <<>> => Len(steps') = 1 /\ ui' = "applying" /\ steps'[1].do = out'[1]
  <2>1. out' = <<>> \/ Len(out') = 1
    BY DEF Shaped, C!Says
  <2> QED  BY <2>1, ReturnedShape
<1>4. \A name : C!Says(name) =>
            out' # <<>> /\ Len(steps') = 1 /\ steps'[1].do.act = name /\ ui' = "applying"
  <2>1. Len(<<>>) = 0
    OBVIOUS
  <2> QED  BY <1>3, <2>1 DEF C!Says
<1>5. CASE C!Silent
  <2>1. /\ steps' = <<>> /\ ui' = "idle"
        /\ UNCHANGED <<steps, state, rewrite_preview, ai_preview, pinyin_buffer>>
    BY <1>2, <1>3, <1>5 DEF C!Silent
  <2>2. Drawing' \/ Overlaid' \/ Comparing' \/ Resting'
    BY <1>2, <2>1
       DEF Drawing, Overlaid, Comparing, Resting, Plain, C!Bare, Previewing
  <2> QED  BY <1>1, <2>2 DEF WindowFit, Owed
<1>6. CASE /\ C!Says("UpdatePinyin") /\ C!Bare /\ C!Bare'
           /\ state' \in {"Pinyin", "Prompt"} /\ pinyin_buffer' # <<>>
  <2>1. OnlyIn(steps', DrawActs) /\ steps' # <<>>
    BY <1>4, <1>6, OneAction DEF DrawActs
  <2>2. panel \in {"hidden", "candidates", "orphan"}
    BY <1>2, <1>6 DEF Drawing, Overlaid, Comparing, Resting, C!Bare, Previewing
  <2>3. Drawing'
    BY <1>6, <2>1, <2>2 DEF Drawing, Plain, Previewing
  <2> QED  BY <1>1, <2>3 DEF WindowFit, Owed
<1>7. CASE /\ C!Says("UpdatePrompt") \/ C!Says("EnterPrompt")
           /\ C!Bare' /\ state' \in {"PendingSlash", "Prompt"}
  <2>1. One(steps', {"UpdatePrompt", "EnterPrompt"}) /\ ui' = "applying"
    BY <1>4, <1>7 DEF One
  <2> QED  BY <1>1, <1>7, <2>1 DEF WindowFit, Owed, Prompting
<1>8. CASE /\ C!Says("CommitImmediate") \/ C!Says("CommitResult") \/ C!Says("Cancel")
           /\ C!Bare' /\ state' \in {"Idle", "PendingSlash"}
  <2>1. Len(steps') = 1 /\ steps'[1].do.act \in EndActs /\ ui' = "applying"
    BY <1>4, <1>8 DEF EndActs
  <2>2. EndsIn(steps', EndActs) /\ FrontIn(steps', {})
    BY <2>1, OneAction
  <2> QED  BY <1>1, <1>8, <2>1, <2>2 DEF WindowFit, Owed, Ending, FrontIn
<1>9. CASE C!Says("StartCapture") /\ UNCHANGED state
  <2>1. One(steps', {"StartCapture"}) /\ ui' = "applying"
    BY <1>4, <1>9 DEF One
  <2>2. state # "Streaming"
    BY <1>9 DEF C!Says
  <2> QED  BY <1>1, <1>9, <2>1, <2>2 DEF WindowFit, Owed, Capturing
<1>10. CASE (C!Says("StartLlm") \/ C!Says("StartRewrite")) /\ state' = "Streaming"
  <2>1. One(steps', StartActs) /\ ui' = "applying"
    BY <1>4, <1>10 DEF One, StartActs
  <2>2. ai_preview' # None
    BY <1>1, <1>10, NoneApart DEF SlotsFit, C!SlotsFit, Covered
  <2> QED  BY <1>1, <1>10, <2>1, <2>2 DEF WindowFit, Owed, Starting
<1> QED  BY <1>1, <1>5, <1>6, <1>7, <1>8, <1>9, <1>10 DEF C!Reply

\* While a stream is open, keys settle it, cancel it or are swallowed.
LEMMA StreamingKeys ==
    ASSUME state = "Streaming", NEW k, NEW was, Feed(k, was)
    PROVE  \/ out' = <<>> /\ UNCHANGED state
           \/ (C!Says("CommitResult") \/ C!Says("Cancel")) /\ state' = "Idle"
<1>1. M!ConfirmResult => \/ out' = <<>> /\ UNCHANGED state
                         \/ C!Says("CommitResult") /\ state' = "Idle"
  BY SayFacts DEF M!ConfirmResult
<1>2. ASSUME NEW c, M!FeedChar(c)
      PROVE  M!FeedStreaming(c)
  BY <1>2
     DEF M!FeedChar, M!FeedIdle, M!FeedPendingSlash, M!FeedPinyinSlash, M!Paginate,
         M!FeedPinyinSpace, M!SpaceAt, M!FeedPinyinLetter, M!FeedPinyinSuffix,
         M!FeedPinyinDigit, M!FeedPromptComposing, M!FeedPromptPlain, M!FeedAiPreview
<1>3. CASE \E c : M!FeedChar(c)
  BY <1>1, <1>2, <1>3, SayFacts DEF M!FeedStreaming
<1>4. CASE M!Paginate(1) \/ M!FeedArrow(FALSE)
  BY <1>4 DEF M!Paginate, M!FeedArrow
<1>5. CASE M!FeedEnter
  BY <1>1, <1>5 DEF M!FeedEnter, M!EndOcrPreview
<1>6. CASE M!FeedBackspace
  BY <1>6, SayFacts
     DEF M!FeedBackspace, M!NoAction, M!FeedAiPreview, M!EndOcrPreview
<1>7. CASE M!FeedEscape
  BY <1>7, SayFacts DEF M!FeedEscape
<1> QED  BY <1>3, <1>4, <1>5, <1>6, <1>7 DEF Feed

\* A key keeps the window in step: on_test_key_down and on_key_down.
LEMMA KeysOwed ==
    ASSUME Handled, WindowFit, Handled', NEW k \in Keys, UserKey(k)
    PROVE  WindowFit'
<1>1. CASE TestKeyDown(k)
  <2>1. /\ ui = "idle" /\ ui' = "claimed" /\ UNCHANGED <<machine, steps, panel, composition>>
    BY <1>1 DEF TestKeyDown, Claimed
  <2>2. steps = <<>> /\ (Drawing \/ Overlaid \/ Comparing \/ Resting)
    BY <2>1, Pictures DEF Handled, UiFit, WindowFit
  <2>3. SlotsFit' /\ UNCHANGED <<state, pinyin_buffer, ai_preview, rewrite_preview>>
    BY <2>1, KeptMachine DEF WindowFit, machine
  <2>4. Drawing' \/ Overlaid' \/ Comparing' \/ Resting'
    BY <2>1, <2>2, <2>3 DEF Drawing, Overlaid, Comparing, Resting, Plain, C!Bare, Previewing
  <2> QED  BY <2>3, <2>4 DEF WindowFit, Owed
<1>2. CASE KeyDown(k)
  <2>1. ui = "idle" /\ state # "OcrPreviewing" /\ Feed(k, state) /\ C!Fit
    BY <1>2 DEF KeyDown, Claimed, Previewing, Handled
  <2>2. /\ Fits /\ Shaped /\ Returned
        /\ UNCHANGED <<composition, panel>>
    BY <2>1, FeedFits
  <2>3. state = "Streaming" => out' = <<>> \/ C!Says("CommitResult") \/ C!Says("Cancel")
    BY <2>1, StreamingKeys
  <2> QED  BY <2>1, <2>2, <2>3, ReplyOwed
<1>3. CASE KeyDownRewrite(k)
  <2>1. /\ Returned /\ C!Fit /\ \E key_ : M!FeedRewritePreview(key_)
    BY <1>3 DEF KeyDownRewrite, Handled
  <2>2. /\ SlotsFit' /\ C!Bare' /\ state' = "Idle"
        /\ C!Says("CommitImmediate") \/ C!Says("Cancel")
    BY <2>1, RewriteKeyFits DEF WindowFit
  <2>3. Len(steps') = 1 /\ steps'[1].do = out'[1] /\ ui' = "applying"
    <3>1. Len(out') = 1
      BY <2>2 DEF C!Says
    <3>2. Len(<<>>) = 0
      OBVIOUS
    <3>3. out' # <<>>
      BY <3>1, <3>2
    <3> QED  BY <2>1, <3>1, <3>3, ReturnedShape
  <2>4. steps'[1].do.act \in EndActs
    BY <2>2, <2>3 DEF C!Says, EndActs
  <2>5. EndsIn(steps', EndActs) /\ FrontIn(steps', {})
    BY <2>3, <2>4, OneAction
  <2> QED  BY <2>2, <2>3, <2>5 DEF WindowFit, Owed, Ending, FrontIn
<1> QED  BY <1>1, <1>2, <1>3 DEF UserKey

\* A preview is the only picture with no composition.
LEMMA PreviewRests ==
    ASSUME Handled, WindowFit, Previewing
    PROVE  Resting /\ steps = <<>>
<1>1. steps = <<>> /\ (Drawing \/ Overlaid \/ Comparing \/ Resting)
  BY Pictures DEF Handled, UiFit, WindowFit
<1> QED
  BY <1>1 DEF WindowFit, SlotsFit, C!SlotsFit, Covered, Drawing, Plain, Overlaid, Comparing, Previewing

\* So do the keys that find or end a preview.
LEMMA HandlersOwed ==
    ASSUME Handled, WindowFit, Handled', KeyHandler
    PROVE  WindowFit'
<1>1. CASE KeyDownPreview
  <2>1. /\ Previewing /\ Returned /\ panel' = "hidden" /\ UNCHANGED composition
        /\ \E k \in {"Confirm", "Escape"} : M!FeedOcrPreview(k)
    BY <1>1 DEF KeyDownPreview
  <2>2. /\ SlotsFit' /\ C!Bare' /\ state' = "Idle"
        /\ out' = <<>> \/ C!Says("CommitImmediate") \/ C!Says("Cancel")
    BY <2>1, OcrFits DEF Handled, WindowFit
  <2>3. /\ out' = <<>> => steps' = <<>>
        /\ out' # <<>> => Len(steps') = 1 /\ ui' = "applying" /\ steps'[1].do = out'[1]
    BY <2>1, <2>2, ReturnedShape DEF C!Says
  <2>4. CASE out' = <<>>
    BY <2>1, <2>2, <2>3, <2>4, PreviewRests DEF Resting, WindowFit, Owed, Previewing, C!Bare
  <2>5. CASE out' # <<>>
    <3>1. steps'[1].do.act \in EndActs
      BY <2>2, <2>3, <2>5 DEF C!Says, EndActs
    <3>2. EndsIn(steps', EndActs) /\ FrontIn(steps', {})
      BY <2>3, <2>5, <3>1, OneAction
    <3> QED  BY <2>2, <2>3, <2>5, <3>2 DEF WindowFit, Owed, Ending, FrontIn
  <2> QED  BY <2>4, <2>5
<1>2. CASE KeyDownEndsPreview
  <2>1. /\ Previewing /\ M!EndOcrPreview /\ panel' = "hidden"
        /\ UNCHANGED <<steps, composition>>
    BY <1>2 DEF KeyDownEndsPreview
  <2>2. SlotsFit' /\ C!Bare' /\ state' = "Idle"
    BY <2>1, OcrFits DEF Handled, WindowFit
  <2> QED
    BY <2>1, <2>2, PreviewRests DEF Resting, WindowFit, Owed, Previewing, C!Bare
<1>3. CASE KeyDownGoesOn
  <2>1. ui = "routing" /\ state = "Idle" /\ Feed(key, before)
    BY <1>3 DEF KeyDownGoesOn, Handled, UiFit
  <2>2. /\ Fits /\ Shaped /\ Returned
        /\ UNCHANGED <<composition, panel>>
    BY <2>1, FeedFits DEF Handled
  <2> QED  BY <2>1, <2>2, ReplyOwed
<1> QED  BY <1>1, <1>2, <1>3 DEF KeyHandler

\* So do the deadline and a recognised text, which show and hide the preview.
LEMMA TimerOwed ==
    ASSUME HostCooperates, Handled, WindowFit, Handled', Tick \/ DrainResult
    PROVE  WindowFit'
<1>1. /\ steps = <<>> /\ (Drawing \/ Overlaid \/ Comparing \/ Resting)
      /\ UNCHANGED <<steps, composition>>
  BY ObeyedResult, Pictures DEF Handled, UiFit, WindowFit, Tick
<1>2. CASE UNCHANGED <<machine, panel>>
  <2>1. SlotsFit' /\ UNCHANGED <<state, pinyin_buffer, ai_preview, rewrite_preview>>
    BY <1>2, KeptMachine DEF WindowFit, machine
  <2>2. Drawing' \/ Overlaid' \/ Comparing' \/ Resting'
    BY <1>1, <1>2, <2>1
       DEF Drawing, Overlaid, Comparing, Resting, Plain, C!Bare, Previewing
  <2> QED  BY <2>1, <2>2 DEF WindowFit, Owed
<1>3. CASE M!ExpireStaleOcrPreview /\ panel' = "hidden"
  <2>1. Previewing
    BY <1>3 DEF M!ExpireStaleOcrPreview, M!EndOcrPreview, Previewing
  <2>2. SlotsFit' /\ C!Bare' /\ state' = "Idle"
    BY <1>3, OcrFits DEF M!ExpireStaleOcrPreview, Handled, WindowFit
  <2> QED
    BY <1>1, <1>3, <2>1, <2>2, PreviewRests DEF Resting, WindowFit, Owed, Previewing, C!Bare
<1>4. CASE /\ M!BeginOcrPreview(<<M!OcrText>>)
           /\ IF state \in {"Idle", "OcrPreviewing"} THEN panel' = "preview"
              ELSE UNCHANGED panel
  <2>1. /\ SlotsFit' /\ UNCHANGED <<pinyin_buffer, ai_preview, rewrite_preview>>
        /\ state' = IF state \in {"Idle", "OcrPreviewing"} THEN "OcrPreviewing"
                    ELSE state
    BY <1>4, BeginOcrFits DEF Handled, WindowFit, M!pinyinVars
  <2>2. CASE state \in {"Idle", "OcrPreviewing"}
    <3>1. Resting
      BY <1>1, <2>2
         DEF WindowFit, SlotsFit, C!SlotsFit, Covered, Drawing, Plain, Previewing, Overlaid, Comparing
    <3> QED
      BY <1>1, <1>4, <2>1, <2>2, <3>1 DEF Resting, WindowFit, Owed, Previewing, C!Bare
  <2>3. CASE state \notin {"Idle", "OcrPreviewing"}
    <3>1. Drawing' \/ Overlaid' \/ Comparing' \/ Resting'
      BY <1>1, <1>4, <2>1, <2>3
         DEF Drawing, Overlaid, Comparing, Resting, Plain, C!Bare, Previewing
    <3> QED  BY <2>1, <3>1 DEF WindowFit, Owed
  <2> QED  BY <2>2, <2>3
<1> QED  BY <1>2, <1>3, <1>4, ObeyedResult DEF Tick

\* So do the workers, the clock, and what replaces the machine between handlers.
LEMMA OutsideOwed ==
    ASSUME Handled, WindowFit, Handled',
           \/ Hotkey \/ Workers \/ DeadlinePasses \/ HostEndsComposition
           \/ Toggle \/ Deactivate \/ Activate \/ UNCHANGED vars
    PROVE  WindowFit'
<1>1. ASSUME UNCHANGED <<machine, ui, steps, panel, composition>>
      PROVE  WindowFit'
  <2>1. SlotsFit' /\ UNCHANGED <<state, pinyin_buffer, ai_preview, rewrite_preview>>
    BY <1>1, KeptMachine DEF WindowFit, machine
  <2>2. Owed'
    BY <1>1, <2>1
       DEF WindowFit, Owed, Ending, Capturing, Starting, Prompting, Drawing, Overlaid,
           Comparing, Resting, Plain, C!Bare, Previewing
  <2> QED  BY <2>1, <2>2 DEF WindowFit
<1>2. CASE Hotkey \/ Workers \/ DeadlinePasses \/ Activate \/ UNCHANGED vars
  BY <1>1, <1>2
     DEF Hotkey, Workers, QueryStarts, QueryEnds, StreamSends, StreamEnds, CaptureEnds,
         DeadlinePasses, Activate, vars, handler, Others
<1>3. ASSUME ui = "idle", NewMachine, composition' = FALSE, UNCHANGED <<ui, steps>>,
             panel' \in {"hidden", "orphan"}
      PROVE  WindowFit'
  <2>1. SlotsFit' /\ C!Bare' /\ state' = "Idle" /\ steps' = <<>>
    BY <1>3, NewFits DEF Handled, UiFit
  <2> QED  BY <1>3, <2>1 DEF WindowFit, Owed, Resting, Previewing
<1>4. CASE HostEndsComposition \/ Deactivate \/ (Toggle /\ state # "Idle")
  BY <1>3, <1>4 DEF HostEndsComposition, Deactivate, Toggle, handler
<1>5. CASE Toggle /\ state = "Idle"
  <2>1. /\ ui = "idle" /\ panel' = "hidden" /\ UNCHANGED <<machine, composition, steps>>
    BY <1>5 DEF Toggle, handler
  <2>2. steps = <<>> /\ (Drawing \/ Overlaid \/ Comparing \/ Resting)
    BY <2>1, Pictures DEF Handled, UiFit, WindowFit
  <2>3. Resting
    BY <1>5, <2>2 DEF WindowFit, SlotsFit, C!SlotsFit, Covered, Drawing, Overlaid, Comparing
  <2>4. SlotsFit' /\ UNCHANGED <<state, ai_preview, rewrite_preview>>
    BY <2>1, KeptMachine DEF WindowFit, machine
  <2> QED  BY <1>5, <2>1, <2>3, <2>4 DEF WindowFit, Owed, Resting, Previewing, C!Bare
<1> QED  BY <1>2, <1>4, <1>5

\* So does apply_action: each action draws what the machine had in mind, and what is
\* still owed follows it.
LEMMA ApplyOwed ==
    ASSUME HostCooperates, Handled, WindowFit, Handled', Apply
    PROVE  WindowFit'
<1> DEFINE step == Head(steps)
<1>1. ui = "applying" /\ Taken
  BY ApplyMoves
<1>2. /\ steps # <<>> /\ Len(steps) \in Nat \ {0} /\ step = steps[1]
      /\ Len(steps') = Len(steps) - 1
      /\ Len(steps) = 1 <=> steps' = <<>>
      /\ ui' = IF Len(steps) = 1 THEN "idle" ELSE "applying"
  BY <1>1, ListTaken DEF Handled
<1>3. /\ \A acts : OnlyIn(steps, acts) => OnlyIn(steps', acts)
      /\ \A acts : FrontIn(steps, acts) => FrontIn(steps', acts)
      /\ \A acts : steps' # <<>> /\ EndsIn(steps, acts) => EndsIn(steps', acts)
      /\ ComparedLast(steps) => ComparedLast(steps')
  BY <1>1, ListTaken DEF Handled
<1>4. \A acts : OnlyIn(steps, acts) => step.do.act \in acts
  BY <1>2 DEF OnlyIn
<1>5. /\ step.do.act = "UpdatePinyin" =>
            Kept /\ composition' = TRUE /\ panel' \in {panel, "candidates"}
      /\ step.do.act \in {"EnterPrompt", "UpdatePrompt"} =>
            Kept /\ composition' = TRUE /\ (ai_preview = None => panel' = "hidden")
      /\ step.do.act = "UpdateResult" => Kept /\ composition' = TRUE /\ panel' = "overlay"
      /\ step.do.act = "Preedit" => Kept /\ composition' = TRUE /\ UNCHANGED panel
  BY Obeyed
<1>6. /\ step.do.act \in StartActs =>
            \/ Kept /\ composition' = TRUE /\ panel' = "overlay"
            \/ NewMachine /\ composition' = FALSE /\ panel' = "hidden"
      /\ step.do.act = "StartCapture" =>
            NewMachine /\ composition' = FALSE /\ panel' = "hidden"
      /\ step.do.act \in {"ResultReady", "LlmFailed"} =>
            Kept /\ panel' \in {panel, "overlay"} /\ UNCHANGED composition
      /\ step.do.act = "RewriteReady" =>
            /\ M!BeginRewritePreview(step.do.rewritten, step.do.source)
            /\ state = "ResultReady" => panel' = "comparison"
            /\ UNCHANGED composition
      /\ step.do.act \in EndActs => Kept /\ composition' = FALSE /\ panel' = "hidden"
  BY Obeyed
<1> HIDE DEF step
<1>7. SlotsFit
  BY DEF WindowFit
<1>8. Kept => /\ SlotsFit'
              /\ UNCHANGED <<state, pinyin_buffer, ai_preview, rewrite_preview>>
  BY <1>7, KeptMachine DEF Kept
<1>9. NewMachine /\ composition' = FALSE /\ panel' = "hidden" /\ steps' = <<>> => WindowFit'
  BY NewFits DEF Handled, WindowFit, Owed, Resting, Previewing
<1>10. CASE Ending
  <2>1. CASE Len(steps) = 1
    <3>1. step.do.act \in EndActs
      BY <1>2, <1>10, <2>1 DEF Ending, EndsIn
    <3>2. /\ SlotsFit' /\ C!Bare' /\ UNCHANGED state /\ composition' = FALSE
          /\ panel' = "hidden" /\ steps' = <<>>
      BY <1>2, <1>6, <1>8, <1>10, <2>1, <3>1 DEF Ending, C!Bare
    <3> QED
      BY <1>10, <3>2, NoSteps DEF Ending, WindowFit, Owed, Resting, Drawing, Plain, Previewing
  <2>2. CASE Len(steps) # 1
    <3>1. step.do.act \in DrawActs
      BY <1>2, <1>10, <2>2 DEF Ending, FrontIn
    <3>2. SlotsFit' /\ UNCHANGED <<state, ai_preview, rewrite_preview>>
      BY <1>5, <1>8, <3>1 DEF DrawActs
    <3>3. EndsIn(steps', EndActs) /\ FrontIn(steps', DrawActs) /\ ui' = "applying"
      BY <1>2, <1>3, <1>10, <2>2 DEF Ending
    <3> QED  BY <1>10, <3>2, <3>3 DEF Ending, WindowFit, Owed, C!Bare
  <2> QED  BY <2>1, <2>2
<1>11. CASE Capturing
  BY <1>2, <1>6, <1>9, <1>11 DEF Capturing, One
<1>12. CASE Starting
  <2>1. step.do.act \in StartActs /\ steps' = <<>>
    BY <1>2, <1>12 DEF Starting, One
  <2>2. CASE Kept /\ composition' = TRUE /\ panel' = "overlay"
    <3>1. OnlyIn(steps', ResultActs) /\ ComparedLast(steps')
          /\ OnlyIn(steps', ResultActs \ {"RewriteReady"})
      BY <2>1, NoSteps
    <3> QED  BY <1>8, <1>12, <2>2, <3>1 DEF Starting, Overlaid, WindowFit, Owed
  <2> QED  BY <1>6, <1>9, <2>1, <2>2
<1>13. CASE Prompting
  <2>1. step.do.act \in {"EnterPrompt", "UpdatePrompt"} /\ steps' = <<>>
    BY <1>2, <1>13 DEF Prompting, One
  <2>2. /\ SlotsFit' /\ UNCHANGED <<state, pinyin_buffer, ai_preview, rewrite_preview>>
        /\ composition' = TRUE /\ panel' = "hidden"
    BY <1>5, <1>8, <1>13, <2>1 DEF Prompting, C!Bare
  <2>3. OnlyIn(steps', DrawActs) /\ OnlyIn(steps', {"Preedit"})
    BY <2>1, NoSteps
  <2> QED
    BY <1>13, <2>2, <2>3
       DEF Prompting, Drawing, Plain, C!Bare, Previewing, WindowFit, Owed
<1>14. CASE Drawing
  <2>1. /\ step.do.act \in DrawActs
        /\ pinyin_buffer = <<>> => step.do.act = "Preedit"
    BY <1>4, <1>14 DEF Drawing
  <2>2. /\ SlotsFit' /\ UNCHANGED <<state, pinyin_buffer, ai_preview, rewrite_preview>>
        /\ composition' = TRUE
        /\ UNCHANGED panel \/ (panel' = "candidates" /\ pinyin_buffer # <<>>)
    BY <1>5, <1>8, <2>1 DEF DrawActs
  <2>3. /\ OnlyIn(steps', DrawActs)
        /\ pinyin_buffer = <<>> => OnlyIn(steps', {"Preedit"})
    BY <1>3, <1>14 DEF Drawing
  <2> QED
    BY <1>14, <2>2, <2>3 DEF Drawing, Plain, C!Bare, Previewing, WindowFit, Owed
<1>15. CASE Overlaid
  <2>1. step.do.act \in ResultActs
    BY <1>4, <1>15 DEF Overlaid
  <2>2. CASE step.do.act # "RewriteReady"
    <3>1. /\ SlotsFit' /\ UNCHANGED <<state, ai_preview>>
          /\ composition' /\ panel' = "overlay"
      BY <1>5, <1>6, <1>8, <1>15, <2>1, <2>2 DEF Overlaid, ResultActs
    <3>2. /\ OnlyIn(steps', ResultActs) /\ ComparedLast(steps')
          /\ state # "ResultReady" => OnlyIn(steps', ResultActs \ {"RewriteReady"})
      BY <1>3, <1>15 DEF Overlaid
    <3> QED  BY <1>15, <3>1, <3>2 DEF Overlaid, WindowFit, Owed
  <2>3. CASE step.do.act = "RewriteReady"
    <3>1. state = "ResultReady"
      BY <1>4, <1>15, <2>3 DEF Overlaid
    <3>2. step.do.rewritten \in Nat /\ step.do.source \in C!Texts
      <4>1. 1 \in 1..Len(steps) /\ SourceFits(steps[1])
        BY <1>2 DEF Handled, UiFit
      <4> QED  BY <1>2, <2>3, <4>1 DEF SourceFits
    <3>3. /\ SlotsFit' /\ rewrite_preview' # None /\ panel' = "comparison"
          /\ UNCHANGED composition
      BY <1>6, <1>7, <2>3, <3>1, <3>2, BeginRewriteFits DEF Handled
    <3>4. OnlyIn(steps', {"Preedit"})
      <4> SUFFICES ASSUME NEW i \in 1..Len(steps')
                   PROVE  steps'[i].do.act = "Preedit"
        BY DEF OnlyIn
      <4>1. steps'[i] = steps[i + 1] /\ i + 1 \in 1..Len(steps)
        BY <1>1, ListTaken DEF Handled
      <4>2. 1 \in 1..Len(steps) /\ 1 < i + 1 /\ steps[1].do.act = "RewriteReady"
        BY <1>2, <2>3
      <4> QED  BY <1>15, <4>1, <4>2 DEF Overlaid, ComparedLast
    <3> QED  BY <1>15, <3>3, <3>4 DEF Overlaid, Comparing, WindowFit, Owed
  <2> QED  BY <2>2, <2>3
<1>16. CASE Comparing
  <2>1. step.do.act = "Preedit"
    BY <1>4, <1>16 DEF Comparing
  <2>2. OnlyIn(steps', {"Preedit"})
    BY <1>3, <1>16 DEF Comparing
  <2> QED  BY <1>5, <1>8, <1>16, <2>1, <2>2 DEF Comparing, WindowFit, Owed
<1> QED
  BY <1>2, <1>10, <1>11, <1>12, <1>13, <1>14, <1>15, <1>16 DEF WindowFit, Owed, Resting

\* An event that says nothing leaves the list alone.
LEMMA CollectedNone ==
    ASSUME Listed(steps)
    PROVE  Collected(<<>>) = steps
<1>1. PICK k : Added(<<>>, k)
  BY FewActs, CollectedShape
<1>2. Len(<<>>) = 0 /\ Len(steps) \in Nat
  BY ListedLength
<1>3. k = Len(steps) /\ Len(Collected(<<>>)) = Len(steps)
      /\ \A i \in 1..Len(steps) : Collected(<<>>)[i] = steps[i]
  BY <1>1, <1>2 DEF Added
<1>4. Listed(Collected(<<>>))
  BY <1>1 DEF Added
<1> DEFINE T == {steps[i] : i \in 1..Len(steps)}
           new == Collected(<<>>)
<1> HIDE DEF new
<1>5. {new[i] : i \in 1..Len(new)} = T
  BY <1>3 DEF new
<1>6. new \in Seq(T) /\ steps \in Seq(T)
  BY <1>4, <1>5 DEF Listed, new
<1>7. Len(new) = Len(steps) /\ \A i \in 1..Len(new) : new[i] = steps[i]
  BY <1>3 DEF new
<1> HIDE DEF T
<1>8. new = steps
  BY <1>6, <1>7, SeqEqual
<1> QED  BY <1>8 DEF new

\* What is known of the list after an event.
LEMMA CollectedActs ==
    ASSUME Listed(steps), NEW acts, Listed(acts)
    PROVE  /\ \A S : OnlyIn(steps, S) /\ (\A i \in 1..Len(acts) : acts[i].act \in S)
                        => OnlyIn(Collected(acts), S)
           /\ \A S, T : /\ OnlyIn(steps, S) /\ Len(acts) = 1 /\ acts[1].act \in T
                        /\ acts[1].act # "UpdateResult"
                        => FrontIn(Collected(acts), S) /\ EndsIn(Collected(acts), T)
           /\ acts # <<>> => Collected(acts) # <<>>
           /\ ComparedLast(steps) /\ (\A i \in 1..Len(acts) : acts[i].act = "Preedit")
                => ComparedLast(Collected(acts))
           /\ /\ OnlyIn(steps, ResultActs \ {"RewriteReady"})
              /\ \A i, j \in 1..Len(acts) : i < j => acts[j].act = "Preedit"
              => ComparedLast(Collected(acts))
<1>1. PICK k : Added(acts, k)
  BY CollectedShape
<1> DEFINE all == Collected(acts)
<1>2. Len(acts) \in Nat /\ Len(steps) \in Nat /\ k \in Nat /\ k <= Len(steps)
      /\ Len(all) = k + Len(acts) /\ (acts = <<>> <=> Len(acts) = 0)
      /\ (all = <<>> <=> Len(all) = 0)
  BY <1>1, ListedLength DEF Added
<1>3. \A i \in 1..k : all[i] = steps[i] /\ i \in 1..Len(steps)
  BY <1>1, <1>2 DEF Added
<1>4. \A j \in 1..Len(acts) : all[k + j].do = acts[j]
  BY <1>1, EventFields DEF Added
<1>5. \A i \in 1..Len(all) : i \in 1..k \/ \E j \in 1..Len(acts) : i = k + j
  <2> TAKE i \in 1..Len(all)
  <2>1. CASE i <= k
    BY <1>2, <2>1
  <2>2. CASE ~(i <= k)
    <3>1. i - k \in 1..Len(acts) /\ i = k + (i - k)
      BY <1>2, <2>2
    <3> QED  BY <3>1
  <2> QED  BY <2>1, <2>2
<1> HIDE DEF all
<1>6. ASSUME NEW S, OnlyIn(steps, S), \A i \in 1..Len(acts) : acts[i].act \in S
      PROVE  OnlyIn(all, S)
  <2> SUFFICES ASSUME NEW i \in 1..Len(all)  PROVE all[i].do.act \in S
    BY DEF OnlyIn
  <2>1. CASE i \in 1..k
    BY <1>3, <1>6, <2>1 DEF OnlyIn
  <2>2. CASE \E j \in 1..Len(acts) : i = k + j
    BY <1>4, <1>6, <2>2
  <2> QED  BY <1>5, <2>1, <2>2
<1>7. ASSUME NEW S, NEW T, OnlyIn(steps, S), Len(acts) = 1, acts[1].act \in T,
             acts[1].act # "UpdateResult"
      PROVE  FrontIn(all, S) /\ EndsIn(all, T)
  <2>1. Len(all) = k + 1 /\ all # <<>> /\ all[k + 1].do = acts[1]
    BY <1>2, <1>4, <1>7
  <2>2. \A i \in 1..(Len(all) - 1) : i \in 1..k
    BY <1>2, <2>1
  <2>3. FrontIn(all, S)
    BY <1>3, <1>7, <2>2 DEF FrontIn, OnlyIn
  <2> QED  BY <1>7, <2>1, <2>3 DEF EndsIn
<1>8. acts # <<>> => all # <<>>
  BY <1>2
<1>9. ASSUME ComparedLast(steps), \A i \in 1..Len(acts) : acts[i].act = "Preedit"
      PROVE  ComparedLast(all)
  <2> SUFFICES ASSUME NEW i \in 1..Len(all), NEW j \in 1..Len(all), i < j,
                      all[i].do.act = "RewriteReady"
               PROVE  all[j].do.act = "Preedit"
    BY DEF ComparedLast
  <2>1. CASE \E m \in 1..Len(acts) : j = k + m
    BY <1>4, <1>9, <2>1
  <2>2. CASE j \in 1..k
    <3>1. i \in 1..k
      BY <1>2, <2>2
    <3> QED  BY <1>3, <1>9, <2>2, <3>1 DEF ComparedLast
  <2> QED  BY <1>5, <2>1, <2>2
<1>10. ASSUME OnlyIn(steps, ResultActs \ {"RewriteReady"}),
              \A i, j \in 1..Len(acts) : i < j => acts[j].act = "Preedit"
       PROVE  ComparedLast(all)
  <2> SUFFICES ASSUME NEW i \in 1..Len(all), NEW j \in 1..Len(all), i < j,
                      all[i].do.act = "RewriteReady"
               PROVE  all[j].do.act = "Preedit"
    BY DEF ComparedLast
  <2>1. i \notin 1..k
    BY <1>3, <1>10 DEF OnlyIn
  <2>2. PICK m \in 1..Len(acts) : i = k + m
    BY <1>5, <2>1
  <2>3. PICK n \in 1..Len(acts) : j = k + n
    <3>1. j \notin 1..k
      BY <1>2, <2>1
    <3> QED  BY <1>5, <3>1
  <2>4. m < n
    BY <1>2, <2>2, <2>3
  <2> QED  BY <1>4, <1>10, <2>3, <2>4
<1> QED  BY <1>6, <1>7, <1>8, <1>9, <1>10 DEF all

\* The pictures there can be while events are collected.
Shown == Ending \/ Drawing \/ Overlaid \/ Comparing \/ Resting

\* No error of this epoch follows the end of its stream.
LEMMA NoLateError ==
    ASSUME Handled, EventsFit, ui = "collecting", current \in Slots \cup {None}
    PROVE  Of(Head(batch), current) => state \notin {"ResultReady", "Failed"}
<1>1. batch # <<>> /\ batch \in Seq(Events)
  BY DEF Handled, QueueFit
<1>2. Head(batch) \in Events /\ Head(batch) = batch[1] /\ 1 \in 1..Len(batch)
  BY <1>1, EventsHandled
<1>3. current = None => ~Of(Head(batch), current)
  BY <1>2, EventFacts, NoneApart DEF EventKinds, Of
<1> QED  BY <1>2, <1>3 DEF EventsFit, Silence

\* An event that says nothing changes no picture.
LEMMA ShownStays ==
    ASSUME Shown, ui = "collecting",
           UNCHANGED <<state, pinyin_buffer, ai_preview, rewrite_preview, steps, panel,
                       composition>>
    PROVE  Shown'
<1>1. Ending => Ending'
  BY DEF Ending, C!Bare
<1> QED
  BY <1>1 DEF Shown, Drawing, Overlaid, Comparing, Resting, Plain, C!Bare, Previewing

\* The state line that a late event draws again.
LEMMA LineShown ==
    ASSUME Listed(steps), Shown, ui = "collecting", state \notin {"Idle", "OcrPreviewing"},
           UNCHANGED <<state, pinyin_buffer, ai_preview, rewrite_preview, panel,
                       composition>>,
           steps' = Collected(<<[act |-> "Preedit"]>>)
    PROVE  Shown'
<1> DEFINE line == <<[act |-> "Preedit"]>>
<1>1. /\ Listed(line) /\ Len(line) = 1 /\ line # <<>>
      /\ \A i \in 1..Len(line) : line[i].act = "Preedit"
  <2>1. Listed(line)
    BY FewActs
  <2> QED  BY <2>1
<1>2. steps' = Collected(line)
  OBVIOUS
<1> HIDE DEF line
<1>3. /\ \A S : OnlyIn(steps, S) /\ "Preedit" \in S => OnlyIn(steps', S)
      /\ ComparedLast(steps) => ComparedLast(steps')
      /\ steps' # <<>>
  BY <1>1, <1>2, CollectedActs
<1>4. Drawing => Drawing'
  BY <1>3 DEF Drawing, Plain, C!Bare, Previewing, DrawActs
<1>5. Overlaid => Overlaid'
  BY <1>3 DEF Overlaid, ResultActs
<1>6. Comparing => Comparing'
  BY <1>3 DEF Comparing
<1>7. ~Ending /\ ~Resting
  BY DEF Ending, Resting
<1> QED  BY <1>4, <1>5, <1>6, <1>7 DEF Shown

\* collect_steps adds to what is owed without changing the picture: a result that
\* grows, a result that is compared last, or a commit that comes last.
LEMMA CollectOwed ==
    ASSUME Handled, WindowFit, EventsFit, current \in Slots \cup {None}, Collect
    PROVE  SlotsFit' /\ Shown'
<1> DEFINE e == Head(batch)
           line == [act |-> "Preedit"]
<1>1. ui = "collecting" /\ UNCHANGED <<composition, panel>> /\ C!Fit /\ SlotsFit /\ Listed(steps)
  BY DEF Collect, Handled, UiFit, WindowFit
<1>2. Shown
  BY <1>1 DEF WindowFit, Owed, Shown, Capturing, Starting, Prompting
<1>3. e \in Events
  BY <1>1, EventsHandled DEF Handled, QueueFit
<1>4. OfThisEpoch(e) /\ e.kind = "Error" => state \notin {"ResultReady", "Failed"}
  BY <1>1, NoLateError DEF OfThisEpoch, Of
<1> HIDE DEF e
<1>5. Collected(<<>>) = steps
  BY <1>1, CollectedNone
<1>6. state = "Streaming" =>
        Overlaid /\ OnlyIn(steps, ResultActs \ {"RewriteReady"})
  BY <1>1, <1>2, NoneApart
     DEF Shown, SlotsFit, C!SlotsFit, Covered, Ending, Drawing, Plain, C!Bare, Overlaid, Comparing, Resting
<1>7. CASE UNCHANGED <<machine, steps>>
  <2>1. SlotsFit' /\ UNCHANGED <<state, pinyin_buffer, ai_preview, rewrite_preview>>
    BY <1>1, <1>7, KeptMachine DEF machine
  <2> QED  BY <1>1, <1>2, <1>7, <2>1, ShownStays
<1>8. ASSUME UNCHANGED <<state, pinyin_buffer, ai_preview, rewrite_preview>>,
             out' = <<>>, steps' = Collected(out') \/ steps' = Collected(out' \o StateLine)
      PROVE  Shown'
  <2>1. CASE steps' = steps
    BY <1>1, <1>2, <1>8, <2>1, ShownStays
  <2>2. CASE /\ state \notin {"Idle", "OcrPreviewing"}
             /\ steps' = Collected(<<line>>)
    BY <1>1, <1>2, <1>8, <2>2, LineShown
  <2>3. \/ out' \o StateLine = <<>>
        \/ state' \notin {"Idle", "OcrPreviewing"} /\ out' \o StateLine = <<line>>
    BY <1>8, DrawnActs
  <2> QED  BY <1>5, <1>8, <2>1, <2>2, <2>3
<1>9. ASSUME NEW a, state = "Streaming", a.act \in ResultActs,
             a.act = "RewriteReady" => state' = "ResultReady",
             steps' = Collected(<<a>>) \/ steps' = Collected(<<a, line>>),
             ai_preview' # None
      PROVE  Shown'
  <2>1. PICK acts : /\ steps' = Collected(acts) /\ Listed(acts)
                    /\ \A i \in 1..Len(acts) : acts[i] = a \/ acts[i] = line
                    /\ \A i, j \in 1..Len(acts) : i < j => acts[j] = line
    <3> HIDE DEF line
    <3>1. /\ Listed(<<a>>) /\ Listed(<<a, line>>)
          /\ Len(<<a>>) = 1 /\ Len(<<a, line>>) = 2
          /\ <<a>>[1] = a /\ <<a, line>>[1] = a /\ <<a, line>>[2] = line
      BY FewActs
    <3>2. \A i \in 1..Len(<<a>>) : i = 1
      BY <3>1
    <3>3. \A i \in 1..Len(<<a, line>>) : i = 1 \/ i = 2
      BY <3>1
    <3>4. CASE steps' = Collected(<<a>>)
      BY <3>1, <3>2, <3>4
    <3>5. CASE steps' = Collected(<<a, line>>)
      BY <3>1, <3>3, <3>5
    <3> QED  BY <1>9, <3>4, <3>5
  <2>2. line.act = "Preedit"
    OBVIOUS
  <2> HIDE DEF line
  <2>3. \A S : /\ OnlyIn(steps, S) /\ a.act \in S /\ "Preedit" \in S
               => OnlyIn(steps', S)
    BY <1>1, <2>1, <2>2, CollectedActs
  <2>4. ComparedLast(steps')
    BY <1>1, <1>6, <1>9, <2>1, <2>2, CollectedActs
  <2>5. OnlyIn(steps', ResultActs)
    BY <1>6, <1>9, <2>3 DEF Overlaid, ResultActs
  <2>6. state' # "ResultReady" => OnlyIn(steps', ResultActs \ {"RewriteReady"})
    BY <1>6, <1>9, <2>3 DEF ResultActs
  <2>7. Overlaid'
    BY <1>1, <1>6, <1>9, <2>4, <2>5, <2>6 DEF Overlaid
  <2> QED  BY <2>7 DEF Shown
<1>10. CASE M!OnLlmChunk /\ steps' = Collected(out')
  <2>1. /\ SlotsFit' /\ UNCHANGED <<state, pinyin_buffer, ai_preview, rewrite_preview>>
        /\ \/ state = "Streaming" /\ C!Says("UpdateResult")
           \/ state # "Streaming" /\ out' = <<>>
    BY <1>1, <1>10, ChunkFits DEF M!pinyinVars
  <2>2. CASE state = "Streaming" /\ C!Says("UpdateResult")
    BY <1>6, <1>9, <1>10, <2>1, <2>2 DEF C!Says, ResultActs, Overlaid
  <2> QED  BY <1>8, <1>10, <2>1, <2>2
<1>11. CASE M!OnLlmDone /\ steps' = Collected(out' \o StateLine)
  <2>1. /\ SlotsFit' /\ UNCHANGED pinyin_buffer
        /\ \/ /\ state = "Streaming" /\ state' = "ResultReady" /\ ai_preview' = "Ready"
              /\ C!Says("ResultReady") \/ C!Says("RewriteReady")
           \/ /\ state # "Streaming" /\ out' = <<>>
              /\ UNCHANGED <<state, ai_preview, rewrite_preview>>
    BY <1>1, <1>11, DoneFits DEF M!pinyinVars
  <2>2. CASE /\ state = "Streaming" /\ state' = "ResultReady" /\ ai_preview' = "Ready"
             /\ C!Says("ResultReady") \/ C!Says("RewriteReady")
    <3>1. out' # <<>> /\ out' = <<out'[1]>> /\ out'[1].act \in ResultActs
      <4>1. Len(<<>>) = 0
        OBVIOUS
      <4> QED  BY <2>2, <4>1 DEF C!Says, ResultActs
    <3>2. out' \o StateLine = <<out'[1], line>>
      BY <2>2, <3>1, DrawnActs
    <3>3. ai_preview' # None
      BY <2>2, NoneApart
    <3> HIDE DEF line
    <3> QED  BY <1>9, <1>11, <2>1, <2>2, <3>1, <3>2, <3>3
  <2> QED  BY <1>8, <1>11, <2>1, <2>2
<1>12. CASE e.kind = "Error" /\ OfThisEpoch(e) /\ M!OnLlmError
            /\ steps' = Collected(out' \o StateLine)
  <2>1. /\ SlotsFit' /\ UNCHANGED pinyin_buffer
        /\ \/ /\ state = "Streaming" /\ state' = "Failed" /\ ai_preview' = "Failed"
              /\ C!Says("LlmFailed")
           \/ /\ state # "Streaming" /\ out' = <<>>
              /\ UNCHANGED <<state, ai_preview, rewrite_preview>>
    BY <1>1, <1>4, <1>12, ErrorFits DEF M!pinyinVars
  <2>2. CASE /\ state = "Streaming" /\ state' = "Failed" /\ ai_preview' = "Failed"
             /\ C!Says("LlmFailed")
    <3>1. /\ out' # <<>> /\ out' = <<out'[1]>> /\ out'[1].act \in ResultActs
          /\ out'[1].act # "RewriteReady"
      <4>1. Len(<<>>) = 0
        OBVIOUS
      <4> QED  BY <2>2, <4>1 DEF C!Says, ResultActs
    <3>2. out' \o StateLine = <<out'[1], line>>
      BY <2>2, <3>1, DrawnActs
    <3>3. ai_preview' # None
      BY <2>2, NoneApart
    <3> HIDE DEF line
    <3> QED  BY <1>9, <1>12, <2>1, <2>2, <3>1, <3>2, <3>3
  <2> QED  BY <1>8, <1>12, <2>1, <2>2
<1>13. CASE /\ e.kind = "Candidates" /\ M!OnLlmCandidates(e.pinyin, e.count, TRUE)
            /\ steps' = Collected(out')
  <2>0. e.pinyin \in Pinyins /\ e.count \in Nat
    BY <1>3, <1>13, EventFacts DEF EventKinds
  <2>1. /\ SlotsFit'
        /\ \/ /\ out' = <<>> \/ (C!Says("UpdatePinyin") /\ pinyin_buffer # <<>>)
              /\ UNCHANGED <<state, pinyin_buffer, ai_preview, rewrite_preview>>
           \/ /\ C!Says("CommitImmediate") /\ state' = "Idle" /\ C!Bare'
              /\ pinyin_buffer # <<>>
    BY <1>1, <1>13, <2>0, AnswerFits
  <2>2. pinyin_buffer # <<>> => Drawing
    BY <1>1, <1>2
       DEF C!Fit, C!LettersFit, SlotsFit, C!SlotsFit, Covered, Shown, Ending, Overlaid, Comparing, Resting
  <2>3. CASE out' = <<>> /\ UNCHANGED <<state, pinyin_buffer, ai_preview, rewrite_preview>>
    BY <1>8, <1>13, <2>1, <2>3
  <2>4. ASSUME NEW name, C!Says(name)
        PROVE  /\ Listed(out') /\ Len(out') = 1 /\ out' # <<>> /\ out'[1].act = name
               /\ \A i \in 1..Len(out') : out'[i].act = name
    <3>1. out' = <<out'[1]>> /\ Len(out') = 1 /\ out'[1].act = name
      BY <2>4 DEF C!Says
    <3>2. Listed(<<out'[1]>>) /\ Len(<<>>) = 0
      BY FewActs
    <3> QED  BY <3>1, <3>2, OneAct
  <2>5. CASE /\ C!Says("UpdatePinyin") /\ pinyin_buffer # <<>>
             /\ UNCHANGED <<state, pinyin_buffer, ai_preview, rewrite_preview>>
    <3>1. OnlyIn(steps', DrawActs) /\ steps' # <<>>
      BY <1>1, <1>13, <2>2, <2>4, <2>5, CollectedActs DEF Drawing, DrawActs
    <3>2. Drawing'
      BY <1>1, <2>2, <2>5, <3>1 DEF Drawing, Plain, C!Bare, Previewing
    <3> QED  BY <2>1, <3>2 DEF Shown
  <2>6. CASE /\ C!Says("CommitImmediate") /\ state' = "Idle" /\ C!Bare'
             /\ pinyin_buffer # <<>>
    <3>1. FrontIn(steps', DrawActs) /\ EndsIn(steps', EndActs)
      BY <1>1, <1>13, <2>2, <2>4, <2>6, CollectedActs DEF Drawing, EndActs
    <3> QED  BY <2>1, <2>6, <3>1 DEF Ending, Shown
  <2> QED  BY <2>1, <2>3, <2>5, <2>6
<1> QED  BY <1>7, <1>10, <1>11, <1>12, <1>13 DEF Collect, e

\* When the service is made nothing is shown or owed.
LEMMA StartOwed == Init => WindowFit
<1> SUFFICES ASSUME Init  PROVE WindowFit
  OBVIOUS
<1>1. /\ state = "Idle" /\ ai_preview = None /\ rewrite_preview = None
      /\ steps = <<>> /\ ~composition /\ panel = "hidden"
  BY DEF Init, M!Init
<1> QED  BY <1>1 DEF WindowFit, SlotsFit, C!SlotsFit, Covered, Owed, Resting, C!Bare, Previewing

(***************************************************************************)
(* The streams.                                                            *)
(***************************************************************************)
LEMMA Emptied ==
    /\ LastWords(<<>>)
    /\ \A s : Silence(<<>>, s)
BY DEF LastWords, Silence

\* The slots whose events end a stream are slots.
LEMMA OverSlots ==
    ASSUME NEW q \in Seq(Events), NEW i \in 1..Len(q)
    PROVE  q[i] \in Events /\ (Over(q[i]) => q[i].slot \in Slots)
<1>1. q[i] \in Events
  BY ElementOfSeq
<1> QED  BY <1>1, EventFacts DEF EventKinds, Over

\* No event comes and no stream comes back to life.
LEMMA EventsStay ==
    ASSUME QueueFit, EventsFit, UNCHANGED <<chunks, batch>>,
           \A t \in Slots : streams[t] = "free" => streams'[t] = "free",
           state' \in {"ResultReady", "Failed"} /\ current' # None =>
                state \in {"ResultReady", "Failed"} /\ UNCHANGED current,
           current' \in Slots \cup {None}
    PROVE  EventsFit'
<1>1. LastWords(batch)' /\ LastWords(chunks)'
  BY DEF EventsFit
<1>2. ASSUME NEW i \in 1..Len(chunks'), Over(chunks[i])
      PROVE  streams'[chunks[i].slot] = "free"
  BY <1>2, OverSlots DEF QueueFit, EventsFit
<1>3. \A t \in Slots : Spent(t) => streams'[t] = "free" /\ Silence(chunks', t)
  BY DEF Spent
<1>4. ASSUME NEW i \in 1..Len(batch'), Over(batch[i])
      PROVE  streams'[batch[i].slot] = "free" /\ Silence(chunks', batch[i].slot)
  BY <1>3, <1>4, OverSlots DEF QueueFit, EventsFit
<1>5. state' \in {"ResultReady", "Failed"} /\ current' # None =>
        /\ streams'[current'] = "free" /\ Silence(chunks', current')
        /\ Silence(batch', current')
  BY <1>3 DEF EventsFit
<1> QED  BY <1>1, <1>2, <1>4, <1>5 DEF EventsFit, Spent

\* A worker adds an event.
LEMMA EventComes ==
    ASSUME QueueFit, EventsFit, current \in Slots \cup {None}, NEW e \in Events,
           chunks' = Append(chunks, e), UNCHANGED <<batch, current, state>>,
           \A t \in Slots : streams[t] = "free" => streams'[t] = "free" /\ ~Of(e, t),
           Over(e) => streams'[e.slot] = "free"
    PROVE  EventsFit'
<1>1. /\ chunks \in Seq(Events) /\ Len(chunks) \in Nat
      /\ Len(chunks') = Len(chunks) + 1 /\ chunks'[Len(chunks) + 1] = e
      /\ \A i \in 1..Len(chunks) : chunks'[i] = chunks[i]
  <2>1. chunks \in Seq(Events)
    BY DEF QueueFit
  <2> QED  BY <2>1, AppendProperties, LenProperties
<1>2. \A i \in 1..Len(chunks') : i \in 1..Len(chunks) \/ i = Len(chunks) + 1
  BY <1>1
<1>3. \A t \in Slots : Spent(t) => streams'[t] = "free" /\ Silence(chunks', t)
  BY <1>1, <1>2 DEF Spent, Silence
<1>4. ASSUME NEW i \in 1..Len(chunks'), Over(chunks'[i])
      PROVE  streams'[chunks'[i].slot] = "free"
  BY <1>1, <1>2, <1>4, OverSlots DEF EventsFit
<1>5. ASSUME NEW i \in 1..Len(chunks'), NEW j \in 1..Len(chunks'),
             Over(chunks'[i]), i < j
      PROVE  ~Of(chunks'[j], chunks'[i].slot)
  <2>1. i \in 1..Len(chunks) /\ chunks'[i] = chunks[i]
    BY <1>1, <1>2, <1>5
  <2>2. streams[chunks[i].slot] = "free" /\ chunks[i].slot \in Slots
    BY <1>1, <1>5, <2>1, OverSlots DEF EventsFit
  <2>3. CASE j \in 1..Len(chunks)
    BY <1>1, <1>5, <2>1, <2>3 DEF EventsFit, LastWords
  <2>4. CASE j = Len(chunks) + 1
    BY <1>1, <2>1, <2>2, <2>4
  <2> QED  BY <1>2, <2>3, <2>4
<1>6. LastWords(chunks')
  BY <1>5 DEF LastWords
<1>7. ASSUME NEW i \in 1..Len(batch'), Over(batch[i])
      PROVE  streams'[batch[i].slot] = "free" /\ Silence(chunks', batch[i].slot)
  BY <1>3, <1>7, OverSlots DEF QueueFit, EventsFit
<1>8. state' \in {"ResultReady", "Failed"} /\ current' # None =>
        /\ streams'[current'] = "free" /\ Silence(chunks', current')
        /\ Silence(batch', current')
  BY <1>3 DEF EventsFit
<1>9. LastWords(batch')
  BY DEF EventsFit
<1> QED  BY <1>4, <1>6, <1>7, <1>8, <1>9 DEF EventsFit, Spent

\* The timer takes the queue.
LEMMA QueueTaken ==
    ASSUME EventsFit, TakeBatch, UNCHANGED <<current, streams>>,
           state' \in {"ResultReady", "Failed"} => state \in {"ResultReady", "Failed"}
    PROVE  EventsFit'
<1>1. batch' = chunks /\ chunks' = <<>>
  BY DEF TakeBatch
<1>2. LastWords(batch') /\ LastWords(chunks')
  BY <1>1, Emptied DEF EventsFit
<1>3. \A i \in 1..Len(chunks') : Over(chunks'[i]) => streams'[chunks'[i].slot] = "free"
  BY <1>1
<1>4. \A i \in 1..Len(batch') : Over(batch'[i]) =>
        streams'[batch'[i].slot] = "free" /\ Silence(chunks', batch'[i].slot)
  BY <1>1, Emptied DEF EventsFit
<1>5. state' \in {"ResultReady", "Failed"} /\ current' # None =>
        /\ streams'[current'] = "free" /\ Silence(chunks', current')
        /\ Silence(batch', current')
  BY <1>1, Emptied DEF EventsFit, Spent
<1> QED  BY <1>2, <1>3, <1>4, <1>5 DEF EventsFit, Spent

\* What starts a stream or a capture is the only action there is.
LEMMA StartAlone ==
    ASSUME Owed, Listed(steps), NEW i \in 1..Len(steps)
    PROVE  /\ steps[i].do.act \in StartActs => Starting /\ i = 1
           /\ steps[i].do.act = "StartCapture" => Capturing /\ i = 1
<1>1. Len(steps) \in Nat
  BY ListedLength
<1>2. \A acts : OnlyIn(steps, acts) => steps[i].do.act \in acts
  BY DEF OnlyIn
<1>3. \A acts : One(steps, acts) => steps[i].do.act \in acts /\ i = 1
  BY DEF One
<1>4. Ending => steps[i].do.act \in DrawActs \cup EndActs
  <2>1. i \in 1..(Len(steps) - 1) \/ i = Len(steps)
    BY <1>1
  <2> QED  BY <2>1 DEF Ending, FrontIn, EndsIn
<1>5. ~Resting
  <2>1. Len(<<>>) = 0
    OBVIOUS
  <2> QED  BY <2>1 DEF Resting
<1> QED
  BY <1>2, <1>3, <1>4, <1>5
     DEF Owed, Capturing, Starting, Prompting, Drawing, Overlaid, Comparing,
         StartActs, DrawActs, EndActs, ResultActs

\* An open stream stays awaited when nothing of it changes.
LEMMA OpenStays ==
    ASSUME OpenFit, UNCHANGED <<current, streams>>, Awaited => Awaited'
    PROVE  OpenFit'
BY DEF OpenFit

\* No stream is open once the current one is not.
LEMMA ClosedStays ==
    ASSUME OpenFit, CancelLlm \/ LeaveStream
    PROVE  /\ OpenFit' /\ \A t \in Slots : streams[t] = "free" => streams'[t] = "free"
           /\ current' \in {current, None}
<1>1. \E word \in {"cancelled", "orphan"} :
        streams' = [s \in Slots |-> IF s = current /\ streams[s] = "open" THEN word
                                    ELSE streams[s]]
  BY DEF CancelLlm, LeaveStream
<1>2. current' \in {current, None} /\ current' \in Slots \cup {None}
  BY DEF CancelLlm, LeaveStream, OpenFit
<1>3. \A s \in Slots : streams'[s] # "open"
  BY <1>1 DEF OpenFit
<1>4. streams' \in [Slots -> {"free", "open", "cancelled", "orphan"}]
  BY <1>1 DEF OpenFit
<1>5. \A t \in Slots : streams[t] = "free" => streams'[t] = "free"
  BY <1>1
<1> QED  BY <1>2, <1>3, <1>4, <1>5 DEF OpenFit

\* A key neither ends nor starts what streams do.
LEMMA ReplyStreams ==
    ASSUME Handled, WindowFit, StreamsFit, ui \in {"idle", "routing"},
           state # "OcrPreviewing", NEW k, NEW was, Feed(k, was)
    PROVE  StreamsFit'
<1>1. /\ Fits /\ Shaped /\ Returned
      /\ UNCHANGED <<current, streams, chunks, batch>>
  BY FeedFits DEF Handled, Returned, ai
<1>2. state' \in {"ResultReady", "Failed"} => state' = state
  BY <1>1 DEF Fits, WindowFit, C!Reply, C!Silent
<1>3. EventsFit'
  BY <1>1, <1>2, EventsStay DEF Handled, StreamsFit, OpenFit
<1>4. ASSUME Awaited
      PROVE  Awaited'
  <2>1. state = "Streaming"
    BY <1>4 DEF Awaited
  <2>2. \/ out' = <<>> /\ UNCHANGED state
        \/ (C!Says("CommitResult") \/ C!Says("Cancel")) /\ state' = "Idle"
    BY <2>1, StreamingKeys
  <2>3. CASE out' = <<>> /\ UNCHANGED state
    <3>1. ui' = "idle"
      BY <1>1, <2>3, ReturnedShape
    <3> QED  BY <2>1, <2>3, <3>1 DEF Awaited, Starting
  <2>4. CASE C!Says("CommitResult") \/ C!Says("Cancel")
    <3>1. Len(out') = 1 /\ out' # <<>> /\ out'[1].act \in {"CommitResult", "Cancel"}
      <4>1. Len(<<>>) = 0
        OBVIOUS
      <4> QED  BY <2>4, <4>1 DEF C!Says
    <3>2. Len(steps') = 1 /\ ui' = "applying" /\ steps'[1].do = out'[1]
      BY <1>1, <3>1, ReturnedShape
    <3>3. EndsIn(steps', {"CommitResult", "Cancel"})
      BY <3>1, <3>2, OneAction
    <3> QED  BY <3>2, <3>3 DEF Awaited
  <2> QED  BY <2>2, <2>3, <2>4
<1> QED  BY <1>1, <1>3, <1>4, OpenStays DEF StreamsFit

\* A key leaves the streams alone, and an open one awaited or about to be cancelled.
LEMMA KeysStreams ==
    ASSUME Handled, WindowFit, StreamsFit, NEW k \in Keys, UserKey(k)
    PROVE  StreamsFit'
<1>1. CASE TestKeyDown(k)
  <2>1. /\ ui = "idle" /\ ui' = "claimed"
        /\ UNCHANGED <<machine, steps, current, streams, chunks, batch>>
    BY <1>1 DEF TestKeyDown, Claimed, ai
  <2>2. UNCHANGED state
    BY <2>1 DEF machine, kept
  <2>3. EventsFit'
    BY <2>1, <2>2, EventsStay DEF Handled, StreamsFit, OpenFit
  <2>4. Awaited => Awaited'
    BY <2>1, <2>2 DEF Awaited, Starting
  <2> QED  BY <2>1, <2>3, <2>4, OpenStays DEF StreamsFit
<1>2. CASE KeyDown(k)
  <2>1. ui = "idle" /\ state # "OcrPreviewing" /\ Feed(k, state)
    BY <1>2 DEF KeyDown, Claimed, Previewing
  <2> QED  BY <2>1, ReplyStreams
<1>3. CASE KeyDownRewrite(k)
  <2>1. /\ ui = "idle" /\ \E key_ : M!FeedRewritePreview(key_)
        /\ UNCHANGED <<current, streams, chunks, batch>>
    BY <1>3 DEF KeyDownRewrite, Claimed, Returned, ai
  <2>2. state = "ResultReady" /\ state' = "Idle"
    BY <2>1, RewriteKeyFits DEF Handled
  <2>3. EventsFit'
    BY <2>1, <2>2, EventsStay DEF Handled, StreamsFit, OpenFit
  <2>4. ~Awaited
    BY <2>1, <2>2 DEF Awaited
  <2> QED  BY <2>1, <2>3, <2>4, OpenStays DEF StreamsFit
<1> QED  BY <1>1, <1>2, <1>3 DEF UserKey

\* So do the keys that find or end a preview.
LEMMA HandlersStreams ==
    ASSUME Handled, WindowFit, StreamsFit, KeyHandler
    PROVE  StreamsFit'
<1>1. CASE KeyDownPreview \/ KeyDownEndsPreview
  <2>1. /\ ui = "claimed" /\ UNCHANGED <<current, streams, chunks, batch>>
        /\ M!EndOcrPreview \/ \E k \in {"Confirm", "Escape"} : M!FeedOcrPreview(k)
    BY <1>1 DEF KeyDownPreview, KeyDownEndsPreview, Returned, ai
  <2>2. state = "OcrPreviewing" /\ state' = "Idle"
    BY <2>1, OcrFits DEF Handled
  <2>3. EventsFit'
    BY <2>1, <2>2, EventsStay DEF Handled, StreamsFit, OpenFit
  <2>4. ~Awaited
    BY <2>1, <2>2 DEF Awaited
  <2> QED  BY <2>1, <2>3, <2>4, OpenStays DEF StreamsFit
<1>2. CASE KeyDownGoesOn
  <2>1. ui = "routing" /\ state = "Idle" /\ Feed(key, before)
    BY <1>2 DEF KeyDownGoesOn, Handled, UiFit
  <2> QED  BY <2>1, ReplyStreams
<1> QED  BY <1>1, <1>2 DEF KeyHandler

\* So does the timer, which takes the queue.
LEMMA TimerStreams ==
    ASSUME HostCooperates, Handled, StreamsFit, Tick \/ DrainResult
    PROVE  StreamsFit'
<1>1. /\ ui \in {"idle", "draining"} /\ ui' # "applying" /\ UNCHANGED <<current, streams>>
      /\ TakeBatch \/ UNCHANGED <<chunks, batch>>
  BY ObeyedResult DEF Tick, TakeBatch, ai
<1>2. state' \in {"ResultReady", "Failed", "Streaming"} => UNCHANGED state
  <2>1. CASE UNCHANGED machine
    BY <2>1 DEF machine, kept
  <2>2. CASE M!ExpireStaleOcrPreview
    BY <2>2, OcrFits DEF M!ExpireStaleOcrPreview, Handled
  <2>3. CASE M!BeginOcrPreview(<<M!OcrText>>)
    BY <2>3, BeginOcrFits DEF Handled
  <2> QED  BY <2>1, <2>2, <2>3, ObeyedResult DEF Tick
<1>3. EventsFit'
  BY <1>1, <1>2, EventsStay, QueueTaken DEF Handled, StreamsFit, OpenFit
<1>4. state = "Streaming" => state' = "Streaming"
  <2>1. CASE UNCHANGED machine
    BY <2>1 DEF machine, kept
  <2>2. CASE M!ExpireStaleOcrPreview
    BY <2>2, OcrFits DEF M!ExpireStaleOcrPreview, Handled
  <2>3. CASE M!BeginOcrPreview(<<M!OcrText>>)
    BY <2>3, BeginOcrFits DEF Handled
  <2> QED  BY <2>1, <2>2, <2>3, ObeyedResult DEF Tick
<1>5. Awaited => Awaited'
  BY <1>1, <1>4 DEF Awaited, Starting
<1> QED  BY <1>1, <1>3, <1>5, OpenStays DEF StreamsFit

\* Every action that can be applied.
LEMMA ApplyActs ==
    ASSUME Apply
    PROVE  Head(steps).do.act \in
              {"UpdatePinyin", "EnterPrompt", "UpdatePrompt", "UpdateResult", "Preedit",
               "StartCapture", "ResultReady", "LlmFailed", "RewriteReady"}
              \cup StartActs \cup EndActs
BY DEF Apply, Applying, ApplyPinyin, ApplyPrompt, ApplyResult, ApplyPreedit, ApplyStart,
       ApplyCommand, ApplyStartCapture, ApplyReady, ApplyRewriteReady, ApplyCommit,
       ApplyCommitResult, ApplyCancel, StartActs, EndActs

\* What applying the next action does to the current stream.
LEMMA StreamMoves ==
    ASSUME HostCooperates, Apply, C!Fit, NEW act, act = Head(steps).do.act
    PROVE  \/ /\ UNCHANGED <<state, ai>>
              /\ act \notin {"CommitResult", "Cancel", "StartCapture"} \cup StartActs
           \/ UNCHANGED state /\ CancelLlm /\ act \in {"CommitResult", "Cancel"}
           \/ UNCHANGED state /\ StartStream /\ act \in StartActs
           \/ state' = "Idle" /\ UNCHANGED ai /\ act \in {"StartCapture"} \cup StartActs
<1>1. Kept => UNCHANGED state
  BY DEF Kept, kept
<1>2. NewMachine => state' = "Idle"
  BY NewFits
<1> DEFINE step == Head(steps)
<1>3. act = step.do.act
  OBVIOUS
<1>4. /\ act = "UpdatePinyin" => Kept /\ UNCHANGED ai
      /\ act \in {"EnterPrompt", "UpdatePrompt"} => Kept /\ UNCHANGED ai
      /\ act = "UpdateResult" => Kept /\ UNCHANGED ai
      /\ act = "Preedit" => Kept /\ UNCHANGED ai
      /\ act \in StartActs => (Kept /\ StartStream) \/ (NewMachine /\ UNCHANGED ai)
      /\ act = "StartCapture" => NewMachine /\ UNCHANGED ai
      /\ act \in {"ResultReady", "LlmFailed"} => Kept /\ UNCHANGED ai
      /\ act = "RewriteReady" =>
            M!BeginRewritePreview(step.do.rewritten, step.do.source) /\ UNCHANGED ai
      /\ act \in EndActs =>
            /\ Kept
            /\ act = "CommitImmediate" => UNCHANGED ai
            /\ act # "CommitImmediate" => CancelLlm
  BY <1>3, Obeyed
<1>5. \A r, s : M!BeginRewritePreview(r, s) => UNCHANGED state
  BY DEF M!BeginRewritePreview
<1>6. act \in {"UpdatePinyin", "EnterPrompt", "UpdatePrompt", "UpdateResult", "Preedit",
               "StartCapture", "ResultReady", "LlmFailed", "RewriteReady"}
              \cup StartActs \cup EndActs
  BY <1>3, ApplyActs
<1> HIDE DEF step
<1> QED  BY <1>1, <1>2, <1>4, <1>5, <1>6 DEF StartActs, EndActs

\* apply_action starts a stream when none is open and cancels the open one when its
\* composition ends.
LEMMA ApplyStreams ==
    ASSUME HostCooperates, Handled, WindowFit, StreamsFit, Apply
    PROVE  StreamsFit'
<1> DEFINE act == Head(steps).do.act
<1>1. /\ ui = "applying" /\ Taken /\ batch = <<>> /\ UNCHANGED <<batch, chunks>>
  BY ApplyMoves DEF Handled, QueueFit, Taken
<1>2. /\ steps # <<>> /\ Len(steps) \in Nat \ {0} /\ act = steps[1].do.act
      /\ Len(steps') = Len(steps) - 1 /\ Listed(steps)
      /\ \A i \in 1..Len(steps') : steps'[i] = steps[i + 1] /\ i + 1 \in 1..Len(steps)
      /\ Len(steps) = 1 <=> steps' = <<>>
      /\ ui' = IF Len(steps) = 1 THEN "idle" ELSE "applying"
      /\ \A acts : steps' # <<>> /\ EndsIn(steps, acts) => EndsIn(steps', acts)
  BY <1>1, ListTaken DEF Handled, UiFit
<1>3. /\ act \in StartActs => Starting
      /\ act = "StartCapture" => Capturing
      /\ \A i \in 2..Len(steps) : steps[i].do.act \notin StartActs
  <2>1. 1 \in 1..Len(steps) /\ \A i \in 2..Len(steps) : i \in 1..Len(steps) /\ i # 1
    BY <1>2
  <2>2. Owed
    BY DEF WindowFit
  <2> QED  BY <1>2, <2>1, <2>2, StartAlone
<1>4. \/ /\ UNCHANGED <<state, ai>>
         /\ act \notin {"CommitResult", "Cancel", "StartCapture"} \cup StartActs
      \/ UNCHANGED state /\ CancelLlm /\ act \in {"CommitResult", "Cancel"}
      \/ UNCHANGED state /\ StartStream /\ act \in StartActs
      \/ state' = "Idle" /\ UNCHANGED ai /\ act \in {"StartCapture"} \cup StartActs
  BY StreamMoves DEF Handled
<1> HIDE DEF act
<1>5. QueueFit /\ EventsFit /\ OpenFit /\ UNCHANGED <<chunks, batch>>
  BY <1>1 DEF Handled, StreamsFit
<1>6. act \in {"StartCapture"} \cup StartActs => ~Awaited
  <2>1. \A acts : EndsIn(steps, acts) /\ Len(steps) = 1 => act \in acts
    BY <1>2 DEF EndsIn
  <2>2. Capturing \/ Starting => Len(steps) = 1
    BY DEF Capturing, Starting, One
  <2> QED  BY <1>3, <2>1, <2>2 DEF Awaited, Starting, Capturing, StartActs
<1>7. CASE /\ UNCHANGED <<state, ai>>
           /\ act \notin {"CommitResult", "Cancel", "StartCapture"} \cup StartActs
  <2>1. EventsFit'
    BY <1>5, <1>7, EventsStay DEF OpenFit, ai
  <2>2. ~Starting'
    <3>1. ASSUME steps' # <<>>  PROVE steps'[1].do.act \notin StartActs
      <4>1. 1 \in 1..Len(steps') /\ 1 + 1 \in 2..Len(steps)
        BY <1>2, <3>1
      <4> QED  BY <1>2, <1>3, <4>1
    <3>2. Len(<<>>) = 0
      OBVIOUS
    <3> QED  BY <3>1, <3>2 DEF Starting, One
  <2>3. Awaited => Awaited'
    <3>1. CASE state = "Streaming"
      BY <1>7, <2>2, <3>1 DEF Awaited
    <3>2. CASE EndsIn(steps, {"CommitResult", "Cancel"})
      <4>1. Len(steps) # 1
        BY <1>2, <1>7, <3>2 DEF EndsIn
      <4> QED  BY <1>2, <3>2, <4>1 DEF Awaited
    <3> QED  BY <3>1, <3>2 DEF Awaited
  <2> QED  BY <1>5, <1>7, <2>1, <2>3, OpenStays DEF StreamsFit, ai
<1>8. CASE UNCHANGED state /\ CancelLlm
  <2>1. current' = None
    BY <1>8 DEF CancelLlm
  <2>2. EventsFit'
    BY <1>5, <1>8, <2>1, ClosedStays, EventsStay
  <2> QED  BY <1>5, <1>8, <2>2, ClosedStays DEF StreamsFit
<1>9. CASE UNCHANGED state /\ StartStream /\ act \in StartActs
  <2>1. PICK s \in Slots : /\ Unused(s) /\ current' = s
                           /\ streams' = [streams EXCEPT ![s] = "open"]
    BY <1>9 DEF StartStream
  <2>2. streams' \in [Slots -> {"free", "open", "cancelled", "orphan"}]
    BY <1>5, <2>1 DEF OpenFit
  <2>3. \A t \in Slots : streams'[t] = "open" => t = s
    BY <1>3, <1>5, <1>6, <1>9, <2>1 DEF OpenFit
  <2>4. state' = "Streaming" /\ ui' = "idle" /\ Awaited'
    BY <1>2, <1>3, <1>9 DEF Starting, One, Awaited
  <2>5. OpenFit'
    BY <2>1, <2>2, <2>3, <2>4 DEF OpenFit
  <2>6. ASSUME NEW i \in 1..Len(chunks), Over(chunks[i])
        PROVE  streams'[chunks[i].slot] = "free"
    <3>1. chunks[i].slot # s
      BY <2>1, <2>6 DEF Unused, Over
    <3>2. chunks[i].slot \in Slots /\ streams[chunks[i].slot] = "free"
      BY <1>5, <2>6, OverSlots DEF QueueFit, EventsFit
    <3> QED  BY <1>5, <2>1, <3>1, <3>2 DEF OpenFit
  <2>7. \A i \in 1..Len(batch') : FALSE
    <3>1. Len(<<>>) = 0
      OBVIOUS
    <3> QED  BY <1>1, <3>1
  <2>8. EventsFit'
    BY <1>5, <2>4, <2>6, <2>7 DEF EventsFit
  <2> QED  BY <2>5, <2>8 DEF StreamsFit
<1>10. CASE /\ state' = "Idle" /\ UNCHANGED ai
            /\ act \in {"StartCapture"} \cup StartActs
  <2>1. EventsFit'
    BY <1>5, <1>10, EventsStay DEF OpenFit, ai
  <2>2. OpenFit'
    BY <1>5, <1>6, <1>10, OpenStays DEF ai
  <2> QED  BY <2>1, <2>2 DEF StreamsFit
<1> QED  BY <1>4, <1>7, <1>8, <1>9, <1>10

\* A worker sends an event of its own stream, which is not over, or leaves.
LEMMA OutsideStreams ==
    ASSUME Handled, StreamsFit,
           \/ Hotkey \/ Workers \/ DeadlinePasses \/ HostEndsComposition
           \/ Toggle \/ Deactivate \/ Activate \/ UNCHANGED vars
    PROVE  StreamsFit'
<1>1. QueueFit /\ EventsFit /\ OpenFit /\ C!Fit /\ current \in Slots \cup {None}
  BY DEF Handled, StreamsFit, OpenFit
<1>2. ASSUME UNCHANGED <<machine, ui, steps>>
      PROVE  UNCHANGED state /\ (Awaited => Awaited')
  BY <1>2 DEF Awaited, Starting, machine, kept
<1>3. ASSUME UNCHANGED <<machine, ui, steps, batch, current, streams, chunks>>
      PROVE  StreamsFit'
  BY <1>1, <1>2, <1>3, EventsStay, OpenStays DEF StreamsFit
<1>4. CASE \/ Hotkey \/ CaptureEnds \/ DeadlinePasses \/ Activate \/ UNCHANGED vars
           \/ \E p \in Pinyins : QueryStarts(p)
           \/ Toggle /\ state = "Idle"
  BY <1>3, <1>4
     DEF Hotkey, CaptureEnds, DeadlinePasses, Activate, vars, QueryStarts, Others,
         handler, ai, Toggle
<1>5. ASSUME NEW p \in Pinyins, QueryEnds(p)
      PROVE  StreamsFit'
  <2>1. PICK n \in Answers \cup {0} :
            chunks' = Append(chunks, [kind |-> "Candidates", pinyin |-> p, count |-> n])
    BY <1>5 DEF QueryEnds
  <2>2. UNCHANGED <<machine, ui, steps, batch, current, streams>>
    BY <1>5 DEF QueryEnds, Others, handler, ai
  <2> DEFINE e == [kind |-> "Candidates", pinyin |-> p, count |-> n]
  <2>3. e \in Events /\ ~Over(e) /\ \A t : ~Of(e, t)
    BY EventFacts DEF EventKinds, Over, Of
  <2>4. chunks' = Append(chunks, e)
    BY <2>1
  <2> HIDE DEF e
  <2>5. EventsFit'
    BY <1>1, <1>2, <2>2, <2>3, <2>4, EventComes
  <2> QED  BY <1>1, <1>2, <2>2, <2>5, OpenStays DEF StreamsFit
<1>6. ASSUME NEW s \in Slots, StreamSends(s)
      PROVE  StreamsFit'
  <2> DEFINE e == [kind |-> "Chunk", slot |-> s]
  <2>1. /\ streams[s] # "free" /\ chunks' = Append(chunks, e)
        /\ UNCHANGED <<machine, ui, steps, batch, current, streams>>
    BY <1>6 DEF StreamSends, Others, handler
  <2>2. e \in Events /\ ~Over(e) /\ \A t : Of(e, t) => t = s
    BY EventFacts DEF EventKinds, Over, Of
  <2> HIDE DEF e
  <2>3. \A t \in Slots : streams[t] = "free" => streams'[t] = "free" /\ ~Of(e, t)
    BY <2>1, <2>2
  <2>4. EventsFit'
    BY <1>1, <1>2, <2>1, <2>2, <2>3, EventComes
  <2> QED  BY <1>1, <1>2, <2>1, <2>4, OpenStays DEF StreamsFit
<1>7. ASSUME NEW s \in Slots, StreamEnds(s)
      PROVE  StreamsFit'
  <2>1. /\ streams[s] # "free" /\ streams' = [streams EXCEPT ![s] = "free"]
        /\ UNCHANGED <<machine, ui, steps, batch, current>>
    BY <1>7 DEF StreamEnds, Others, handler
  <2>2. /\ streams' \in [Slots -> {"free", "open", "cancelled", "orphan"}]
        /\ \A t \in Slots : streams'[t] = IF t = s THEN "free" ELSE streams[t]
    BY <1>1, <2>1 DEF OpenFit
  <2>3. OpenFit'
    BY <1>1, <1>2, <2>1, <2>2 DEF OpenFit
  <2>4. CASE UNCHANGED chunks
    <3>1. EventsFit'
      BY <1>1, <1>2, <2>1, <2>2, <2>4, EventsStay
    <3> QED  BY <2>3, <3>1 DEF StreamsFit
  <2>5. CASE \E k \in {"Final", "Error"} :
                chunks' = Append(chunks, [kind |-> k, slot |-> s])
    <3>1. PICK e \in Events : /\ chunks' = Append(chunks, e) /\ Over(e) /\ e.slot = s
                              /\ \A t : Of(e, t) => t = s
      BY <2>5, EventFacts DEF EventKinds, Over, Of
    <3>2. \A t \in Slots : streams[t] = "free" => streams'[t] = "free" /\ ~Of(e, t)
      BY <2>1, <2>2, <3>1
    <3>3. Over(e) => streams'[e.slot] = "free"
      BY <2>2, <3>1
    <3>4. EventsFit'
      BY <1>1, <1>2, <2>1, <3>1, <3>2, <3>3, EventComes
    <3> QED  BY <2>3, <3>4 DEF StreamsFit
  <2> QED  BY <1>7, <2>4, <2>5 DEF StreamEnds
<1>8. CASE HostEndsComposition \/ Deactivate \/ (Toggle /\ state # "Idle")
  <2>1. NewMachine /\ (CancelLlm \/ LeaveStream) /\ UNCHANGED <<batch, chunks>>
    BY <1>8 DEF HostEndsComposition, Deactivate, Toggle, handler
  <2>2. state' = "Idle"
    BY <1>1, <2>1, NewFits
  <2>3. EventsFit'
    BY <1>1, <2>1, <2>2, ClosedStays, EventsStay
  <2> QED  BY <1>1, <2>1, <2>3, ClosedStays DEF StreamsFit
<1> QED  BY <1>4, <1>5, <1>6, <1>7, <1>8 DEF Workers

\* Nothing starts while events are collected.
LEMMA NoneStarts ==
    ASSUME Shown'
    PROVE  ~Starting' /\ Owed'
<1>1. Ending' => ~Starting'
  BY DEF Ending, Starting, EndsIn, One, EndActs, StartActs
<1>2. \A acts : One(steps', StartActs) /\ OnlyIn(steps', acts) =>
            acts \cap StartActs # {}
  BY DEF One, OnlyIn
<1>3. Drawing' \/ Overlaid' \/ Comparing' => ~Starting'
  BY <1>2 DEF Drawing, Overlaid, Comparing, Starting, DrawActs, ResultActs, StartActs
<1>4. Resting' => ~Starting'
  <2>1. Len(<<>>) = 0
    OBVIOUS
  <2> QED  BY <2>1 DEF Resting, Starting, One
<1> QED  BY <1>1, <1>2, <1>3, <1>4 DEF Shown, Owed

\* An event changes the state only when it ends the stream that is waited for,
\* or answers a pinyin.
LEMMA EventMoves ==
    ASSUME Handled, WindowFit, Collect
    PROVE  \/ UNCHANGED state
           \/ /\ Over(Head(batch)) /\ Of(Head(batch), current)
              /\ state \in {"Streaming", "ResultReady", "Failed"}
              /\ state' \in {"ResultReady", "Failed"}
           \/ /\ state' = "Idle" /\ state \in {"Pinyin", "Prompt"}
<1> DEFINE e == Head(batch)
<1>1. C!Fit /\ SlotsFit /\ e \in Events
  BY EventsHandled DEF Handled, QueueFit, WindowFit, Collect
<1> HIDE DEF e
<1>2. CASE UNCHANGED <<machine, steps>>
  BY <1>2 DEF machine, kept
<1>3. CASE M!OnLlmChunk
  BY <1>1, <1>3, ChunkFits
<1>4. CASE e.kind = "Final" /\ OfThisEpoch(e) /\ M!OnLlmDone
  <2>1. Over(e) /\ Of(e, current)
    BY <1>4 DEF Over, Of, OfThisEpoch
  <2> QED  BY <1>1, <1>4, <2>1, DoneFits DEF e
<1>5. CASE e.kind = "Error" /\ OfThisEpoch(e) /\ M!OnLlmError
  <2>1. Over(e) /\ Of(e, current)
    BY <1>5 DEF Over, Of, OfThisEpoch
  <2> QED  BY <1>1, <1>5, <2>1, ErrorFits DEF e
<1>6. CASE e.kind = "Candidates" /\ M!OnLlmCandidates(e.pinyin, e.count, TRUE)
  <2>1. e.pinyin \in Pinyins /\ e.count \in Nat
    BY <1>1, <1>6, EventFacts DEF EventKinds
  <2>2. \/ UNCHANGED state
        \/ state' = "Idle" /\ pinyin_buffer # <<>>
    BY <1>1, <1>6, <2>1, AnswerFits
  <2> QED  BY <1>1, <2>2 DEF C!Fit, C!LettersFit
<1> QED  BY <1>2, <1>3, <1>4, <1>5, <1>6 DEF Collect, e

\* collect_steps: the last words of a stream end the wait for it.
LEMMA CollectStreams ==
    ASSUME Handled, WindowFit, StreamsFit, Collect
    PROVE  StreamsFit'
<1> DEFINE e == Head(batch)
<1>1. /\ ui = "collecting" /\ batch # <<>> /\ batch \in Seq(Events)
      /\ UNCHANGED <<current, streams, chunks>> /\ batch' = Tail(batch)
      /\ current \in Slots \cup {None} /\ EventsFit /\ OpenFit
  BY DEF Collect, Handled, QueueFit, StreamsFit, OpenFit, ai
<1>2. /\ e = batch[1] /\ e \in Events /\ Len(batch) \in Nat \ {0}
      /\ Len(batch') = Len(batch) - 1
      /\ \A i \in 1..(Len(batch) - 1) : batch'[i] = batch[i + 1]
  BY <1>1, EventsHandled
<1>3. \A i \in 1..Len(batch') :
        batch'[i] = batch[i + 1] /\ i + 1 \in 1..Len(batch) /\ i + 1 > 1
  BY <1>2
<1>4. 1 \in 1..Len(batch)
  BY <1>2
<1>5. SlotsFit' /\ Shown'
  BY <1>1, CollectOwed
<1>6. ~Starting'
  BY <1>5, NoneStarts
<1>7. \/ UNCHANGED state
      \/ /\ Over(e) /\ Of(e, current)
         /\ state \in {"Streaming", "ResultReady", "Failed"}
         /\ state' \in {"ResultReady", "Failed"}
      \/ /\ state' = "Idle" /\ state \in {"Pinyin", "Prompt"}
  BY EventMoves
<1> HIDE DEF e
<1>8. Over(e) /\ Of(e, current) => Spent(current) /\ Silence(batch', current)
  <2> SUFFICES ASSUME Over(e), Of(e, current)
               PROVE  Spent(current) /\ Silence(batch', current)
    OBVIOUS
  <2>1. e.slot = current
    BY DEF Of
  <2>2. Spent(current)
    BY <1>1, <1>2, <1>4, <2>1 DEF EventsFit
  <2>3. \A j \in 1..Len(batch) : 1 < j => ~Of(batch[j], current)
    BY <1>1, <1>2, <1>4, <2>1 DEF EventsFit, LastWords
  <2>4. Silence(batch', current)
    BY <1>3, <2>3 DEF Silence
  <2> QED  BY <2>2, <2>4
<1>9. EventsFit'
  <2>1. LastWords(batch')
    <3> SUFFICES ASSUME NEW i \in 1..Len(batch'), NEW j \in 1..Len(batch'),
                        Over(batch'[i]), i < j
                 PROVE  ~Of(batch'[j], batch'[i].slot)
      BY DEF LastWords
    <3>1. i + 1 < j + 1
      BY <1>2
    <3> QED  BY <1>1, <1>3, <3>1 DEF EventsFit, LastWords
  <2>2. \A i \in 1..Len(batch') : Over(batch'[i]) => Spent(batch'[i].slot)
    BY <1>1, <1>3 DEF EventsFit
  <2>3. state \in {"ResultReady", "Failed"} /\ current # None =>
            Spent(current) /\ Silence(batch', current)
    BY <1>1, <1>3 DEF EventsFit, Silence
  <2>4. state' \in {"ResultReady", "Failed"} /\ current # None =>
            Spent(current) /\ Silence(batch', current)
    BY <1>7, <1>8, <2>3
  <2>5. \A s : Spent(s) => streams'[s] = "free" /\ Silence(chunks', s)
    BY <1>1 DEF Spent
  <2> QED  BY <1>1, <2>1, <2>2, <2>4, <2>5 DEF EventsFit, Spent
<1>10. ASSUME NEW s \in Slots, streams[s] = "open"
       PROVE  Awaited'
  <2>1. s = current /\ state = "Streaming"
    BY <1>1, <1>10 DEF OpenFit, Awaited
  <2>2. ~(Over(e) /\ Of(e, current))
    BY <1>8, <1>10, <2>1 DEF Spent
  <2>3. state' = "Streaming"
    BY <1>7, <2>1, <2>2
  <2> QED  BY <1>6, <2>3 DEF Awaited
<1>11. OpenFit'
  BY <1>1, <1>10 DEF OpenFit
<1> QED  BY <1>9, <1>11 DEF StreamsFit

\* When the service is made no stream is open.
LEMMA StartStreams == Init => StreamsFit
<1> SUFFICES ASSUME Init  PROVE StreamsFit
  OBVIOUS
<1>1. /\ batch = <<>> /\ chunks = <<>> /\ state = "Idle" /\ current = None
      /\ streams = [s \in Slots |-> "free"]
  BY DEF Init, M!Init
<1>2. \A i \in 1..Len(<<>>) : FALSE
  OBVIOUS
<1> QED  BY <1>1, <1>2, Emptied DEF StreamsFit, EventsFit, OpenFit

(***************************************************************************)
(* The queries.                                                            *)
(***************************************************************************)
\* The keys wait for candidates.
Awaiting == state = "Pinyin" /\ candidates_in_flight
CountsFit == /\ pending \in Pinyins \cup {None}
             /\ started \in [Pinyins -> Nat] /\ working \in [Pinyins -> Nat]

\* Nothing is asked in an empty list.
LEMMA NoAsks ==
    /\ \A p : ~\E i \in 1..Len(<<>>) : <<>>[i].ask = p
    /\ \A i \in 1..Len(<<>>) : FALSE
OBVIOUS

\* An answer in the queue stays there while events only come.
LEMMA AnswersStay ==
    ASSUME QueueFit, NEW e, chunks' = chunks \/ (chunks' = Append(chunks, e) /\ e \in Events),
           NEW p, Answered(p) # {}
    PROVE  Answered(p)' # {}
<1>1. PICK i \in 1..Len(chunks) : chunks[i].kind = "Candidates" /\ chunks[i].pinyin = p
  BY DEF Answered
<1>2. i \in 1..Len(chunks') /\ chunks'[i] = chunks[i]
  <2>1. chunks \in Seq(Events) /\ Len(chunks) \in Nat
    BY DEF QueueFit
  <2>2. CASE chunks' = chunks
    BY <2>2
  <2>3. CASE chunks' = Append(chunks, e) /\ e \in Events
    <3>1. /\ Len(chunks') = Len(chunks) + 1
          /\ \A j \in 1..Len(chunks) : chunks'[j] = chunks[j]
      BY <2>1, <2>3, AppendProperties
    <3> QED  BY <2>1, <3>1
  <2> QED  BY <2>2, <2>3
<1> QED  BY <1>1, <1>2 DEF Answered

\* Nothing of the query's way changes, nor what the machine waits for.
LEMMA AsksStay ==
    ASSUME QueueFit, AsksFit, UNCHANGED <<pending, started, working, batch, steps>>,
           NEW e, chunks' = chunks \/ (chunks' = Append(chunks, e) /\ e \in Events),
           Awaiting' => Awaiting /\ UNCHANGED last_candidates_request,
           steps = <<>> \/ UNCHANGED <<ui, last_candidates_request>>
    PROVE  AsksFit'
<1>1. CountsFit'
  BY DEF AsksFit, CountsFit
<1>2. \A i \in 1..Len(steps') : AskFits(steps[i])'
  <2>1. CASE steps = <<>>
    BY <2>1, NoAsks
  <2>2. CASE UNCHANGED <<ui, last_candidates_request>>
    BY <2>2 DEF AsksFit, AskFits
  <2> QED  BY <2>1, <2>2
<1>3. ASSUME Awaiting'
      PROVE  (UnderWay(last_candidates_request) \/ InHand(last_candidates_request)
              \/ ToAsk(last_candidates_request))'
  <2>1. /\ UNCHANGED last_candidates_request
        /\ \/ UnderWay(last_candidates_request) \/ InHand(last_candidates_request)
           \/ ToAsk(last_candidates_request)
    BY <1>3 DEF AsksFit, Awaiting
  <2>2. InHand(last_candidates_request) => InHand(last_candidates_request)'
    BY <2>1 DEF InHand
  <2>3. ToAsk(last_candidates_request) => ToAsk(last_candidates_request)'
    BY <2>1 DEF ToAsk
  <2>4. Answered(last_candidates_request) # {} => Answered(last_candidates_request)' # {}
    <3> DEFINE p == last_candidates_request
    <3>1. PICK p0 : p0 = last_candidates_request
      OBVIOUS
    <3>2. Answered(p0) # {} => Answered(p0)' # {}
      BY AnswersStay
    <3> QED  BY <2>1, <3>1, <3>2 DEF Answered
  <2>5. UnderWay(last_candidates_request) => UnderWay(last_candidates_request)'
    BY <2>1, <2>4 DEF UnderWay, Queries
  <2> QED  BY <2>1, <2>2, <2>3, <2>5
<1> QED  BY <1>1, <1>2, <1>3 DEF AsksFit, CountsFit, Awaiting

\* A key asks for the letters it leaves, or leaves what was asked for alone.
LEMMA ReplyAsks ==
    ASSUME Handled, WindowFit, AsksFit, ui \in {"idle", "routing"},
           state # "OcrPreviewing", NEW k, NEW was, Feed(k, was)
    PROVE  AsksFit'
<1>1. /\ Fits /\ Shaped /\ Returned /\ steps = <<>>
      /\ UNCHANGED <<pending, started, working, chunks, batch>>
  BY FeedFits DEF Handled, UiFit, Returned, queries
<1>2. C!Asking
  BY <1>1 DEF Fits, WindowFit
<1>3. CountsFit'
  BY <1>1 DEF AsksFit, CountsFit
<1>4. /\ out' = <<>> => steps' = <<>>
      /\ out' # <<>> =>
           /\ Len(steps') = 1 /\ ui' = "applying"
           /\ steps'[1].do = out'[1] /\ steps'[1].event = FALSE
           /\ steps'[1].ask = IF last_candidates_request' # last_candidates_request
                              THEN last_candidates_request' ELSE None
  <2>1. out' = <<>> \/ Len(out') = 1
    BY <1>1 DEF Shaped, C!Says
  <2> QED  BY <1>1, <2>1, ReturnedShape
<1>5. C!Says("UpdatePinyin") => out' # <<>> /\ out'[1].act = "UpdatePinyin"
  <2>1. Len(<<>>) = 0
    OBVIOUS
  <2> QED  BY <2>1 DEF C!Says
<1>6. \A i \in 1..Len(steps') : AskFits(steps[i])'
  <2>1. CASE out' = <<>>
    BY <1>4, <2>1, NoAsks
  <2>2. CASE out' # <<>>
    <3>1. \A i \in 1..Len(steps') : i = 1
      <4>1. Len(steps') = 1
        BY <1>4, <2>2
      <4> QED  BY <4>1
    <3>2. steps'[1].ask # None =>
            /\ ui' = "applying" /\ Len(steps') = 1
            /\ steps'[1].do.act = "UpdatePinyin" /\ steps'[1].event = FALSE
            /\ steps'[1].ask = last_candidates_request'
      BY <1>2, <1>4, <1>5, <2>2 DEF C!Asking
    <3> QED  BY <3>1, <3>2 DEF AskFits
  <2> QED  BY <2>1, <2>2
<1>7. ASSUME Awaiting'
      PROVE  (UnderWay(last_candidates_request) \/ InHand(last_candidates_request)
              \/ ToAsk(last_candidates_request))'
  <2>1. CASE Awaiting /\ UNCHANGED last_candidates_request
    <3>1. ~ToAsk(last_candidates_request)
      BY <1>1, NoAsks DEF ToAsk
    <3>2. UnderWay(last_candidates_request) \/ InHand(last_candidates_request)
      BY <2>1, <3>1 DEF AsksFit, Awaiting
    <3>3. UnderWay(last_candidates_request) => UnderWay(last_candidates_request)'
      BY <1>1, <2>1 DEF UnderWay, Queries, Answered
    <3>4. InHand(last_candidates_request) => InHand(last_candidates_request)'
      BY <1>1, <2>1 DEF InHand
    <3> QED  BY <3>2, <3>3, <3>4
  <2>2. CASE /\ C!Says("UpdatePinyin")
             /\ last_candidates_request' # last_candidates_request
    <3>1. Len(steps') = 1 /\ steps'[1].ask = last_candidates_request'
      BY <1>4, <1>5, <2>2
    <3>2. 1 \in 1..Len(steps')
      BY <3>1
    <3> QED  BY <3>1, <3>2 DEF ToAsk
  <2> QED  BY <1>2, <1>7, <2>1, <2>2 DEF C!Asking, Awaiting
<1> QED  BY <1>3, <1>6, <1>7 DEF AsksFit, CountsFit, Awaiting

\* A call that leaves the letters, and what was asked for them, alone.
LEMMA LeavesAsks ==
    ASSUME Handled, AsksFit, UNCHANGED <<pending, started, working, chunks, batch>>,
           Returned, out' = <<>> \/ Len(out') = 1,
           UNCHANGED last_candidates_request, ~Awaiting'
    PROVE  AsksFit'
<1>1. CountsFit'
  BY DEF AsksFit, CountsFit
<1>2. \A i \in 1..Len(steps') : AskFits(steps[i])'
  <2>1. CASE out' = <<>>
    <3>1. steps' = <<>>
      BY <2>1, ReturnedShape
    <3> QED  BY <3>1, NoAsks
  <2>2. CASE out' # <<>>
    <3>1. Len(steps') = 1 /\ steps'[1].ask = None
      BY <2>2, ReturnedShape
    <3>2. \A i \in 1..Len(steps') : i = 1
      BY <3>1
    <3> QED  BY <3>1, <3>2 DEF AskFits
  <2> QED  BY <2>1, <2>2
<1> QED  BY <1>1, <1>2 DEF AsksFit, CountsFit, Awaiting

\* A key leaves a request under way, or asks anew.
LEMMA KeysAsks ==
    ASSUME Handled, WindowFit, AsksFit, NEW k \in Keys, UserKey(k)
    PROVE  AsksFit'
<1>1. CASE TestKeyDown(k)
  <2>1. /\ ui = "idle" /\ UNCHANGED <<machine, steps, batch, chunks, pending, started, working>>
    BY <1>1 DEF TestKeyDown, Claimed, queries
  <2>2. /\ steps = <<>> /\ QueueFit
        /\ UNCHANGED <<state, last_candidates_request, candidates_in_flight>>
    BY <2>1 DEF Handled, UiFit, machine, kept
  <2>3. Awaiting' => Awaiting
    BY <2>2 DEF Awaiting
  <2> QED  BY <2>1, <2>2, <2>3, AsksStay
<1>2. CASE KeyDown(k)
  <2>1. ui = "idle" /\ state # "OcrPreviewing" /\ Feed(k, state)
    BY <1>2 DEF KeyDown, Claimed, Previewing
  <2> QED  BY <2>1, ReplyAsks
<1>3. CASE KeyDownRewrite(k)
  <2>1. /\ Returned /\ \E key_ : M!FeedRewritePreview(key_)
        /\ UNCHANGED <<pending, started, working, chunks, batch>>
    BY <1>3 DEF KeyDownRewrite, Returned, queries
  <2>2. /\ state' = "Idle" /\ UNCHANGED last_candidates_request
        /\ out' = <<>> \/ Len(out') = 1
    BY <2>1, RewriteKeyFits DEF Handled, M!pinyinVars, C!Says
  <2> QED  BY <2>1, <2>2, LeavesAsks DEF Awaiting
<1> QED  BY <1>1, <1>2, <1>3 DEF UserKey

\* So do the keys that find or end a preview.
LEMMA HandlersAsks ==
    ASSUME Handled, WindowFit, AsksFit, KeyHandler
    PROVE  AsksFit'
<1>1. CASE KeyDownPreview
  <2>1. /\ Returned /\ \E k \in {"Confirm", "Escape"} : M!FeedOcrPreview(k)
        /\ UNCHANGED <<pending, started, working, chunks, batch>>
    BY <1>1 DEF KeyDownPreview, Returned, queries
  <2>2. /\ state' = "Idle" /\ UNCHANGED last_candidates_request
        /\ out' = <<>> \/ Len(out') = 1
    BY <2>1, OcrFits DEF Handled, M!pinyinVars, C!Says
  <2> QED  BY <2>1, <2>2, LeavesAsks DEF Awaiting
<1>2. CASE KeyDownEndsPreview
  <2>1. /\ ui = "claimed" /\ M!EndOcrPreview
        /\ UNCHANGED <<pending, started, working, chunks, batch, steps>>
    BY <1>2 DEF KeyDownEndsPreview, queries
  <2>2. steps = <<>> /\ QueueFit /\ state' = "Idle"
    BY <2>1, OcrFits DEF Handled, UiFit
  <2> QED  BY <2>1, <2>2, AsksStay DEF Awaiting
<1>3. CASE KeyDownGoesOn
  <2>1. ui = "routing" /\ state = "Idle" /\ Feed(key, before)
    BY <1>3 DEF KeyDownGoesOn, Handled, UiFit
  <2> QED  BY <2>1, ReplyAsks
<1> QED  BY <1>1, <1>2, <1>3 DEF KeyHandler

\* A query's thread is started.
LEMMA QueryStarted ==
    ASSUME CountsFit, NEW p \in Pinyins, StartQuery(p)
    PROVE  /\ CountsFit' /\ started'[p] = started[p] + 1
           /\ \A q \in Pinyins : started'[q] >= started[q]
           /\ pending' = None /\ UNCHANGED working
BY DEF CountsFit, StartQuery

\* The waiting query is started, the queue is taken.
LEMMA TimerAsks ==
    ASSUME HostCooperates, Handled, AsksFit, Tick \/ DrainResult
    PROVE  AsksFit'
<1>1. /\ steps = <<>> /\ UNCHANGED steps /\ batch = <<>> /\ QueueFit /\ CountsFit
      /\ TakeBatch \/ UNCHANGED <<chunks, batch>>
  BY ObeyedResult DEF Tick, Handled, UiFit, QueueFit, AsksFit, CountsFit
<1>2. \/ UNCHANGED <<pending, started, working>>
      \/ pending \in Pinyins /\ StartQuery(pending)
  BY <1>1, ObeyedResult DEF Tick, queries, CountsFit
<1>3. /\ CountsFit' /\ UNCHANGED working
      /\ pending # None => pending' = pending \/ started'[pending] = started[pending] + 1
      /\ \A q \in Pinyins : started'[q] >= started[q]
  <2>1. CASE UNCHANGED <<pending, started, working>>
    BY <1>1, <2>1 DEF CountsFit
  <2>2. CASE pending \in Pinyins /\ StartQuery(pending)
    BY <1>1, <2>2, QueryStarted
  <2> QED  BY <1>2, <2>1, <2>2
<1>4. UNCHANGED <<last_candidates_request, candidates_in_flight>>
      /\ (state' = "Pinyin" => state = "Pinyin")
  <2>1. CASE UNCHANGED machine
    BY <2>1 DEF machine, kept
  <2>2. CASE M!ExpireStaleOcrPreview
    BY <2>2, OcrFits DEF M!ExpireStaleOcrPreview, Handled, M!pinyinVars
  <2>3. CASE M!BeginOcrPreview(<<M!OcrText>>)
    BY <2>3, BeginOcrFits DEF Handled, M!pinyinVars
  <2> QED  BY <2>1, <2>2, <2>3, ObeyedResult DEF Tick
<1>5. ASSUME Awaiting'
      PROVE  (UnderWay(last_candidates_request) \/ InHand(last_candidates_request)
              \/ ToAsk(last_candidates_request))'
  <2> DEFINE p == last_candidates_request
  <2>1. Awaiting /\ p \in Pinyins /\ p' = p
    BY <1>4, <1>5, LettersHere DEF Awaiting, Handled, C!Fit, C!LettersFit
  <2>2. ~ToAsk(p) /\ ~InHand(p)
    BY <1>1, NoAsks DEF ToAsk, InHand
  <2>3. UnderWay(p)
    BY <2>1, <2>2 DEF AsksFit, Awaiting
  <2>4. CASE pending = p
    <3>1. pending' = p' \/ started'[p'] > 0
      BY <1>1, <1>3, <2>1, <2>4, NoneApart DEF CountsFit
    <3>2. Queries(p)' > 0 \/ pending' = p'
      <4>1. started'[p'] \in Nat /\ working'[p'] \in Nat
        BY <1>3, <2>1 DEF CountsFit
      <4> QED  BY <3>1, <4>1 DEF Queries
    <3> QED  BY <3>2 DEF UnderWay
  <2>5. CASE Queries(p) > 0
    <3>1. /\ started[p] \in Nat /\ working[p] \in Nat /\ started'[p] \in Nat
          /\ started'[p] >= started[p] /\ working'[p] = working[p]
      BY <1>1, <1>3, <2>1 DEF CountsFit
    <3>2. Queries(p)' > 0
      BY <2>1, <2>5, <3>1 DEF Queries
    <3> QED  BY <3>2 DEF UnderWay
  <2>6. CASE Answered(p) # {}
    <3>1. CASE UNCHANGED chunks
      BY <2>1, <2>6, <3>1 DEF Answered, UnderWay
    <3>2. CASE TakeBatch
      <4>1. batch' = chunks
        BY <3>2 DEF TakeBatch
      <4>2. \E i \in 1..Len(batch') : batch'[i].kind = "Candidates" /\ batch'[i].pinyin = p'
        BY <2>1, <2>6, <4>1 DEF Answered
      <4> QED  BY <4>2 DEF InHand
    <3> QED  BY <1>1, <3>1, <3>2
  <2> QED  BY <2>3, <2>4, <2>5, <2>6 DEF UnderWay
<1>6. \A i \in 1..Len(steps') : AskFits(steps[i])'
  BY <1>1, NoAsks
<1> QED  BY <1>3, <1>5, <1>6 DEF AsksFit, CountsFit, Awaiting

\* What ends a composition comes last, and finds it ended.
LEMMA EndLast ==
    ASSUME Owed, Listed(steps), steps # <<>>, steps[1].do.act \in EndActs
    PROVE  Ending
<1>1. Len(steps) \in Nat \ {0} /\ 1 \in 1..Len(steps)
  BY ListedLength
<1>2. \A acts : OnlyIn(steps, acts) => steps[1].do.act \in acts
  BY <1>1 DEF OnlyIn
<1> QED
  BY <1>2 DEF Owed, Capturing, Starting, Prompting, Drawing, Overlaid, Comparing,
              Resting, One, StartActs, DrawActs, EndActs, ResultActs

\* What applying the next action does to the queries.
LEMMA QueryMoves ==
    ASSUME HostCooperates, Apply, C!Fit, NEW step, step = Head(steps)
    PROVE  \/ /\ UNCHANGED queries /\ step.do.act \notin EndActs
              /\ step.do.act = "UpdatePinyin" => step.ask = None
           \/ /\ step.do.act = "UpdatePinyin" /\ step.ask # None
              /\ ScheduleQuery(step.ask) /\ Kept
           \/ step.do.act \in EndActs /\ CancelQuery /\ Kept
<1>1. /\ step.do.act = "UpdatePinyin" =>
            /\ Kept
            /\ step.ask # None => ScheduleQuery(step.ask)
            /\ step.ask = None => UNCHANGED queries
      /\ step.do.act \in {"EnterPrompt", "UpdatePrompt"} => UNCHANGED queries
      /\ step.do.act = "UpdateResult" => UNCHANGED queries
      /\ step.do.act = "Preedit" => UNCHANGED queries
      /\ step.do.act \in StartActs => UNCHANGED queries
      /\ step.do.act = "StartCapture" => UNCHANGED queries
      /\ step.do.act \in {"ResultReady", "LlmFailed"} => UNCHANGED queries
      /\ step.do.act = "RewriteReady" => UNCHANGED queries
      /\ step.do.act \in EndActs => Kept /\ CancelQuery
  BY Obeyed
<1>2. step.do.act \in
              {"UpdatePinyin", "EnterPrompt", "UpdatePrompt", "UpdateResult", "Preedit",
               "StartCapture", "ResultReady", "LlmFailed", "RewriteReady"}
              \cup StartActs \cup EndActs
  BY ApplyActs
<1> QED  BY <1>1, <1>2 DEF StartActs, EndActs

\* The machine waits afterwards only for what it waited for.
LEMMA ApplyAwaits ==
    ASSUME Apply, C!Fit
    PROVE  Awaiting' => Awaiting /\ UNCHANGED last_candidates_request
<1>1. CASE Kept
  BY <1>1 DEF Kept, kept, Awaiting
<1>2. CASE NewMachine
  BY <1>2, NewFits DEF Awaiting
<1>3. ASSUME NEW r, NEW s, M!BeginRewritePreview(r, s)
      PROVE  UNCHANGED <<state, last_candidates_request, candidates_in_flight>>
  BY <1>3 DEF M!BeginRewritePreview, M!pinyinVars
<1> QED  BY <1>1, <1>2, <1>3, ApplyMoves DEF Awaiting

\* apply_action hands a new request to schedule_candidate_request, where it waits or
\* starts, and drops the waiting one only with its composition.
LEMMA ApplyAsks ==
    ASSUME HostCooperates, Handled, WindowFit, AsksFit, Apply
    PROVE  AsksFit'
<1> DEFINE step == Head(steps)
           p == last_candidates_request
<1>1. /\ ui = "applying" /\ Taken /\ batch = <<>> /\ UNCHANGED <<batch, chunks>>
  BY ApplyMoves DEF Handled, QueueFit, Taken
<1>2. /\ steps # <<>> /\ Len(steps) \in Nat \ {0} /\ step = steps[1] /\ Listed(steps)
      /\ Len(steps') = Len(steps) - 1
      /\ \A i \in 1..Len(steps') : steps'[i] = steps[i + 1] /\ i + 1 \in 1..Len(steps)
  BY <1>1, ListTaken DEF Handled, UiFit
<1>3. \/ UNCHANGED queries /\ (step.do.act = "UpdatePinyin" => step.ask = None)
      \/ /\ step.ask # None /\ ScheduleQuery(step.ask)
      \/ step.do.act \in EndActs /\ CancelQuery /\ Kept
  BY QueryMoves DEF Handled
<1>4. AskFits(step)
  <2>1. 1 \in 1..Len(steps)
    BY <1>2
  <2> QED  BY <1>2, <2>1 DEF AsksFit
<1>5. step.do.act \in EndActs => ~Awaiting
  BY <1>2, EndLast DEF WindowFit, Ending, Awaiting
<1> HIDE DEF step
<1>6. \A i \in 1..Len(steps') : steps'[i].ask = None
  <2> SUFFICES ASSUME NEW i \in 1..Len(steps')  PROVE steps'[i].ask = None
    OBVIOUS
  <2>1. steps'[i] = steps[i + 1] /\ i + 1 \in 1..Len(steps) /\ Len(steps) # 1
    BY <1>2
  <2> QED  BY <2>1 DEF AsksFit, AskFits
<1>7. p \in Pinyins \cup {None} /\ CountsFit
  BY LettersHere DEF AsksFit, CountsFit, Handled, C!Fit, C!LettersFit
<1>8. step.ask # None => step.ask = p /\ p \in Pinyins
  BY <1>4, <1>7 DEF AskFits
<1>9. CountsFit'
  <2>1. CASE UNCHANGED queries
    BY <1>7, <2>1 DEF queries, CountsFit
  <2>2. CASE p \in Pinyins /\ ScheduleQuery(p)
    BY <1>7, <2>2, QueryStarted DEF ScheduleQuery, CountsFit
  <2>3. CASE CancelQuery
    BY <1>7, <2>3 DEF CancelQuery, CountsFit
  <2> QED  BY <1>3, <1>8, <2>1, <2>2, <2>3
<1>10. ASSUME Awaiting'
       PROVE  UnderWay(last_candidates_request)'
  <2>1. Awaiting /\ p' = p /\ p \in Pinyins
    BY <1>10, ApplyAwaits, LettersHere DEF Handled, Awaiting, C!Fit, C!LettersFit
  <2>2. UnderWay(p) \/ ToAsk(p)
    <3>1. ~InHand(p)
      BY <1>1, NoAsks DEF InHand
    <3> QED  BY <2>1, <3>1 DEF AsksFit, Awaiting
  <2>3. ToAsk(p) => step.ask = p /\ step.do.act = "UpdatePinyin" /\ step.ask # None
    <3> SUFFICES ASSUME NEW i \in 1..Len(steps), steps[i].ask = p
                 PROVE  step.ask = p /\ step.do.act = "UpdatePinyin" /\ step.ask # None
      BY DEF ToAsk
    <3>1. p # None
      BY <2>1, NoneApart
    <3>2. Len(steps) = 1 /\ steps[i].do.act = "UpdatePinyin"
      BY <3>1 DEF AsksFit, AskFits
    <3>3. i = 1
      BY <3>2
    <3> QED  BY <1>2, <3>1, <3>2, <3>3
  <2>4. CASE UNCHANGED queries /\ (step.do.act = "UpdatePinyin" => step.ask = None)
    <3>1. UnderWay(p)
      BY <2>2, <2>3, <2>4
    <3> QED  BY <1>1, <2>1, <2>4, <3>1 DEF UnderWay, Queries, Answered, queries
  <2>5. CASE ScheduleQuery(p)
    <3>1. CASE pending' = p
      BY <2>1, <3>1 DEF UnderWay
    <3>2. CASE StartQuery(p)
      <4>1. /\ started'[p] = started[p] + 1 /\ started[p] \in Nat
            /\ working'[p] = working[p] /\ working[p] \in Nat
        BY <1>7, <2>1, <3>2, QueryStarted DEF CountsFit
      <4>2. Queries(p)' > 0
        BY <2>1, <4>1 DEF Queries
      <4> QED  BY <4>2 DEF UnderWay
    <3> QED  BY <2>5, <3>1, <3>2 DEF ScheduleQuery
  <2> QED  BY <1>3, <1>5, <1>8, <2>1, <2>4, <2>5
<1>11. \A i \in 1..Len(steps') : AskFits(steps[i])'
  BY <1>6 DEF AskFits
<1> QED  BY <1>9, <1>10, <1>11 DEF AsksFit, CountsFit, Awaiting

\* Nothing that an event draws asks for candidates.
LEMMA CollectedAsks ==
    ASSUME Listed(steps), \A i \in 1..Len(steps) : steps[i].ask = None, NEW acts, Listed(acts)
    PROVE  \A i \in 1..Len(Collected(acts)) : Collected(acts)[i].ask = None
<1>1. PICK k : Added(acts, k)
  BY CollectedShape
<1> DEFINE all == Collected(acts)
<1>2. Len(acts) \in Nat /\ Len(steps) \in Nat /\ k \in Nat /\ k <= Len(steps)
      /\ Len(all) = k + Len(acts)
  BY <1>1, ListedLength DEF Added
<1>3. \A i \in 1..k : all[i] = steps[i] /\ i \in 1..Len(steps)
  BY <1>1, <1>2 DEF Added
<1>4. \A j \in 1..Len(acts) : all[k + j].ask = None
  BY <1>1, EventFields DEF Added
<1> HIDE DEF all
<1>5. ASSUME NEW i \in 1..Len(all)
      PROVE  all[i].ask = None
  <2>1. CASE i <= k
    BY <1>2, <1>3, <2>1
  <2>2. CASE ~(i <= k)
    <3>1. i - k \in 1..Len(acts) /\ k + (i - k) = i
      BY <1>2, <2>2
    <3> QED  BY <1>4, <3>1
  <2> QED  BY <2>1, <2>2
<1> QED  BY <1>5 DEF all

\* collect_steps: an answer for the letters on screen ends the wait.
LEMMA CollectAsks ==
    ASSUME Handled, WindowFit, AsksFit, Collect
    PROVE  AsksFit'
<1> DEFINE e == Head(batch)
<1>1. /\ ui = "collecting" /\ batch # <<>> /\ batch \in Seq(Events) /\ Listed(steps)
      /\ UNCHANGED <<pending, started, working, chunks>> /\ batch' = Tail(batch)
      /\ CountsFit /\ C!Fit
  BY DEF Collect, Handled, QueueFit, UiFit, AsksFit, CountsFit, queries
<1>2. /\ e = batch[1] /\ e \in Events /\ Len(batch) \in Nat \ {0}
      /\ Len(batch') = Len(batch) - 1
      /\ \A i \in 1..(Len(batch) - 1) : batch'[i] = batch[i + 1]
  BY <1>1, EventsHandled
<1>3. \A i \in 1..Len(steps) : steps[i].ask = None
  BY <1>1 DEF AsksFit, AskFits
<1>4. /\ steps' = steps \/ \E acts : Listed(acts) /\ steps' = Collected(acts)
      /\ Awaiting' => Awaiting /\ UNCHANGED last_candidates_request
      /\ Awaiting' /\ e.kind = "Candidates" => e.pinyin # last_candidates_request
  <2> HIDE DEF e
  <2>0. C!Says("UpdatePinyin") \/ C!Says("CommitImmediate") \/ out' = <<>> => Listed(out')
    <3>1. Listed(<<>>) /\ \A a : Listed(<<a>>)
      BY FewActs
    <3> QED  BY <3>1 DEF C!Says
  <2>1. CASE ~OfThisEpoch(e) /\ UNCHANGED <<machine, steps>>
    BY <2>1 DEF machine, kept, Awaiting, OfThisEpoch
  <2>2. CASE M!OnLlmChunk /\ e.kind = "Chunk" /\ steps' = Collected(out')
    <3>1. /\ UNCHANGED <<state, M!pinyinVars>>
          /\ out' = <<>> \/ out' = <<out'[1]>>
      BY <1>1, <2>2, ChunkFits DEF C!Says
    <3>2. Listed(out')
      <4>1. Listed(<<>>) /\ \A a : Listed(<<a>>)
        BY FewActs
      <4> QED  BY <3>1, <4>1
    <3> QED  BY <2>2, <3>1, <3>2 DEF Awaiting, M!pinyinVars
  <2>3. CASE M!OnLlmDone /\ e.kind = "Final" /\ steps' = Collected(out' \o StateLine)
    <3>1. /\ UNCHANGED M!pinyinVars /\ (state' = "Pinyin" => state = "Pinyin")
          /\ out' = <<>> \/ out' = <<out'[1]>>
      BY <1>1, <2>3, DoneFits DEF C!Says
    <3>2. Listed(out' \o StateLine)
      BY <3>1, DrawnActs
    <3> QED  BY <2>3, <3>1, <3>2 DEF Awaiting, M!pinyinVars
  <2>4. CASE M!OnLlmError /\ e.kind = "Error" /\ steps' = Collected(out' \o StateLine)
    <3>1. /\ UNCHANGED M!pinyinVars /\ (state' = "Pinyin" => state = "Pinyin")
          /\ out' = <<>> \/ out' = <<out'[1]>>
      BY <1>1, <2>4, ErrorFits DEF C!Says
    <3>2. Listed(out' \o StateLine)
      BY <3>1, DrawnActs
    <3> QED  BY <2>4, <3>1, <3>2 DEF Awaiting, M!pinyinVars
  <2>5. CASE /\ e.kind = "Candidates" /\ M!OnLlmCandidates(e.pinyin, e.count, TRUE)
             /\ steps' = Collected(out')
    <3>1. e.pinyin \in Pinyins /\ e.count \in Nat
      BY <1>2, <2>5, EventFacts DEF EventKinds, e
    <3>2. /\ out' = <<>> \/ C!Says("UpdatePinyin") \/ C!Says("CommitImmediate")
          /\ Awaiting' => /\ Awaiting /\ e.pinyin # pinyin_buffer
                          /\ UNCHANGED last_candidates_request
      BY <1>1, <2>5, <3>1, AnswerFits DEF Awaiting
    <3>3. Awaiting => last_candidates_request = pinyin_buffer
      BY <1>1 DEF C!Fit, C!LettersFit, Awaiting
    <3> QED  BY <2>0, <2>5, <3>2, <3>3
  <2> QED  BY <2>1, <2>2, <2>3, <2>4, <2>5 DEF Collect, e
<1>5. \A i \in 1..Len(steps') : steps'[i].ask = None
  <2>1. CASE steps' = steps
    BY <1>3, <2>1
  <2>2. CASE \E acts : Listed(acts) /\ steps' = Collected(acts)
    BY <1>1, <1>3, <2>2, CollectedAsks
  <2> QED  BY <1>4, <2>1, <2>2
<1>6. ASSUME Awaiting'
      PROVE  (UnderWay(last_candidates_request) \/ InHand(last_candidates_request))'
  <2> DEFINE p == last_candidates_request
  <2>1. Awaiting /\ p' = p /\ p \in Pinyins
    BY <1>1, <1>4, <1>6, LettersHere DEF Awaiting, C!Fit, C!LettersFit
  <2>2. ~ToAsk(p)
    BY <1>3, <2>1, NoneApart DEF ToAsk
  <2>3. CASE UnderWay(p)
    BY <1>1, <2>1, <2>3 DEF UnderWay, Queries, Answered
  <2>4. CASE InHand(p)
    <3>1. PICK i \in 1..Len(batch) : batch[i].kind = "Candidates" /\ batch[i].pinyin = p
      BY <2>4 DEF InHand
    <3>2. i # 1
      BY <1>2, <1>4, <1>6, <3>1
    <3>3. i - 1 \in 1..Len(batch') /\ batch'[i - 1] = batch[i]
      BY <1>2, <3>2
    <3> QED  BY <2>1, <3>1, <3>3 DEF InHand
  <2> QED  BY <2>1, <2>2, <2>3, <2>4 DEF AsksFit, Awaiting
<1>7. CountsFit'
  BY <1>1 DEF CountsFit
<1>8. \A i \in 1..Len(steps') : AskFits(steps[i])'
  BY <1>5 DEF AskFits
<1> QED  BY <1>6, <1>7, <1>8 DEF AsksFit, CountsFit, Awaiting

\* A query's thread begins: it is counted elsewhere.
LEMMA QueryBegins ==
    ASSUME QueueFit, AsksFit, NEW q \in Pinyins, QueryStarts(q),
           Awaiting => last_candidates_request \in Pinyins
    PROVE  AsksFit'
<1>1. /\ started[q] > 0 /\ started' = [started EXCEPT ![q] = @ - 1]
      /\ working' = [working EXCEPT ![q] = @ + 1]
      /\ UNCHANGED <<machine, ui, steps, batch, pending, chunks>>
  BY DEF QueryStarts, Others, handler
<1>2. UNCHANGED <<state, last_candidates_request, candidates_in_flight>>
  BY <1>1 DEF machine, kept
<1>3. CountsFit /\ CountsFit'
  BY <1>1 DEF AsksFit, CountsFit
<1>4. \A p \in Pinyins : started'[p] + working'[p] = started[p] + working[p]
  BY <1>1, <1>3 DEF CountsFit
<1>5. ASSUME Awaiting'
      PROVE  (UnderWay(last_candidates_request) \/ InHand(last_candidates_request)
              \/ ToAsk(last_candidates_request))'
  <2>1. Awaiting /\ last_candidates_request \in Pinyins
    BY <1>2, <1>5 DEF Awaiting
  <2>2. Queries(last_candidates_request)' = Queries(last_candidates_request)
    BY <1>2, <1>4, <2>1 DEF Queries
  <2>3. /\ UnderWay(last_candidates_request) => UnderWay(last_candidates_request)'
        /\ InHand(last_candidates_request) => InHand(last_candidates_request)'
        /\ ToAsk(last_candidates_request) => ToAsk(last_candidates_request)'
    BY <1>1, <1>2, <2>2 DEF UnderWay, InHand, ToAsk, Answered
  <2> QED  BY <2>1, <2>3 DEF AsksFit, Awaiting
<1>6. \A i \in 1..Len(steps') : AskFits(steps[i])'
  BY <1>1, <1>2 DEF AsksFit, AskFits
<1> QED  BY <1>3, <1>5, <1>6 DEF AsksFit, CountsFit, Awaiting

\* A query's thread ends: what it leaves in the queue answers its letters.
LEMMA QueryAnswers ==
    ASSUME QueueFit, AsksFit, NEW q \in Pinyins, QueryEnds(q),
           Awaiting => last_candidates_request \in Pinyins
    PROVE  AsksFit'
<1>1. PICK n \in Answers \cup {0} :
          chunks' = Append(chunks, [kind |-> "Candidates", pinyin |-> q, count |-> n])
  BY DEF QueryEnds
<1>2. /\ working[q] > 0 /\ working' = [working EXCEPT ![q] = @ - 1]
      /\ UNCHANGED <<machine, ui, steps, batch, pending, started>>
  BY DEF QueryEnds, Others, handler
<1>3. UNCHANGED <<state, last_candidates_request, candidates_in_flight>>
  BY <1>2 DEF machine, kept
<1>4. CountsFit /\ CountsFit'
  BY <1>2 DEF AsksFit, CountsFit
<1> DEFINE e == [kind |-> "Candidates", pinyin |-> q, count |-> n]
<1>5. e \in Events /\ e.kind = "Candidates" /\ e.pinyin = q /\ chunks' = Append(chunks, e)
  BY <1>1, EventFacts DEF EventKinds
<1> HIDE DEF e
<1>6. Answered(q)' # {}
  <2>1. /\ chunks \in Seq(Events) /\ Len(chunks) \in Nat
        /\ Len(chunks') = Len(chunks) + 1 /\ chunks'[Len(chunks) + 1] = e
    <3>1. chunks \in Seq(Events)
      BY DEF QueueFit
    <3> QED  BY <1>5, <3>1, AppendProperties, LenProperties
  <2>2. Len(chunks) + 1 \in 1..Len(chunks')
    BY <2>1
  <2> QED  BY <1>5, <2>1, <2>2 DEF Answered
<1>7. \A p \in Pinyins \ {q} : working'[p] = working[p]
  BY <1>2, <1>4 DEF CountsFit
<1>8. ASSUME Awaiting'
      PROVE  (UnderWay(last_candidates_request) \/ InHand(last_candidates_request)
              \/ ToAsk(last_candidates_request))'
  <2>1. PICK p : p = last_candidates_request
    OBVIOUS
  <2>2. Awaiting /\ p \in Pinyins /\ last_candidates_request' = p
    BY <1>3, <1>8, <2>1 DEF Awaiting
  <2>3. Answered(p) # {} => Answered(p)' # {}
    BY <1>5, AnswersStay
  <2>4. UnderWay(p) => UnderWay(p)'
    <3>1. CASE p = q
      BY <1>6, <3>1 DEF UnderWay
    <3>2. CASE p # q
      BY <1>2, <1>7, <2>2, <2>3, <3>2 DEF UnderWay, Queries
    <3> QED  BY <3>1, <3>2
  <2>5. InHand(p) => InHand(p)'
    BY <1>2 DEF InHand
  <2>6. ToAsk(p) => ToAsk(p)'
    BY <1>2 DEF ToAsk
  <2>7. UnderWay(p)' \/ InHand(p)' \/ ToAsk(p)'
    BY <2>1, <2>2, <2>4, <2>5, <2>6 DEF AsksFit, Awaiting
  <2> QED
    BY <2>2, <2>7 DEF UnderWay, InHand, ToAsk, Queries, Answered
<1>9. \A i \in 1..Len(steps') : AskFits(steps[i])'
  BY <1>2, <1>3 DEF AsksFit, AskFits
<1> QED  BY <1>4, <1>8, <1>9 DEF AsksFit, CountsFit, Awaiting

\* Threads count as under way from start to answer; the rest leaves requests alone.
LEMMA OutsideAsks ==
    ASSUME Handled, AsksFit,
           \/ Hotkey \/ Workers \/ DeadlinePasses \/ HostEndsComposition
           \/ Toggle \/ Deactivate \/ Activate \/ UNCHANGED vars
    PROVE  AsksFit'
<1>1. QueueFit /\ C!Fit /\ (Awaiting => last_candidates_request \in Pinyins)
  BY LettersHere DEF Handled, C!Fit, C!LettersFit, Awaiting
<1>2. ASSUME UNCHANGED <<machine, ui, steps, batch, pending, started, working>>,
             NEW e, chunks' = chunks \/ (chunks' = Append(chunks, e) /\ e \in Events)
      PROVE  AsksFit'
  <2>1. UNCHANGED <<state, last_candidates_request, candidates_in_flight>>
    BY <1>2 DEF machine, kept
  <2>2. Awaiting' => Awaiting
    BY <2>1 DEF Awaiting
  <2> QED  BY <1>1, <1>2, <2>1, <2>2, AsksStay
<1>3. CASE \/ Hotkey \/ CaptureEnds \/ DeadlinePasses \/ Activate \/ UNCHANGED vars
           \/ Toggle /\ state = "Idle"
  BY <1>2, <1>3
     DEF Hotkey, CaptureEnds, DeadlinePasses, Activate, vars, Others, handler, queries,
         Toggle
<1>4. ASSUME NEW s \in Slots, StreamSends(s) \/ StreamEnds(s)
      PROVE  AsksFit'
  <2>1. UNCHANGED <<machine, ui, steps, batch, pending, started, working>>
    BY <1>4 DEF StreamSends, StreamEnds, Others, handler, queries
  <2>2. \/ UNCHANGED chunks
        \/ \E k \in {"Chunk", "Final", "Error"} :
              chunks' = Append(chunks, [kind |-> k, slot |-> s])
    BY <1>4 DEF StreamSends, StreamEnds
  <2>3. UNCHANGED chunks \/ \E e \in Events : chunks' = Append(chunks, e)
    BY <2>2, EventFacts DEF EventKinds
  <2> QED  BY <1>2, <2>1, <2>3
<1>5. ASSUME NEW q \in Pinyins, QueryStarts(q) \/ QueryEnds(q)
      PROVE  AsksFit'
  BY <1>1, <1>5, QueryBegins, QueryAnswers
<1>6. CASE HostEndsComposition \/ Deactivate \/ (Toggle /\ state # "Idle")
  <2>1. /\ ui = "idle" /\ NewMachine /\ (CancelQuery \/ UNCHANGED queries)
        /\ UNCHANGED steps
    BY <1>6 DEF HostEndsComposition, Deactivate, Toggle, handler
  <2>2. state' = "Idle" /\ steps' = <<>>
    BY <1>1, <2>1, NewFits DEF Handled, UiFit
  <2>3. CountsFit'
    BY <2>1 DEF AsksFit, CountsFit, CancelQuery, queries
  <2> QED  BY <2>2, <2>3, NoAsks DEF AsksFit, CountsFit, Awaiting
<1> QED  BY <1>3, <1>4, <1>5, <1>6 DEF Workers

\* When the service is made nothing is asked.
LEMMA StartAsks == Init => AsksFit
<1> SUFFICES ASSUME Init  PROVE AsksFit
  OBVIOUS
<1>1. /\ state = "Idle" /\ pending = None /\ steps = <<>>
      /\ started = [p \in Pinyins |-> 0] /\ working = [p \in Pinyins |-> 0]
  BY DEF Init, M!Init
<1> QED  BY <1>1, NoAsks DEF AsksFit

(***************************************************************************)
(* The invariant with a host that obeys, and what it says.                 *)
(***************************************************************************)
\* Every step of the service keeps the invariant when the host obeys.
LEMMA StepCooperative ==
    ASSUME HostCooperates, Cooperative, [Next]_vars
    PROVE  Cooperative'
<1>1. Handled /\ WindowFit /\ StreamsFit /\ AsksFit /\ Handled'
  BY StepHandled DEF Cooperative
<1>2. CASE \E k \in Keys : UserKey(k)
  BY <1>1, <1>2, KeysOwed, KeysStreams, KeysAsks DEF Cooperative
<1>3. CASE KeyHandler
  BY <1>1, <1>3, HandlersOwed, HandlersStreams, HandlersAsks DEF Cooperative
<1>4. CASE Apply
  BY <1>1, <1>4, ApplyOwed, ApplyStreams, ApplyAsks DEF Cooperative
<1>5. CASE Tick \/ DrainResult
  BY <1>1, <1>5, TimerOwed, TimerStreams, TimerAsks DEF Cooperative
<1>6. CASE Collect
  <2>1. SlotsFit' /\ Shown'
    BY <1>1, <1>6, CollectOwed DEF StreamsFit, OpenFit
  <2>2. WindowFit'
    BY <2>1, NoneStarts DEF WindowFit
  <2> QED  BY <1>1, <1>6, <2>2, CollectStreams, CollectAsks DEF Cooperative
<1>7. CASE \/ Hotkey \/ Workers \/ DeadlinePasses \/ HostEndsComposition
           \/ Toggle \/ Deactivate \/ Activate \/ UNCHANGED vars
  BY <1>1, <1>7, OutsideOwed, OutsideStreams, OutsideAsks DEF Cooperative
<1> QED  BY <1>2, <1>3, <1>4, <1>5, <1>6, <1>7 DEF Next, Timer

\* With a host that performs the edits and ends no composition within one, the whole
\* invariant holds: picture, owed actions, streams and requests agree.
THEOREM ObedientHostKeepsFit ==
    ASSUME HostCooperates
    PROVE  Spec => []Cooperative
<1>1. Init => Cooperative
  BY StartHandled, StartOwed, StartStreams, StartAsks DEF Cooperative
<1>2. Cooperative /\ [Next]_vars => Cooperative'
  BY StepCooperative
<1> QED  BY <1>1, <1>2, PTL DEF Spec

\* What the candidate window shows between two handlers is what the keys act on: the
\* preview, the comparison, the result overlay and the candidates.
THEOREM WindowAlwaysMatchesKeys ==
    ASSUME HostCooperates
    PROVE  Spec => []WindowMatchesKeys
<1>1. Cooperative => WindowMatchesKeys
  <2> SUFFICES ASSUME Cooperative, ui = "idle"
               PROVE  /\ Previewing <=> panel = "preview"
                      /\ M!RewritePreviewing <=> panel = "comparison"
                      /\ ai_preview # None <=> panel = "overlay"
                      /\ panel = "candidates" => pinyin_buffer # <<>>
    BY DEF WindowMatchesKeys
  <2>1. SlotsFit /\ steps = <<>>
    BY DEF Cooperative, Handled, UiFit, WindowFit
  <2>2. Drawing \/ Overlaid \/ Comparing \/ Resting
    BY <2>1, Pictures DEF Cooperative, WindowFit
  <2> QED
    BY <2>1, <2>2
       DEF SlotsFit, C!SlotsFit, Covered, Drawing, Plain, C!Bare, Overlaid, Comparing, Resting, Previewing,
           M!RewritePreviewing
<1> QED  BY <1>1, ObedientHostKeepsFit, PTL

\* The service holds a composition exactly while the machine composes, but for a
\* lone slash after a candidate.
THEOREM CompositionAlwaysMatches ==
    ASSUME HostCooperates
    PROVE  Spec => []CompositionMatchesMachine
<1>1. Cooperative => CompositionMatchesMachine
  <2> SUFFICES ASSUME Cooperative, ui = "idle"
               PROVE  /\ composition => Composing
                      /\ Composing /\ state # "PendingSlash" => composition
    BY DEF CompositionMatchesMachine
  <2>1. SlotsFit /\ steps = <<>>
    BY DEF Cooperative, Handled, UiFit, WindowFit
  <2>2. Drawing \/ Overlaid \/ Comparing \/ Resting
    BY <2>1, Pictures DEF Cooperative, WindowFit
  <2> QED
    BY <2>1, <2>2
       DEF SlotsFit, C!SlotsFit, Covered, Drawing, Plain, C!Bare, Overlaid, Comparing, Resting, Previewing,
           Composing
<1> QED  BY <1>1, ObedientHostKeepsFit, PTL

\* A pinyin that blocks the keys has its candidates under way, and an open stream is
\* the one the machine waits for: no way through schedule_candidate_request,
\* cancel_stream, the threads or the timer loses either.
THEOREM WaitsAlwaysMatchWork ==
    ASSUME HostCooperates
    PROVE  Spec => []WaitsMatchWork
<1>1. Cooperative => WaitsMatchWork
  <2> SUFFICES ASSUME Cooperative, ui = "idle"
               PROVE  /\ state = "Pinyin" /\ candidates_in_flight =>
                            UnderWay(last_candidates_request)
                      /\ \A s \in Slots : streams[s] = "open" =>
                            s = current /\ state = "Streaming"
    BY DEF WaitsMatchWork, RequestUnderWay, OpenStreamAwaited
  <2>1. steps = <<>> /\ batch = <<>>
    BY DEF Cooperative, Handled, UiFit, QueueFit
  <2>2. ~ToAsk(last_candidates_request) /\ ~InHand(last_candidates_request)
    BY <2>1, NoAsks DEF ToAsk, InHand
  <2> QED
    BY <2>2 DEF Cooperative, AsksFit, StreamsFit, OpenFit, Awaited
<1> QED  BY <1>1, ObedientHostKeepsFit, PTL
=============================================================================
