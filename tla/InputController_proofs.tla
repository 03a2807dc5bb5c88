------------------------ MODULE InputController_proofs -------------------------
(***************************************************************************)
(* Theorems about the macOS input controller, whatever its hosts do: which *)
(* callbacks they run inside a call, in which order, and what arrives in   *)
(* the queue meanwhile.                                                    *)
(*                                                                         *)
(* Between two handlers the properties relate the machine to the host, the *)
(* panel and the timer.  Inside one they do not hold: an action is made of *)
(* what comes before its host call and what comes after it, and the nested *)
(* callbacks change the machine between the two.  The invariant says for   *)
(* each action that waits (StepFits) and for each host call that is under  *)
(* way (HostFits) which states of the machine are left, and for each       *)
(* property what the two still owe it.                                     *)
(***************************************************************************)
EXTENDS InputController, SequenceTheorems, TLAPS

(***************************************************************************)
(* The machine's calls, as CompositionMachine_proofs describes them.       *)
(***************************************************************************)
C == INSTANCE CompositionMachine_proofs

\* The assumptions it makes are this module's.
LEMMA Given == C!MachineAssumption /\ C!KeyAssumption /\ C!NoneAssumption
<1>1. M!Digits = C!Digits /\ M!Suffixes = C!Suffixes /\ M!Kinds = C!Kinds
  BY DEF M!Digits, C!Digits, M!Suffixes, C!Suffixes, M!Kinds, C!Kinds
<1>2. M!Chars = C!Chars
  BY <1>1 DEF M!Chars, C!Chars
<1>3. M!IsFiniteSet(Quotes) <=> C!IsFiniteSet(Quotes)
  BY DEF M!IsFiniteSet, C!IsFiniteSet
<1>4. M!Token = C!Token
  BY <1>1, <1>2 DEF M!Token, C!Token
<1>5. M!Text = C!Text
  BY <1>4 DEF M!Text, C!Text
<1>6. M!Requests = C!Requests /\ M!Comparisons = C!Comparisons
  BY <1>5 DEF M!Requests, C!Requests, M!Comparisons, C!Comparisons
<1> QED
  BY <1>1, <1>2, <1>3, <1>5, <1>6, InputControllerAssumption
     DEF M!MachineAssumption, C!MachineAssumption, M!KeyAssumption, C!KeyAssumption,
         M!NoneAssumption, C!NoneAssumption

\* The calls that CompositionMachine_proofs speaks of are the ones made here.
LEMMA SameCalls ==
    /\ M!Chars = C!Chars /\ M!States = C!States /\ M!OcrText = C!OcrText
    /\ M!Pinyins = C!Pinyins
    /\ \A c : M!FeedChar(c) <=> C!FeedChar(c)
    /\ \A step : M!Paginate(step) <=> C!Paginate(step)
    /\ \A up : M!FeedArrow(up) <=> C!FeedArrow(up)
    /\ M!FeedBackspace <=> C!FeedBackspace
    /\ M!FeedEnter <=> C!FeedEnter
    /\ M!FeedEscape <=> C!FeedEscape
    /\ M!EndOcrPreview <=> C!EndOcrPreview
    /\ \A k : M!FeedOcrPreview(k) <=> C!FeedOcrPreview(k)
    /\ \A txt : M!BeginOcrPreview(txt) <=> C!BeginOcrPreview(txt)
    /\ \A rewritten, source :
            M!BeginRewritePreview(rewritten, source)
                <=> C!BeginRewritePreview(rewritten, source)
    /\ \A k : M!FeedRewritePreview(k) <=> C!FeedRewritePreview(k)
    /\ (M!OnLlmChunk <=> C!OnLlmChunk) /\ (M!OnLlmDone <=> C!OnLlmDone)
    /\ (M!OnLlmError <=> C!OnLlmError)
    /\ \A pinyin, n, done :
            M!OnLlmCandidates(pinyin, n, done) <=> C!OnLlmCandidates(pinyin, n, done)
<1>1. M!Digits = C!Digits
  BY DEF M!Digits, C!Digits
<1>2. M!Suffixes = C!Suffixes
  BY DEF M!Suffixes, C!Suffixes
<1>6. \A c : M!Key(c) = C!Key(c)
  BY DEF M!Key, C!Key
<1>7. M!Raw = C!Raw
  BY DEF M!Raw, C!Raw
<1>8. \A i : M!Cand(i) = C!Cand(i)
  BY DEF M!Cand, C!Cand
<1>9. \A n : M!ResultText(n) = C!ResultText(n)
  BY DEF M!ResultText, C!ResultText
<1>10. \A n : M!FirstOrRaw(n) = C!FirstOrRaw(n)
  BY <1>7, <1>8 DEF M!FirstOrRaw, C!FirstOrRaw
<1>11. \A keys, i, c : M!QuotesBefore(keys, i, c) = C!QuotesBefore(keys, i, c)
  <2>1. \A S : M!Cardinality(S) = C!Cardinality(S)
    BY DEF M!Cardinality, C!Cardinality
  <2> QED  BY <2>1 DEF M!QuotesBefore, C!QuotesBefore
<1>12. \A n : M!Odd(n) <=> C!Odd(n)
  BY DEF M!Odd, C!Odd
<1>13. \A keys, i : M!Opens(keys, i) <=> C!Opens(keys, i)
  BY <1>11, <1>12 DEF M!Opens, C!Opens
<1>14. \A keys : M!FoldKeys(keys) = C!FoldKeys(keys)
  BY <1>13 DEF M!FoldKeys, C!FoldKeys
<1>15. \A keys : M!QuotesAfter(keys) = C!QuotesAfter(keys)
  BY <1>11, <1>12 DEF M!QuotesAfter, C!QuotesAfter
<1>16. \A n, page, sel, raw :
        M!UpdatePinyin(n, page, sel, raw) = C!UpdatePinyin(n, page, sel, raw)
  BY DEF M!UpdatePinyin, C!UpdatePinyin
<1>17. M!Quiet <=> C!Quiet
  BY DEF M!Quiet, C!Quiet
<1>18. \A action : M!Emit(action) <=> C!Emit(action)
  BY <1>16 DEF M!Emit, C!Emit
<1>19. \A name : M!Tell(name) <=> C!Tell(name)
  BY <1>18 DEF M!Tell, C!Tell
<1>20. \A txt : M!Commit(txt) <=> C!Commit(txt)
  BY <1>18 DEF M!Commit, C!Commit
<1>21. M!ClearCompositionState <=> C!ClearCompositionState
  BY DEF M!ClearCompositionState, C!ClearCompositionState
<1>22. M!Composing <=> C!Composing
  BY DEF M!Composing, C!Composing
<1>23. M!BlindWindow <=> C!BlindWindow
  BY DEF M!BlindWindow, C!BlindWindow
<1>24. \A buffer, n, inFlight :
        M!ShowsRaw(buffer, n, inFlight) <=> C!ShowsRaw(buffer, n, inFlight)
  BY DEF M!ShowsRaw, C!ShowsRaw
<1>25. \A buffer, n, page, sel :
        M!PinyinAction(buffer, n, page, sel) <=> C!PinyinAction(buffer, n, page, sel)
  BY <1>16, <1>18, <1>24 DEF M!PinyinAction, C!PinyinAction
<1>26. \A buffer : M!BufferTo(buffer) <=> C!BufferTo(buffer)
  BY <1>25 DEF M!BufferTo, C!BufferTo
<1>27. \A next, head, keys :
        M!CommitPinyin(next, head, keys) <=> C!CommitPinyin(next, head, keys)
  BY <1>14, <1>15, <1>20, <1>21 DEF M!CommitPinyin, C!CommitPinyin, M!llmVars, C!llmVars
<1>28. \A c : M!Defer(c) <=> C!Defer(c)
  BY <1>7, <1>17, <1>25, <1>27 DEF M!Defer, C!Defer, M!previewVars, C!previewVars,
     M!llmVars, C!llmVars
<1>29. \A c : M!FeedIdle(c) <=> C!FeedIdle(c)
  BY <1>14, <1>15, <1>19, <1>20, <1>26 DEF M!FeedIdle, C!FeedIdle, M!pinyinVars,
     C!pinyinVars, M!llmVars, C!llmVars
<1>30. \A c : M!FeedPendingSlash(c) <=> C!FeedPendingSlash(c)
  BY <1>6, <1>19, <1>20 DEF M!FeedPendingSlash, C!FeedPendingSlash, M!pinyinVars,
     C!pinyinVars, M!previewVars, C!previewVars
<1>31. M!FeedPinyinSlash <=> C!FeedPinyinSlash
  BY <1>10, <1>27 DEF M!FeedPinyinSlash, C!FeedPinyinSlash
<1>32. \A c : M!FeedPinyinLetter(c) <=> C!FeedPinyinLetter(c)
  BY <1>17, <1>26 DEF M!FeedPinyinLetter, C!FeedPinyinLetter, M!pinyinVars,
     C!pinyinVars, M!previewVars, C!previewVars, M!llmVars, C!llmVars
<1>33. \A c : M!FeedPinyinSuffix(c) <=> C!FeedPinyinSuffix(c)
  BY <1>2, <1>10, <1>23, <1>27, <1>28 DEF M!FeedPinyinSuffix, C!FeedPinyinSuffix
<1>34. \A c : M!DigitValue(c) = C!DigitValue(c)
  BY DEF M!DigitValue, C!DigitValue
<1>35. \A c : M!FeedPinyinDigit(c) <=> C!FeedPinyinDigit(c)
  BY <1>1, <1>8, <1>17, <1>27, <1>34 DEF M!FeedPinyinDigit, C!FeedPinyinDigit,
     M!pinyinVars, C!pinyinVars, M!previewVars, C!previewVars, M!llmVars, C!llmVars
<1>36. \A rank, repeated : M!SpaceAt(rank, repeated) <=> C!SpaceAt(rank, repeated)
  BY <1>7, <1>8, <1>27, <1>28 DEF M!SpaceAt, C!SpaceAt
<1>37. M!HighlightedRank = C!HighlightedRank
  BY DEF M!HighlightedRank, C!HighlightedRank
<1>38. M!SpaceWaits <=> C!SpaceWaits
  BY DEF M!SpaceWaits, C!SpaceWaits
<1>39. M!FeedPinyinSpace <=> C!FeedPinyinSpace
  BY <1>36, <1>37, <1>38 DEF M!FeedPinyinSpace, C!FeedPinyinSpace
<1>40. M!TotalPages = C!TotalPages
  BY DEF M!TotalPages, C!TotalPages
<1>41. \A step : M!Paginate(step) <=> C!Paginate(step)
  BY <1>16, <1>17, <1>18, <1>40 DEF M!Paginate, C!Paginate, M!previewVars,
     C!previewVars, M!llmVars, C!llmVars
<1>42. \A page : M!PageItems(page) = C!PageItems(page)
  BY DEF M!PageItems, C!PageItems
<1>43. \A page, sel : M!MoveSelection(page, sel) <=> C!MoveSelection(page, sel)
  BY <1>25 DEF M!MoveSelection, C!MoveSelection
<1>44. \A up : M!FeedArrow(up) <=> C!FeedArrow(up)
  BY <1>17, <1>40, <1>42, <1>43 DEF M!FeedArrow, C!FeedArrow, M!previewVars,
     C!previewVars, M!llmVars, C!llmVars
<1>45. \A txt : M!PromptGrows(txt) <=> C!PromptGrows(txt)
  BY <1>19 DEF M!PromptGrows, C!PromptGrows
<1>46. \A c : M!FeedPromptComposing(c) <=> C!FeedPromptComposing(c)
  BY <1>1, <1>6, <1>8, <1>10, <1>17, <1>21, <1>22, <1>26, <1>34, <1>45 DEF
     M!FeedPromptComposing, C!FeedPromptComposing, M!pinyinVars, C!pinyinVars,
     M!previewVars, C!previewVars, M!llmVars, C!llmVars
<1>47. \A action : M!StartPhase(action) <=> C!StartPhase(action)
  BY <1>18 DEF M!StartPhase, C!StartPhase
<1>48. \A c : M!FeedPromptPlain(c) <=> C!FeedPromptPlain(c)
  BY <1>6, <1>19, <1>22, <1>26, <1>45, <1>47 DEF M!FeedPromptPlain, C!FeedPromptPlain,
     M!pinyinVars, C!pinyinVars, M!previewVars, C!previewVars, M!llmVars, C!llmVars
<1>49. M!ConfirmResult <=> C!ConfirmResult
  BY <1>9, <1>17, <1>18 DEF M!ConfirmResult, C!ConfirmResult, M!pinyinVars, C!pinyinVars
<1>50. M!RetryLastLlm <=> C!RetryLastLlm
  BY <1>17, <1>47 DEF M!RetryLastLlm, C!RetryLastLlm, M!pinyinVars, C!pinyinVars
<1>51. M!EditLastPrompt <=> C!EditLastPrompt
  BY <1>19 DEF M!EditLastPrompt, C!EditLastPrompt, M!pinyinVars, C!pinyinVars
<1>52. \A c : M!AiKey(c) = C!AiKey(c)
  BY DEF M!AiKey, C!AiKey
<1>53. M!AiPreviewing <=> C!AiPreviewing
  BY DEF M!AiPreviewing, C!AiPreviewing
<1>54. \A k : M!FeedAiPreview(k) <=> C!FeedAiPreview(k)
  BY <1>17, <1>49, <1>50, <1>51, <1>53 DEF M!FeedAiPreview, C!FeedAiPreview,
     M!pinyinVars, C!pinyinVars, M!previewVars, C!previewVars, M!llmVars, C!llmVars
<1>55. \A c : M!FeedStreaming(c) <=> C!FeedStreaming(c)
  BY <1>17, <1>49 DEF M!FeedStreaming, C!FeedStreaming, M!pinyinVars, C!pinyinVars,
     M!previewVars, C!previewVars, M!llmVars, C!llmVars
<1>56. \A c : M!FeedChar(c) <=> C!FeedChar(c)
  BY <1>29, <1>30, <1>31, <1>32, <1>33, <1>35, <1>39, <1>41, <1>46, <1>48, <1>52, <1>54,
     <1>55 DEF M!FeedChar, C!FeedChar
<1>57. \A buffer : M!Front(buffer) = C!Front(buffer)
  BY DEF M!Front, C!Front
<1>58. \A next, name : M!LeaveTo(next, name) <=> C!LeaveTo(next, name)
  BY <1>19 DEF M!LeaveTo, C!LeaveTo
<1>59. M!EndOcrPreview <=> C!EndOcrPreview
  BY <1>17 DEF M!EndOcrPreview, C!EndOcrPreview, M!pinyinVars, C!pinyinVars, M!llmVars,
     C!llmVars
<1>60. M!NoAction <=> C!NoAction
  BY <1>17 DEF M!NoAction, C!NoAction, M!pinyinVars, C!pinyinVars, M!previewVars,
     C!previewVars, M!llmVars, C!llmVars
<1>61. M!FeedBackspace <=> C!FeedBackspace
  BY <1>21, <1>22, <1>26, <1>54, <1>57, <1>58, <1>59, <1>60 DEF M!FeedBackspace,
     C!FeedBackspace, M!pinyinVars, C!pinyinVars, M!previewVars, C!previewVars,
     M!llmVars, C!llmVars
<1>62. M!FeedEnter <=> C!FeedEnter
  BY <1>7, <1>21, <1>22, <1>27, <1>45, <1>47, <1>49, <1>50, <1>59, <1>60 DEF
     M!FeedEnter, C!FeedEnter, M!pinyinVars, C!pinyinVars
<1>63. M!FeedEscape <=> C!FeedEscape
  BY <1>17, <1>19, <1>21 DEF M!FeedEscape, C!FeedEscape
<1>64. M!OcrText = C!OcrText
  BY DEF M!OcrText, C!OcrText
<1>65. \A txt : M!BeginOcrPreview(txt) <=> C!BeginOcrPreview(txt)
  BY <1>17, <1>18 DEF M!BeginOcrPreview, C!BeginOcrPreview, M!pinyinVars, C!pinyinVars,
     M!llmVars, C!llmVars
<1>66. \A k : M!FeedOcrPreview(k) <=> C!FeedOcrPreview(k)
  BY <1>17, <1>19, <1>20 DEF M!FeedOcrPreview, C!FeedOcrPreview, M!pinyinVars,
     C!pinyinVars, M!llmVars, C!llmVars
<1>67. \A rewritten, source :
        M!BeginRewritePreview(rewritten, source) <=> C!BeginRewritePreview(rewritten, source)
  BY <1>17 DEF M!BeginRewritePreview, C!BeginRewritePreview, M!pinyinVars, C!pinyinVars,
     M!llmVars, C!llmVars
<1>68. M!RewritePreviewing <=> C!RewritePreviewing
  BY DEF M!RewritePreviewing, C!RewritePreviewing
<1>69. \A k : M!FeedRewritePreview(k) <=> C!FeedRewritePreview(k)
  BY <1>9, <1>19, <1>20, <1>68 DEF M!FeedRewritePreview, C!FeedRewritePreview,
     M!pinyinVars, C!pinyinVars
<1>70. M!StreamEvent <=> C!StreamEvent
  BY DEF M!StreamEvent, C!StreamEvent
<1>71. M!Ignored <=> C!Ignored
  BY <1>17 DEF M!Ignored, C!Ignored, M!previewVars, C!previewVars
<1>72. M!OnLlmChunk <=> C!OnLlmChunk
  BY <1>19, <1>70, <1>71 DEF M!OnLlmChunk, C!OnLlmChunk, M!pinyinVars, C!pinyinVars,
     M!previewVars, C!previewVars
<1>73. M!OnLlmDone <=> C!OnLlmDone
  BY <1>18, <1>70, <1>71 DEF M!OnLlmDone, C!OnLlmDone, M!pinyinVars, C!pinyinVars
<1>74. M!OnLlmError <=> C!OnLlmError
  BY <1>17, <1>19, <1>70 DEF M!OnLlmError, C!OnLlmError, M!pinyinVars, C!pinyinVars,
     M!llmVars, C!llmVars
<1>75. \A keys : M!DropSpace(keys) = C!DropSpace(keys)
  BY DEF M!DropSpace, C!DropSpace
<1>76. \A n : M!ReplayDeferredIntents(n) <=> C!ReplayDeferredIntents(n)
  BY <1>10, <1>16, <1>18, <1>24, <1>27, <1>75 DEF M!ReplayDeferredIntents,
     C!ReplayDeferredIntents, M!previewVars, C!previewVars, M!llmVars, C!llmVars
<1>77. \A pinyin, n, done :
        M!OnLlmCandidates(pinyin, n, done) <=> C!OnLlmCandidates(pinyin, n, done)
  BY <1>17, <1>18, <1>76 DEF M!OnLlmCandidates, C!OnLlmCandidates, M!UpdatePinyin,
     C!UpdatePinyin, M!pinyinVars, C!pinyinVars, M!previewVars, C!previewVars,
     M!llmVars, C!llmVars
<1>78. M!States = C!States /\ M!Pinyins = C!Pinyins
  BY DEF M!States, C!States, M!Pinyins, C!Pinyins
<1>79. M!Chars = C!Chars
  BY <1>1, <1>2 DEF M!Chars, C!Chars
<1> QED
  BY <1>56, <1>41, <1>44, <1>61, <1>62, <1>63, <1>59, <1>66, <1>65, <1>67, <1>69, <1>72,
     <1>73, <1>74, <1>77, <1>64, <1>78, <1>79
\* its pinyins too
LEMMA LettersHere == C!Pinyins = Pinyins
BY SameCalls DEF Pinyins

\* None is confused with no value that stands beside it.
LEMMA NoneApart ==
    /\ None \notin Pinyins /\ <<>> \notin Pinyins /\ None # <<>>
    /\ None \notin {"Streaming", "Ready", "Failed"}
BY Given, SameCalls, C!NoneApart DEF Pinyins

\* every key that is typed as a character is one of the machine's
LEMMA PrintableChars == Printable \subseteq M!Chars
BY InputControllerAssumption DEF Printable, M!Chars, M!Suffixes

(***************************************************************************)
(* The invariant.                                                          *)
(***************************************************************************)
MachineFits == C!Fit /\ C!SlotsFit
Overlay == {"Streaming", "ResultReady", "Failed"}
Ends == {"CommitImmediate", "CommitText", "CommitResult", "Cancel"}
Starts == {"StartLlm", "StartRewrite"}
Pending(acts) == steps # <<>> /\ Head(steps).do.act \in acts

\* Where the thread is: an action is applied before the next key is routed, and
\* the queue is taken as a whole.
Turn ==
    /\ ui \in {"idle", "input", "replay", "slots", "batch"}
    /\ key # None => ui \in {"replay", "input"}
    /\ outer => ui \in {"replay", "slots", "batch"}
    /\ IF ui = "batch" THEN events = <<>> ELSE batch = <<>>
    /\ Waiting => steps = <<>>
    /\ Previewing => "ocr" \in slots \/ hosted = "leaving"

\* The one action that waits fits the state its handler left the machine in; only
\* the drawing of new letters asks for candidates.
StepFits(s) ==
    /\ s.ask # None => /\ s.do.act = "UpdatePinyin" /\ ui # "batch"
                       /\ s.ask \in Pinyins /\ s.ask = last_candidates_request
    /\ \/ s.do.act = "UpdatePinyin" /\ state \in {"Pinyin", "Prompt"}
       \/ /\ s.do.act \in {"UpdatePrompt", "EnterPrompt"}
          /\ C!Bare /\ state \in {"PendingSlash", "Prompt"}
       \/ /\ s.do.act \in Ends
          /\ state \in {"Idle", "PendingSlash"} \/ (s.do.act = "CommitText" /\ disturbed)
       \/ s.do.act \in Starts \cup {"UpdateResult"} /\ state = "Streaming"
       \/ /\ s.do.act \in {"ResultReady", "RewriteReady", "LlmFailed"}
          /\ state = IF s.do.act = "LlmFailed" THEN "Failed" ELSE "ResultReady"
          /\ s.do.act = "ResultReady" => ai_preview = "Ready"
          /\ s.do.act = "RewriteReady" =>
                s.do.rewritten \in Nat /\ s.do.source \in C!Texts
          /\ stream = None /\ asked = None
       \/ s.do.act \in {"StartCapture", "StartBubble"}
StepsFit == steps # <<>> => steps = <<Head(steps)>> /\ StepFits(Head(steps))

\* What the callbacks nested in a host call leave of the machine.
HostFits ==
    /\ hosted \in {"refresh", "answer"} => C!Bare /\ state \in {"Pinyin", "Prompt", "Idle"}
    /\ hosted = "nothing" => C!Bare /\ state \in {"PendingSlash", "Prompt", "Idle"}
    /\ hosted = "overlay" => state \in {"Streaming", "Idle"}
    /\ hosted \in {"own stream", "speech", "phrase", "capture"} =>
            state \in {"Streaming", "Idle"}
    /\ hosted = "ready" => rewrite_preview = None /\ state \in Overlay \cup {"Idle"}
    /\ hosted = "comparison" => ai_preview = None /\ state \in {"ResultReady", "Idle"}
    /\ hosted \in {"ready", "comparison"} => asked = None /\ stream = None
    /\ hosted = "commit" => \/ disturbed \/ state \in {"Idle", "PendingSlash"}
                            \/ Previewing /\ ui = "input"
    /\ hosted \in {"held commit", "lost commit"} => disturbed
    /\ hosted \in {"preview", "lost preview"} => Previewing /\ data = "preview"
    /\ hosted = "end" => state = "Idle"

\* Marked text, and who will remove it.
Unmarked == {"speech", "phrase", "capture", "bubble", "commit", "held commit",
             "lost commit", "preview", "lost preview", "end", "leaving"}
MarkedFits ==
    /\ marked => composed \/ "clear" \in owed
    /\ marked => Composing \/ left \/ "clear" \in owed \/ Pending(Ends)
    /\ hosted \in Unmarked => ~marked

\* A stream that was asked for is about to be opened, or given up.
Starting == \/ Pending(Starts)
            \/ hosted \in {"own stream", "speech", "phrase", "capture"}
PolledFits ==
    /\ asked # None \/ stream # None => timer
    /\ state \in Overlay => asked = None \/ Starting

Event == [kind : {"Candidates"}, pinyin : Pinyins, count : Nat]
         \cup [kind : {"Failure", "Chunk", "Final", "Error"}]
HasAnswer(s) == \E i \in 1..Len(s) : OfQuery(s[i])
OneAnswer(s) == \A i, j \in 1..Len(s) : OfQuery(s[i]) /\ OfQuery(s[j]) => i = j
AnswersTo(s, p) == \A i \in 1..Len(s) : s[i].kind = "Candidates" => p \in {None, s[i].pinyin}

\* Of a query that is not given up there is one answer at most, and it is its own.
AnswersFit ==
    /\ asked \in Pinyins \cup {None}
    /\ events \in Seq(Event) /\ batch \in Seq(Event)
    /\ named \/ query => asked # None
    /\ query => ~HasAnswer(events) /\ ~HasAnswer(batch)
    /\ OneAnswer(events) /\ OneAnswer(batch)
    /\ AnswersTo(events, asked) /\ AnswersTo(batch, asked)

\* What blocks the keys is asked for, is at work, or has its answer in the queue.
AwaitedFits ==
    state = "Pinyin" /\ candidates_in_flight /\ ~disturbed =>
        \/ steps # <<>> /\ Head(steps).ask = last_candidates_request
        \/ /\ asked = last_candidates_request /\ named
           /\ query \/ HasAnswer(events) \/ HasAnswer(batch)

\* What takes keys is on the screen, or is being drawn, or the next key takes it away.
VisibleFits ==
    ~disturbed =>
        /\ Previewing => \/ /\ data = "preview"
                            /\ panel = "preview" \/ hosted \in {"preview", "lost preview"}
                         \/ outer \/ ui = "input"
        /\ M!RewritePreviewing => IF hosted = "comparison" THEN data = "comparison"
                                  ELSE panel = "comparison"
        /\ ai_preview # None => panel = "overlay" \/ Starting

IInv == /\ MachineFits /\ Turn /\ StepsFit /\ HostFits
        /\ MarkedFits /\ PolledFits /\ AnswersFit /\ AwaitedFits /\ VisibleFits

(***************************************************************************)
(* The calls, one by one.                                                  *)
(***************************************************************************)
\* A machine left alone still fits.
LEMMA KeptMachine ==
    ASSUME UNCHANGED kept
    PROVE  /\ MachineFits => MachineFits'
           /\ UNCHANGED <<state, pinyin_buffer, last_candidates_request,
                          candidates_in_flight, ai_preview, rewrite_preview>>
BY DEF kept, MachineFits, C!Fit, C!TextsFit, C!LettersFit, C!SlotsFit

\* A key that goes to the machine.
LEMMA KeyFits ==
    ASSUME MachineFits, state # "OcrPreviewing", NEW k, RouteKey(k)
    PROVE  MachineFits' /\ C!Reply /\ C!Asking
<1>1. CASE M!FeedEnter
  BY <1>1, Given, SameCalls, C!EnterFits DEF C!Fits, MachineFits
<1>2. CASE M!FeedBackspace
  BY <1>2, Given, SameCalls, C!BackspaceFits DEF C!Fits, MachineFits
<1>3. CASE M!FeedEscape
  BY <1>3, Given, SameCalls, C!EscapeFits DEF C!Fits, MachineFits
<1>4. CASE M!FeedArrow(FALSE)
  BY <1>4, Given, SameCalls, C!ArrowFits DEF C!Fits, MachineFits
<1>5. CASE M!Paginate(1)
  BY <1>5, Given, SameCalls, C!PageFits DEF C!Fits, MachineFits
<1>6. CASE k \in Printable /\ M!FeedChar(k)
  <2>1. k \in C!Chars
    BY <1>6, PrintableChars, SameCalls
  <2> QED
    BY <1>6, <2>1, Given, SameCalls, C!CharFits DEF C!Fits, MachineFits
<1>7. CASE Kept
  BY <1>7, KeptMachine DEF Kept, C!Reply, C!Silent, C!Asking
<1> QED
  BY <1>1, <1>2, <1>3, <1>4, <1>5, <1>6, <1>7 DEF RouteKey

\* reset and everything that starts with feed_escape
LEMMA EscapeFits ==
    ASSUME MachineFits, M!FeedEscape
    PROVE  MachineFits' /\ C!Bare' /\ state' = "Idle"
BY Given, SameCalls, C!EscapeFits DEF C!Fits, MachineFits

\* The end of a preview.
LEMMA PreviewEnds ==
    ASSUME MachineFits, M!EndOcrPreview
    PROVE  /\ MachineFits' /\ C!Bare'
           /\ state = "OcrPreviewing" /\ state' = "Idle" /\ out' = <<>>
BY Given, SameCalls, C!OcrFits DEF MachineFits

\* begin_ocr_preview: a preview where the machine takes one, else nothing.
LEMMA PreviewBegins ==
    ASSUME MachineFits, M!BeginOcrPreview(<<M!OcrText>>)
    PROVE  /\ MachineFits'
           /\ state' = IF Composing THEN state ELSE "OcrPreviewing"
           /\ UNCHANGED <<last_candidates_request, candidates_in_flight, ai_preview,
                          rewrite_preview>>
BY Given, SameCalls, C!BeginOcrFits DEF MachineFits, C!pinyinVars, Composing

\* begin_rewrite_preview: the comparison takes the place of the result.
LEMMA ComparisonBegins ==
    ASSUME MachineFits, NEW rewritten \in Nat, NEW source \in C!Texts,
           M!BeginRewritePreview(rewritten, source)
    PROVE  /\ MachineFits'
           /\ UNCHANGED <<state, last_candidates_request, candidates_in_flight>>
           /\ state = "ResultReady" => rewrite_preview' # None /\ ai_preview' = None
           /\ state # "ResultReady" => UNCHANGED <<rewrite_preview, ai_preview>>
BY Given, SameCalls, C!BeginRewriteFits DEF MachineFits, C!SlotsFit, C!pinyinVars

\* feed_rewrite_preview: one of the two texts is committed, or none.
LEMMA ComparisonEnds ==
    ASSUME MachineFits, NEW k, M!FeedRewritePreview(k)
    PROVE  /\ MachineFits' /\ C!Bare' /\ state' = "Idle"
           /\ C!Says("CommitImmediate") \/ C!Says("Cancel")
           /\ UNCHANGED last_candidates_request
BY Given, SameCalls, C!RewriteKeyFits DEF MachineFits, C!pinyinVars

\* A piece of a stream is drawn if it is waited for.
LEMMA ChunkFits ==
    ASSUME MachineFits, M!OnLlmChunk
    PROVE  /\ MachineFits'
           /\ UNCHANGED <<state, last_candidates_request, candidates_in_flight,
                          ai_preview, rewrite_preview>>
           /\ \/ state = "Streaming" /\ C!Says("UpdateResult")
              \/ out' = <<>>
BY Given, SameCalls, C!ChunkFits DEF MachineFits, C!pinyinVars

\* A stream ends: the result is ready, or is to be compared.
LEMMA DoneFits ==
    ASSUME MachineFits, M!OnLlmDone
    PROVE  /\ MachineFits'
           /\ UNCHANGED <<last_candidates_request, candidates_in_flight>>
           /\ \/ /\ state = "Streaming" /\ state' = "ResultReady" /\ ai_preview' = "Ready"
                 /\ \/ C!Says("ResultReady")
                    \/ /\ C!Says("RewriteReady")
                       /\ out'[1].rewritten \in Nat /\ out'[1].source \in C!Texts
              \/ out' = <<>> /\ UNCHANGED <<state, ai_preview, rewrite_preview>>
BY Given, SameCalls, C!DoneFits DEF MachineFits, C!pinyinVars

\* A stream fails, or an error comes late.
LEMMA ErrorFits ==
    ASSUME MachineFits, M!OnLlmError
    PROVE  /\ MachineFits' /\ rewrite_preview' = None
           /\ UNCHANGED <<last_candidates_request, candidates_in_flight>>
           /\ ai_preview = None => ai_preview' = None
           /\ \/ state \in Overlay /\ state' = "Failed" /\ C!Says("LlmFailed")
              \/ state \in Overlay /\ state' = "Failed" /\ out' = <<>>
              \/ out' = <<>> /\ state \notin Overlay /\ UNCHANGED state
<1>1. MachineFits' /\ UNCHANGED <<last_candidates_request, candidates_in_flight>>
  BY Given, SameCalls, C!ErrorFits DEF MachineFits, C!pinyinVars
<1>2. /\ rewrite_preview' = None /\ (ai_preview = None => ai_preview' = None)
      /\ IF state \in Overlay THEN state' = "Failed" ELSE UNCHANGED state
  BY DEF M!OnLlmError, Overlay
<1>3. out' = <<>> \/ (state \in Overlay /\ C!Says("LlmFailed"))
  BY Given, SameCalls, C!ErrorFits DEF MachineFits, Overlay
<1> QED  BY <1>1, <1>2, <1>3

\* An answer draws the list, or runs the waiting keys and commits.  What it leaves
\* waiting is another pinyin's.
LEMMA AnswerFits ==
    ASSUME MachineFits, NEW p \in Pinyins, NEW n \in Nat, M!OnLlmCandidates(p, n, TRUE)
    PROVE  /\ MachineFits'
           /\ \/ /\ out' = <<>> \/ (C!Says("UpdatePinyin") /\ state \in {"Pinyin", "Prompt"})
                 /\ UNCHANGED <<state, ai_preview, rewrite_preview>>
              \/ C!Says("CommitImmediate") /\ state' = "Idle" /\ C!Bare'
           /\ state' = "Pinyin" /\ candidates_in_flight' =>
                /\ state = "Pinyin" /\ candidates_in_flight
                /\ p # last_candidates_request
                /\ UNCHANGED last_candidates_request
<1>1. C!Fit /\ C!SlotsFit /\ p \in C!Pinyins /\ C!OnLlmCandidates(p, n, TRUE)
  BY SameCalls, LettersHere DEF MachineFits
<1> QED
  BY <1>1, Given, C!AnswerFits DEF MachineFits, C!Fit, C!LettersFit

(***************************************************************************)
(* The list of actions and the queue of events.                            *)
(***************************************************************************)
LEMMA Tagging ==
    ASSUME NEW ask, NEW event
    PROVE  /\ out' = <<>> => Tagged(out', ask, event) = <<>>
           /\ \A name : C!Says(name) =>
                /\ Tagged(out', ask, event)
                        = <<[do |-> out'[1], ask |-> ask, event |-> event]>>
                /\ out'[1].act = name
<1>1. ASSUME out' = <<>> PROVE Tagged(out', ask, event) = <<>>
  <2>1. Len(<<>>) = 0
    OBVIOUS
  <2> QED BY <1>1, <2>1 DEF Tagged
<1>2. ASSUME NEW name, C!Says(name)
      PROVE  /\ Tagged(out', ask, event)
                    = <<[do |-> out'[1], ask |-> ask, event |-> event]>>
             /\ out'[1].act = name
  <2>1. Len(out') = 1 /\ out'[1].act = name
    BY <1>2 DEF C!Says
  <2> QED BY <2>1 DEF Tagged
<1> QED BY <1>1, <1>2

\* One action waits: what is said of it is said of the list.
LEMMA OneStep ==
    ASSUME NEW s, steps' = <<s>>
    PROVE  /\ steps' # <<>> /\ Head(steps') = s /\ steps' = <<Head(steps')>>
           /\ \A acts : (steps' # <<>> /\ Head(steps').do.act \in acts) <=> s.do.act \in acts
BY DEF Pending

\* The queue: what is appended, taken, dropped.
LEMMA EmptyQueue ==
    /\ <<>> \in Seq(Event) /\ ~HasAnswer(<<>>) /\ OneAnswer(<<>>)
    /\ \A p : AnswersTo(<<>>, p)
<1>1. Len(<<>>) = 0 /\ 1..0 = {}
  OBVIOUS
<1> QED BY <1>1, EmptySeq DEF HasAnswer, OneAnswer, AnswersTo

LEMMA AppendedEvent ==
    ASSUME NEW s \in Seq(Event), NEW e \in Event, NEW p
    PROVE  /\ Append(s, e) \in Seq(Event)
           /\ HasAnswer(Append(s, e)) <=> HasAnswer(s) \/ OfQuery(e)
           /\ OneAnswer(s) /\ ~(OfQuery(e) /\ HasAnswer(s)) => OneAnswer(Append(s, e))
           /\ AnswersTo(s, p) /\ (e.kind = "Candidates" => p \in {None, e.pinyin}) =>
                AnswersTo(Append(s, e), p)
<1> DEFINE t == Append(s, e)
<1>1. /\ t \in Seq(Event) /\ Len(t) = Len(s) + 1 /\ Len(s) \in Nat
      /\ \A i \in 1..Len(s) : t[i] = s[i]
      /\ t[Len(s) + 1] = e
  BY AppendProperties, LenProperties
<1> HIDE DEF t
<1>2. \A i \in 1..Len(t) : i \in 1..Len(s) \/ i = Len(s) + 1
  BY <1>1
<1>3. \A i \in 1..Len(s) : i \in 1..Len(t)
  BY <1>1
<1>4. Len(s) + 1 \in 1..Len(t)
  BY <1>1
<1>5. HasAnswer(t) <=> HasAnswer(s) \/ OfQuery(e)
  BY <1>1, <1>2, <1>3, <1>4 DEF HasAnswer
<1>6. OneAnswer(s) /\ ~(OfQuery(e) /\ HasAnswer(s)) => OneAnswer(t)
  BY <1>1, <1>2 DEF HasAnswer, OneAnswer
<1>7. AnswersTo(s, p) /\ (e.kind = "Candidates" => p \in {None, e.pinyin}) => AnswersTo(t, p)
  BY <1>1, <1>2 DEF AnswersTo
<1> QED BY <1>1, <1>5, <1>6, <1>7 DEF t

LEMMA RestOfBatch ==
    ASSUME NEW s \in Seq(Event), s # <<>>, NEW p
    PROVE  /\ Head(s) \in Event /\ Tail(s) \in Seq(Event)
           /\ OneAnswer(s) => OneAnswer(Tail(s))
           /\ AnswersTo(s, p) => AnswersTo(Tail(s), p)
           /\ AnswersTo(s, p) /\ Head(s).kind = "Candidates" => p \in {None, Head(s).pinyin}
           /\ HasAnswer(Tail(s)) => HasAnswer(s)
           /\ OfQuery(Head(s)) => HasAnswer(s)
           /\ OfQuery(Head(s)) /\ OneAnswer(s) => ~HasAnswer(Tail(s))
           /\ ~OfQuery(Head(s)) /\ HasAnswer(s) => HasAnswer(Tail(s))
<1> DEFINE t == Tail(s)
<1>1. /\ t \in Seq(Event) /\ Len(t) = Len(s) - 1 /\ Len(s) \in Nat /\ Len(s) # 0
      /\ \A i \in 1..Len(t) : t[i] = s[i + 1]
      /\ Head(s) = s[1] /\ Head(s) \in Event
  BY HeadTailProperties, LenProperties, EmptySeq
<1> HIDE DEF t
<1>2. 1 \in 1..Len(s) /\ \A i \in 1..Len(t) : i + 1 \in 1..Len(s) /\ i + 1 # 1 /\ i \in Int
  BY <1>1
<1>3. \A i \in 1..Len(s) : i = 1 \/ (i - 1 \in 1..Len(t) /\ s[i] = t[i - 1])
  BY <1>1
<1>4. OneAnswer(s) => OneAnswer(t)
  BY <1>1, <1>2 DEF OneAnswer
<1>5. AnswersTo(s, p) => AnswersTo(t, p) /\ (s[1].kind = "Candidates" => p \in {None, s[1].pinyin})
  BY <1>1, <1>2 DEF AnswersTo
<1>6. HasAnswer(t) => HasAnswer(s)
  BY <1>1, <1>2 DEF HasAnswer
<1>7. OfQuery(s[1]) => HasAnswer(s)
  BY <1>2 DEF HasAnswer
<1>8. OfQuery(s[1]) /\ OneAnswer(s) => ~HasAnswer(t)
  BY <1>1, <1>2 DEF HasAnswer, OneAnswer
<1>9. ~OfQuery(s[1]) /\ HasAnswer(s) => HasAnswer(t)
  BY <1>3 DEF HasAnswer
<1> QED BY <1>1, <1>4, <1>5, <1>6, <1>7, <1>8, <1>9 DEF t

\* Dropping the answer leaves none, of a query there is one at most.
LEMMA DroppedAnswer ==
    ASSUME events \in Seq(Event), OneAnswer(events), DropAnswer, NEW p
    PROVE  /\ events' \in Seq(Event) /\ ~HasAnswer(events') /\ OneAnswer(events')
           /\ AnswersTo(events', p)
<1>1. events' \in Seq(Event) /\ ~HasAnswer(events')
  <2>1. CASE ~HasAnswer(events)
    BY <2>1 DEF DropAnswer, HasAnswer
  <2>2. CASE HasAnswer(events)
    <3>1. PICK at \in 1..Len(events) :
              /\ OfQuery(events[at])
              /\ events' = SubSeq(events, 1, at - 1)
                               \o SubSeq(events, at + 1, Len(events))
      BY <2>2 DEF DropAnswer, HasAnswer
    <3> DEFINE n == Len(events)
               a == SubSeq(events, 1, at - 1)
               b == SubSeq(events, at + 1, n)
    <3>2. n \in Nat /\ at \in Int /\ 1 <= at /\ at <= n
      BY <3>1, LenProperties
    <3>3. \A i \in 1..n : i # at => ~OfQuery(events[i])
      BY <3>1 DEF OneAnswer
    <3>4. /\ a \in Seq(Event) /\ Len(a) = at - 1
          /\ \A i \in 1..(at - 1) : a[i] = events[i]
      <4>1. \A i \in 1..(at - 1) : events[i] \in Event
        BY <3>2, ElementOfSeq
      <4>2. 1 \in Int /\ at - 1 \in Int
        BY <3>2
      <4> QED BY <3>2, <4>1, <4>2, SubSeqProperties
    <3>5. /\ b \in Seq(Event) /\ Len(b) = n - at
          /\ \A i \in 1..(n - at) : b[i] = events[at + i]
      BY <3>2, SubSeqProperties
    <3> HIDE DEF a, b
    <3>6. /\ a \o b \in Seq(Event) /\ Len(a \o b) = Len(a) + Len(b)
          /\ \A i \in 1..(Len(a) + Len(b)) :
                (a \o b)[i] = IF i <= Len(a) THEN a[i] ELSE b[i - Len(a)]
      BY <3>4, <3>5, ConcatProperties
    <3>7. \A i \in 1..Len(a \o b) : ~OfQuery((a \o b)[i])
      <4> SUFFICES ASSUME NEW i \in 1..Len(a \o b) PROVE ~OfQuery((a \o b)[i])
        OBVIOUS
      <4>1. i \in Int /\ 1 <= i /\ i <= (at - 1) + (n - at)
        BY <3>2, <3>4, <3>5, <3>6
      <4>2. CASE i <= at - 1
        <5>1. i \in 1..(at - 1) /\ i \in 1..n /\ i # at
          BY <3>2, <4>1, <4>2
        <5>2. (a \o b)[i] = events[i]
          BY <3>2, <3>4, <3>5, <3>6, <4>1, <4>2, <5>1
        <5> QED BY <3>3, <5>1, <5>2
      <4>3. CASE ~(i <= at - 1)
        <5>1. i - (at - 1) \in 1..(n - at)
          BY <3>2, <4>1, <4>3
        <5>2. (a \o b)[i] = events[at + (i - (at - 1))]
          BY <3>2, <3>4, <3>5, <3>6, <4>1, <4>3, <5>1
        <5>3. at + (i - (at - 1)) \in 1..n /\ at + (i - (at - 1)) # at
          BY <3>2, <4>1, <4>3
        <5> QED BY <3>3, <5>2, <5>3
      <4> QED BY <4>2, <4>3
    <3> QED BY <3>1, <3>6, <3>7 DEF a, b, HasAnswer
  <2> QED BY <2>1, <2>2
<1>2. \A i \in 1..Len(events') : events'[i].kind # "Candidates"
  BY <1>1 DEF HasAnswer, OfQuery
<1> QED BY <1>1, <1>2 DEF HasAnswer, OneAnswer, AnswersTo


(***************************************************************************)
(* Routing a key.                                                          *)
(***************************************************************************)
\* What the invariant reads of the machine.
core == <<state, last_candidates_request, candidates_in_flight, ai_preview,
          rewrite_preview>>

\* An idle machine shows nothing.
LEMMA IdleIsBare ==
    ASSUME MachineFits, state \notin Overlay
    PROVE  C!Bare
BY DEF MachineFits, C!SlotsFit, C!Bare, Overlay

\* What a routed key leaves to be applied, the machine being fit.
LEMMA RoutedInv ==
    ASSUME IInv, ~Doing, key # None \/ ui = "idle", NEW k, RouteIt(k),
           MachineFits', state' # "OcrPreviewing", StepsFit',
           marked' /\ state' = "Idle" => left \/ "clear" \in owed \/ Pending(Ends)',
           state' \in Overlay => state \in Overlay \/ Pending(Starts)',
           AwaitedFits', VisibleFits'
    PROVE  IInv'
<1>1. /\ hosted = "none" /\ hosted' = "none" /\ steps = <<>>
      /\ UNCHANGED <<marked, composed, left, owed, timer, asked, query, named, stream,
                     streaming, events, outer, batch>>
  BY DEF RouteIt, Doing, Waiting, text_in_host, requests, RouteComparison, RoutePreview,
         RouteExpired, RouteKey, Routed, StillRouting
<1>2. /\ ui \in {"idle", "replay", "input"}
      /\ \/ key' = None /\ ui' = IF ui = "input" THEN "idle" ELSE ui
         \/ ui' = IF ui = "idle" THEN "input" ELSE ui
  BY DEF IInv, Turn, RouteIt, RouteComparison, RoutePreview, RouteExpired, RouteKey,
         Routed, StillRouting
<1>3. Turn'
  BY <1>1, <1>2 DEF IInv, Turn, Waiting, Previewing
<1>4. HostFits'
  BY <1>1 DEF HostFits
<1>5. MarkedFits'
  BY <1>1 DEF IInv, MarkedFits, Composing, Pending, Unmarked
<1>6. PolledFits'
  BY <1>1 DEF IInv, PolledFits, Starting, Pending
<1>7. AnswersFit'
  BY <1>1 DEF IInv, AnswersFit
<1> QED  BY <1>3, <1>4, <1>5, <1>6, <1>7 DEF IInv

\* handle_rewrite_preview_key.
LEMMA RouteComparisonKeeps ==
    ASSUME IInv, ~Doing, key # None \/ ui = "idle", NEW k, RouteIt(k), RouteComparison(k)
    PROVE  IInv'
<1>1. /\ MachineFits' /\ C!Bare' /\ state' = "Idle"
      /\ C!Says("CommitImmediate") \/ C!Says("Cancel")
  BY ComparisonEnds DEF RouteComparison, IInv
<1>2. PICK name \in {"CommitImmediate", "Cancel"} : C!Says(name)
  BY <1>1
<1> DEFINE s == [do |-> out'[1], ask |-> None, event |-> "no"]
<1>3. steps' = <<s>> /\ s.do.act = name /\ s.ask = None
  BY <1>2, Tagging DEF RouteComparison
<1> HIDE DEF s
<1>4. Head(steps') = s /\ steps' # <<>>
  BY <1>3
<1>5. Pending(Ends)' /\ StepsFit'
  BY <1>1, <1>3, <1>4 DEF StepsFit, StepFits, Ends, Pending
<1>6. AwaitedFits' /\ VisibleFits'
  BY <1>1 DEF AwaitedFits, VisibleFits, Previewing, M!RewritePreviewing, C!Bare
<1> QED
  BY <1>1, <1>5, <1>6, RoutedInv DEF Overlay

\* handle_ocr_preview_key, in time or too late.
LEMMA RoutePreviewKeeps ==
    ASSUME IInv, ~Doing, key # None \/ ui = "idle", NEW k, RouteIt(k),
           RoutePreview(k) \/ RouteExpired(k)
    PROVE  IInv'
<1>0. steps = <<>> /\ hosted = "none" /\ MachineFits /\ (marked' => marked)
  BY DEF Doing, Waiting, IInv, RouteIt, text_in_host
<1> DEFINE s == Step([act |-> "CommitText"])
<1>3. steps' = <<>> \/ steps' = <<s>>
  BY <1>0 DEF RoutePreview, RouteExpired
<1>4. s.ask = None /\ s.do.act = "CommitText"
  BY DEF Step
<1> HIDE DEF s
<1>5. steps' = <<s>> => Head(steps') = s /\ steps' # <<>>
  OBVIOUS
<1>1. CASE Previewing
  <2>1. MachineFits' /\ C!Bare' /\ state' = "Idle"
    BY <1>0, <1>1, PreviewEnds DEF RoutePreview, RouteExpired
  <2>2. StepsFit'
    BY <1>3, <1>4, <1>5, <2>1 DEF StepsFit, StepFits, Ends
  <2>3. marked => left \/ "clear" \in owed
    BY <1>0, <1>1 DEF IInv, MarkedFits, Composing, Previewing, Pending
  <2>4. AwaitedFits' /\ VisibleFits'
    BY <2>1 DEF AwaitedFits, VisibleFits, Previewing, M!RewritePreviewing, C!Bare
  <2> QED
    BY <1>0, <2>1, <2>2, <2>3, <2>4, RoutedInv DEF Overlay
<1>2. CASE ~Previewing
  <2>1. Kept /\ RoutePreview(k) /\ disturbed' = ((disturbed \/ Intrudes) /\ state' # "Idle")
    BY <1>2 DEF RoutePreview, RouteExpired, RouteIt
  <2>2. MachineFits' /\ UNCHANGED core
    BY <1>0, <2>1, KeptMachine DEF Kept, core
  <2>3. state # "Idle" => Composing /\ disturbed'
    BY <1>2, <2>1, <2>2 DEF RoutePreview, Intrudes, Composing, Previewing, core
  <2>4. StepsFit'
    BY <1>3, <1>4, <1>5, <2>2, <2>3 DEF StepsFit, StepFits, Ends, core
  <2>5. marked' => Composing' \/ left \/ "clear" \in owed
    BY <1>0, <2>2 DEF IInv, MarkedFits, Composing, Pending, core
  <2>6. AwaitedFits'
    BY <2>2, <2>3 DEF AwaitedFits, core
  <2>7. VisibleFits'
    <3>1. state = "Idle" => C!Bare
      BY <1>0, IdleIsBare DEF Overlay
    <3> QED
      BY <2>2, <2>3, <3>1
         DEF VisibleFits, Previewing, M!RewritePreviewing, C!Bare, core
  <2>8. state' # "OcrPreviewing"
    BY <1>2, <2>2 DEF Previewing, core
  <2> QED
    BY <2>2, <2>4, <2>5, <2>6, <2>7, <2>8, RoutedInv DEF Composing, core
<1> QED  BY <1>1, <1>2

\* A key for the machine.
LEMMA RouteKeyKeeps ==
    ASSUME IInv, ~Doing, key # None \/ ui = "idle", NEW k, RouteIt(k), RouteKey(k)
    PROVE  IInv'
<1>0. /\ steps = <<>> /\ hosted = "none" /\ MachineFits
      /\ state # "OcrPreviewing"
      /\ UNCHANGED <<panel, data, slots, marked, hosted, asked, named, query, events,
                     batch, outer, owed, stream>>
      /\ ui' \in {"idle", "replay", "input"}
      /\ disturbed' = ((disturbed \/ Intrudes) /\ state' # "Idle")
  BY DEF Doing, Waiting, IInv, Turn, RouteKey, RouteIt, PreviewTakesKey, Previewing,
         window, text_in_host, requests, Routed
<1>1. MachineFits' /\ C!Reply /\ C!Asking
  BY <1>0, KeyFits
<1> DEFINE s == [do |-> out'[1], ask |-> Requested, event |-> "no"]
<1>2. /\ out' = <<>> => steps' = <<>>
      /\ \A name : C!Says(name) => steps' = <<s>> /\ s.do.act = name
  BY Tagging DEF RouteKey
<1>3. s.ask = Requested
  OBVIOUS
<1> HIDE DEF s
<1>4. Requested # None => Requested = last_candidates_request' /\ Requested \in Pinyins
                          /\ C!Says("UpdatePinyin")
  <2>1. last_candidates_request' \in Pinyins \cup {None}
    BY <1>1, LettersHere DEF MachineFits, C!Fit, C!LettersFit
  <2> QED BY <1>1, <2>1 DEF Requested, C!Asking
<1>5. CASE C!Silent
  <2>1. steps' = <<>> /\ UNCHANGED <<state, ai_preview, rewrite_preview>>
    BY <1>2, <1>5 DEF C!Silent
  <2>2. StepsFit'
    BY <2>1 DEF StepsFit
  <2>3. AwaitedFits'
    BY <1>0, <1>5, <2>1 DEF C!Silent, AwaitedFits, IInv
  <2>4. VisibleFits'
    <3>1. CASE state = "Idle"
      <4>1. C!Bare'
        BY <1>1, <2>1, <3>1 DEF MachineFits, C!SlotsFit, C!Bare
      <4> QED BY <2>1, <3>1, <4>1 DEF VisibleFits, Previewing, M!RewritePreviewing, C!Bare
    <3>2. CASE state # "Idle"
      BY <1>0, <2>1, <3>2
         DEF IInv, VisibleFits, Previewing, M!RewritePreviewing, Starting, Pending
    <3> QED BY <3>1, <3>2
  <2>5. marked' /\ state' = "Idle" => left \/ "clear" \in owed
    BY <1>0, <2>1 DEF IInv, MarkedFits, Composing, Pending
  <2> QED
    BY <1>0, <1>1, <2>1, <2>2, <2>3, <2>4, <2>5, RoutedInv
<1>6. CASE ~C!Silent
  <2>1. PICK name \in {"UpdatePinyin", "UpdatePrompt", "EnterPrompt", "CommitImmediate",
                       "CommitResult", "Cancel", "StartCapture", "StartLlm",
                       "StartRewrite"} : C!Says(name)
    BY <1>1, <1>6 DEF C!Reply
  <2>2. steps' = <<s>> /\ s.do.act = name /\ \A other : C!Says(other) => other = name
    BY <1>2, <2>1
  <2>3. Head(steps') = s /\ steps' # <<>>
    BY <2>2
  <2>4. \/ /\ name = "UpdatePinyin" /\ C!Bare' /\ state' \in {"Pinyin", "Prompt"}
        \/ /\ name \in {"UpdatePrompt", "EnterPrompt"}
           /\ C!Bare' /\ state' \in {"PendingSlash", "Prompt"}
        \/ /\ name \in {"CommitImmediate", "CommitResult", "Cancel"}
           /\ C!Bare' /\ state' \in {"Idle", "PendingSlash"}
        \/ /\ name = "StartCapture"
           /\ UNCHANGED <<state, rewrite_preview, ai_preview>>
        \/ /\ name \in {"StartLlm", "StartRewrite"} /\ state' = "Streaming"
    BY <1>1, <1>6, <2>2 DEF C!Reply
  <2>5. s.ask # None => /\ s.do.act = "UpdatePinyin" /\ ui' # "batch"
                        /\ s.ask \in Pinyins /\ s.ask = last_candidates_request'
    BY <1>0, <1>3, <1>4, <2>2
  <2>6. StepsFit'
    BY <2>2, <2>3, <2>4, <2>5 DEF StepsFit, StepFits, Ends, Starts, C!Bare
  <2>7. AwaitedFits'
    <3>1. CASE last_candidates_request' # last_candidates_request
      BY <1>3, <2>3, <3>1 DEF Requested, AwaitedFits
    <3>2. CASE last_candidates_request' = last_candidates_request
      <4>1. state' = "Pinyin" /\ candidates_in_flight' => state = "Pinyin" /\ candidates_in_flight
        BY <1>1, <3>2 DEF C!Asking
      <4>2. state' = "Pinyin" /\ ~disturbed' => ~disturbed
        BY <1>0
      <4> QED BY <1>0, <3>2, <4>1, <4>2 DEF AwaitedFits, IInv
    <3> QED BY <3>1, <3>2
  <2>8. VisibleFits'
    <3>1. CASE name \in Starts
      <4>1. Starting'
        BY <2>2, <2>3, <3>1 DEF Starting, Pending
      <4> QED BY <2>4, <3>1, <4>1 DEF VisibleFits, Previewing, M!RewritePreviewing, Starts
    <3>2. CASE name = "StartCapture" /\ state # "Idle"
      BY <1>0, <2>4, <3>2
         DEF IInv, VisibleFits, Previewing, M!RewritePreviewing, Starting, Pending, Starts
    <3>3. CASE C!Bare' /\ state' # "OcrPreviewing"
      BY <3>3 DEF VisibleFits, Previewing, M!RewritePreviewing, C!Bare
    <3>4. CASE name = "StartCapture" /\ state = "Idle"
      <4>1. C!Bare' /\ state' # "OcrPreviewing"
        BY <1>1, <2>4, <3>4 DEF MachineFits, C!SlotsFit, C!Bare
      <4> QED BY <3>3, <4>1
    <3> QED BY <2>4, <3>1, <3>2, <3>3, <3>4 DEF Starts
  <2>9. marked' /\ state' = "Idle" => left \/ "clear" \in owed \/ Pending(Ends)'
    <3>1. CASE name \in {"CommitImmediate", "CommitResult", "Cancel"}
      BY <2>2, <2>3, <3>1 DEF Pending, Ends
    <3>2. CASE state' = state
      BY <1>0, <3>2 DEF IInv, MarkedFits, Composing, Pending
    <3> QED BY <2>4, <3>1, <3>2
  <2>10. state' \in Overlay => state \in Overlay \/ Pending(Starts)'
    BY <2>2, <2>3, <2>4 DEF Overlay, Pending, Starts
  <2>11. state' # "OcrPreviewing"
    BY <1>0, <2>4
  <2> QED
    BY <1>1, <2>6, <2>7, <2>8, <2>9, <2>10, <2>11, RoutedInv
<1> QED  BY <1>5, <1>6

\* Either way of routing a key.
LEMMA RouteItKeeps ==
    ASSUME IInv, ~Doing, key # None \/ ui = "idle", NEW k, RouteIt(k)
    PROVE  IInv'
BY RouteComparisonKeeps, RoutePreviewKeeps, RouteKeyKeeps DEF RouteIt

(***************************************************************************)
(* Applying an action, up to its host call.                                *)
(***************************************************************************)
\* The action that waits is the only one, and it fits.
LEMMA Applied ==
    ASSUME IInv, NEW acts, NEW next, Applying(acts, next)
    PROVE  /\ StepFits(Head(steps)) /\ Head(steps).do.act \in acts
           /\ steps # <<>> /\ steps' = <<>>
           /\ hosted = "none" /\ hosted' = next
           /\ UNCHANGED <<ui, key, outer, batch, owed, expired, disturbed>>
<1>1. StepFits(Head(steps)) /\ steps = <<Head(steps)>>
  BY DEF IInv, StepsFit, Applying
<1>2. Tail(steps) = <<>>
  <2> DEFINE s == Head(steps)
  <2>1. steps = <<s>>
    BY <1>1
  <2> HIDE DEF s
  <2> QED BY <2>1
<1> QED  BY <1>1, <1>2 DEF Applying, Waiting, handler

\* It leaves the machine in its state, and what it did not change fits as before.
LEMMA AppliedInv ==
    ASSUME IInv, NEW acts, NEW next, Applying(acts, next), next # "none",
           MachineFits', UNCHANGED state, HostFits',
           Previewing => "ocr" \in slots',
           ui = "batch" => events' = <<>>,
           marked' => composed' /\ Composing,
           next \in Unmarked => ~marked',
           PolledFits', AnswersFit', AwaitedFits', VisibleFits'
    PROVE  IInv'
<1>1. /\ steps' = <<>> /\ hosted' = next
      /\ UNCHANGED <<ui, key, outer, batch, owed>>
  BY Applied
<1>2. Turn'
  BY <1>1 DEF IInv, Turn, Waiting, Previewing
<1>3. StepsFit'
  BY <1>1 DEF StepsFit
<1>4. MarkedFits'
  BY <1>1 DEF MarkedFits, Composing
<1> QED  BY <1>2, <1>3, <1>4 DEF IInv

\* What the requests owe, when an action leaves them alone.
LEMMA AppliedRequests ==
    ASSUME IInv, NEW acts, NEW next, Applying(acts, next), UNCHANGED requests
    PROVE  AnswersFit' /\ (ui = "batch" => events' = <<>>)
BY Applied DEF IInv, AnswersFit, requests, Turn

\* What blocks the keys stays awaited, unless the drawing of new letters asks.
LEMMA AppliedAwaited ==
    ASSUME IInv, NEW acts, NEW next, Applying(acts, next), UNCHANGED core,
           Head(steps).ask = None, UNCHANGED requests
    PROVE  AwaitedFits'
<1>1. steps # <<>> /\ steps' = <<>> /\ UNCHANGED <<batch, disturbed>>
  BY Applied
<1>2. state = "Pinyin" => last_candidates_request # None
  BY NoneApart, LettersHere DEF IInv, MachineFits, C!Fit, C!LettersFit
<1> QED
  BY <1>1, <1>2 DEF IInv, AwaitedFits, core, requests

\* update_pinyin: the list, and with new letters the question for its candidates.
LEMMA ApplyPinyinKeeps ==
    ASSUME IInv, ApplyPinyin
    PROVE  IInv'
<1> DEFINE s == Head(steps)
<1> DEFINE next == IF s.event = "current" THEN "answer" ELSE "refresh"
<1>1. Applying({"UpdatePinyin"}, next) /\ next \in {"refresh", "answer"}
  BY DEF ApplyPinyin
<1> HIDE DEF next
<1>2. /\ s.do.act = "UpdatePinyin" /\ StepFits(s) /\ steps # <<>>
      /\ steps' = <<>> /\ hosted' \in {"refresh", "answer"}
      /\ UNCHANGED <<ui, batch, disturbed>>
  BY <1>1, Applied
<1>3. /\ state \in {"Pinyin", "Prompt"}
      /\ s.ask # None => ui # "batch" /\ s.ask \in Pinyins /\ s.ask = last_candidates_request
  BY <1>2 DEF StepFits, Ends, Starts
<1> HIDE DEF s
<1>4. MachineFits' /\ UNCHANGED core /\ marked' /\ composed' /\ UNCHANGED slots
  BY KeptMachine DEF ApplyPinyin, Kept, IInv, core, Mark
<1>5. C!Bare /\ C!Bare'
  BY <1>3, <1>4, IdleIsBare DEF IInv, Overlay, C!Bare, core
<1>6. HostFits'
  BY <1>2, <1>3, <1>4, <1>5 DEF HostFits, core, C!Bare
<1>7. VisibleFits'
  BY <1>3, <1>4, <1>5 DEF VisibleFits, Previewing, M!RewritePreviewing, C!Bare, core
<1>8. /\ PolledFits' /\ AnswersFit' /\ AwaitedFits'
      /\ ui = "batch" => events' = <<>>
  <2>1. CASE s.ask = None
    <3>1. UNCHANGED <<timer, requests>>
      BY <2>1 DEF ApplyPinyin, s
    <3>2. AwaitedFits'
      BY <1>1, <1>4, <2>1, <3>1, AppliedAwaited DEF s
    <3>3. PolledFits'
      BY <1>3, <1>4, <3>1 DEF IInv, PolledFits, requests, core, Overlay
    <3> QED BY <1>1, <3>1, <3>2, <3>3, AppliedRequests
  <2>2. CASE s.ask # None
    <3>1. StartQuery(s.ask)
      BY <2>2 DEF ApplyPinyin, s
    <3>2. /\ asked' = s.ask /\ query' /\ named' /\ timer' /\ DropAnswer
          /\ s.ask \in Pinyins
      BY <1>3, <2>2, <3>1 DEF StartQuery
    <3>3. batch = <<>>
      BY <1>3, <2>2 DEF IInv, Turn
    <3>4. /\ events' \in Seq(Event) /\ ~HasAnswer(events') /\ OneAnswer(events')
          /\ AnswersTo(events', s.ask)
      BY <3>2, DroppedAnswer DEF IInv, AnswersFit
    <3>5. AnswersFit'
      <4>1. batch' = <<>>
        BY <1>2, <3>3
      <4> QED BY <2>2, <3>2, <3>4, <4>1, EmptyQueue DEF AnswersFit
    <3>6. AwaitedFits'
      BY <1>3, <1>4, <2>2, <3>2 DEF AwaitedFits, core
    <3>7. PolledFits'
      BY <1>3, <1>4, <3>2 DEF PolledFits, core, Overlay
    <3> QED BY <1>3, <2>2, <3>5, <3>6, <3>7
  <2> QED BY <2>1, <2>2
<1>9. Previewing => "ocr" \in slots'
  BY <1>3 DEF Previewing
<1> QED
  BY <1>1, <1>3, <1>4, <1>6, <1>7, <1>8, <1>9, AppliedInv DEF Composing, core, Unmarked

\* The prompt is drawn.
LEMMA ApplyPromptKeeps ==
    ASSUME IInv, ApplyPrompt
    PROVE  IInv'
<1>1. Applying({"EnterPrompt", "UpdatePrompt"}, "nothing")
  BY DEF ApplyPrompt
<1>2. /\ Head(steps).do.act \in {"EnterPrompt", "UpdatePrompt"} /\ StepFits(Head(steps))
      /\ steps' = <<>> /\ hosted' = "nothing"
  BY <1>1, Applied
<1>3. C!Bare /\ state \in {"PendingSlash", "Prompt"}
  BY <1>2 DEF StepFits, Ends, Starts
<1>4. /\ MachineFits' /\ UNCHANGED core /\ marked' /\ composed'
      /\ UNCHANGED <<timer, requests>>
  BY KeptMachine DEF ApplyPrompt, Kept, IInv, core, Mark
<1>5. C!Bare'
  BY <1>3, <1>4 DEF C!Bare, core
<1>6. HostFits' /\ VisibleFits' /\ AwaitedFits'
  BY <1>2, <1>3, <1>4, <1>5
     DEF HostFits, VisibleFits, AwaitedFits, Previewing, M!RewritePreviewing, C!Bare, core
<1>7. PolledFits'
  BY <1>3, <1>4 DEF IInv, PolledFits, requests, core, Overlay
<1>8. AnswersFit' /\ (ui = "batch" => events' = <<>>)
  BY <1>1, <1>4, AppliedRequests
<1> QED
  BY <1>1, <1>3, <1>4, <1>6, <1>7, <1>8, AppliedInv DEF Composing, Previewing, core, Unmarked

\* What an action that leaves the window and the requests alone owes.
LEMMA AppliedQuietly ==
    ASSUME IInv, NEW acts, NEW next, Applying(acts, next), Kept,
           next # "none", next # "comparison", UNCHANGED <<window, timer, requests>>,
           acts \subseteq {"UpdateResult", "ResultReady", "LlmFailed", "StartLlm",
                           "StartRewrite", "StartBubble", "StartCapture",
                           "CommitImmediate", "CommitText"},
           Pending(Starts) => next \in {"own stream", "speech", "phrase", "capture"},
           HostFits',
           marked' => composed' /\ Composing,
           next \in Unmarked => ~marked'
    PROVE  IInv'
<1>1. /\ Head(steps).do.act \in acts /\ StepFits(Head(steps))
      /\ steps # <<>> /\ steps' = <<>> /\ hosted = "none" /\ hosted' = next
      /\ UNCHANGED <<ui, outer, disturbed>>
  BY Applied
<1>2. Head(steps).ask = None
  BY <1>1 DEF StepFits
<1>3. MachineFits' /\ UNCHANGED core
  BY KeptMachine DEF Kept, IInv, core
<1>4. AwaitedFits'
  BY <1>2, <1>3, AppliedAwaited
<1>5. Starting => Starting'
  BY <1>1 DEF Starting
<1>6. PolledFits'
  BY <1>3, <1>5 DEF IInv, PolledFits, requests, core
<1>7. VisibleFits'
  BY <1>1, <1>3, <1>5
     DEF IInv, VisibleFits, Previewing, M!RewritePreviewing, window, core
<1>8. AnswersFit' /\ (ui = "batch" => events' = <<>>)
  BY AppliedRequests
<1>9. Previewing => "ocr" \in slots'
  BY <1>1 DEF IInv, Turn, window
<1> QED
  BY <1>3, <1>4, <1>6, <1>7, <1>8, <1>9, AppliedInv DEF core

\* The status line, before the overlay or the stream.
LEMMA ApplyStatusKeeps ==
    ASSUME IInv, ApplyStatus
    PROVE  IInv'
<1>1. /\ Kept /\ marked' = Composing /\ composed' = Composing
      /\ UNCHANGED <<window, timer, requests>> /\ UNCHANGED core
      /\ MachineFits'
  BY KeptMachine DEF ApplyStatus, Mark, Kept, IInv, core
<1>2. UNCHANGED <<asked, stream>>
  BY <1>1 DEF requests
<1>3. CASE Applying({"UpdateResult"}, "overlay")
  <2>1. state = "Streaming" /\ hosted' = "overlay" /\ ~Pending(Starts)
    BY <1>3, Applied DEF StepFits, Ends, Starts, Pending
  <2>2. HostFits'
    BY <1>1, <2>1 DEF HostFits, core
  <2> QED BY <1>1, <1>3, <2>1, <2>2, AppliedQuietly DEF Unmarked
<1>4. CASE Applying({"ResultReady", "LlmFailed"}, "ready")
  <2>1. /\ state \in {"ResultReady", "Failed"} /\ hosted' = "ready" /\ ~Pending(Starts)
        /\ state = "ResultReady" => ai_preview = "Ready"
        /\ stream = None /\ asked = None
    BY <1>4, Applied DEF StepFits, Ends, Starts, Pending
  <2>2. rewrite_preview = None
    BY <2>1, NoneApart DEF IInv, MachineFits, C!SlotsFit
  <2>3. HostFits'
    BY <1>1, <1>2, <2>1, <2>2 DEF HostFits, core, Overlay
  <2> QED BY <1>1, <1>4, <2>1, <2>3, AppliedQuietly DEF Unmarked
<1>5. CASE Applying({"StartLlm", "StartRewrite"}, "own stream")
  <2>1. Head(steps).do.act \in Starts /\ StepFits(Head(steps)) /\ hosted' = "own stream"
    BY <1>5, Applied DEF Starts
  <2>2. HostFits'
    BY <1>1, <2>1 DEF HostFits, StepFits, Ends, Starts, core
  <2> QED BY <1>1, <1>5, <2>1, <2>2, AppliedQuietly DEF Unmarked
<1>6. CASE Applying({"StartBubble"}, "bubble stream")
  <2>0. Head(steps).do.act \in {"StartBubble"} /\ hosted' = "bubble stream"
    BY <1>6, Applied, Zenon
  <2>1. Head(steps).do.act \notin Starts /\ hosted' = "bubble stream"
    BY <2>0 DEF Starts
  <2>2. HostFits'
    BY <2>1 DEF HostFits
  <2> QED BY <1>1, <1>6, <2>1, <2>2, AppliedQuietly DEF Unmarked, Pending
<1> QED  BY <1>3, <1>4, <1>5, <1>6 DEF ApplyStatus

\* A command that needs no stream.
LEMMA ApplyCommandKeeps ==
    ASSUME IInv, ApplyCommand
    PROVE  IInv'
<1>1. Kept /\ ~marked' /\ UNCHANGED <<window, timer, requests>> /\ UNCHANGED core
  BY KeptMachine DEF ApplyCommand, Mark, Kept, core
<1>2. ASSUME NEW what \in {"speech", "phrase", "capture"}, Applying({"StartLlm"}, what)
      PROVE  IInv'
  <2>1. state = "Streaming" /\ hosted' = what
    BY <1>2, Applied DEF StepFits, Ends, Starts
  <2>2. HostFits'
    BY <1>1, <1>2, <2>1 DEF HostFits, core
  <2> QED BY <1>1, <1>2, <2>1, <2>2, AppliedQuietly DEF Unmarked
<1>3. CASE Applying({"StartCapture"}, "bubble")
  <2>1. hosted' = "bubble" /\ ~Pending(Starts)
    BY <1>3, Applied DEF Pending, Starts
  <2>2. HostFits'
    BY <2>1 DEF HostFits
  <2> QED BY <1>1, <1>3, <2>1, <2>2, AppliedQuietly DEF Unmarked
<1> QED  BY <1>2, <1>3 DEF ApplyCommand

\* A commit.
LEMMA ApplyCommitKeeps ==
    ASSUME IInv, ApplyCommit
    PROVE  IInv'
<1>1. /\ Applying({"CommitImmediate", "CommitText"}, "commit")
      /\ Kept /\ ~marked' /\ UNCHANGED <<window, timer, requests>> /\ UNCHANGED core
  BY KeptMachine DEF ApplyCommit, Unmark, Kept, core
<1>2. /\ state \in {"Idle", "PendingSlash"} \/ disturbed
      /\ hosted' = "commit" /\ ~Pending(Starts) /\ UNCHANGED disturbed
  BY <1>1, Applied DEF StepFits, Ends, Starts, Pending
<1>3. HostFits'
  BY <1>1, <1>2 DEF HostFits, core
<1> QED BY <1>1, <1>2, <1>3, AppliedQuietly

\* The comparison is offered.
LEMMA ApplyRewriteReadyKeeps ==
    ASSUME IInv, ApplyRewriteReady
    PROVE  IInv'
<1>0. Applying({"RewriteReady"}, IF state = "ResultReady" THEN "comparison" ELSE "none")
  BY DEF ApplyRewriteReady
<1>1. /\ StepFits(Head(steps)) /\ Head(steps).do.act = "RewriteReady"
      /\ steps' = <<>> /\ UNCHANGED disturbed
  BY <1>0, Applied
<1>2. /\ state = "ResultReady" /\ asked = None /\ stream = None
      /\ Head(steps).do.rewritten \in Nat /\ Head(steps).do.source \in C!Texts
  BY <1>1 DEF StepFits, Ends, Starts
<1>3. Applying({"RewriteReady"}, "comparison") /\ hosted' = "comparison"
  BY <1>0, <1>2, Applied
<1>4. /\ M!BeginRewritePreview(Head(steps).do.rewritten, Head(steps).do.source)
      /\ slots' = slots \cup {"rewrite"} /\ data' = "comparison" /\ ~marked'
      /\ UNCHANGED <<panel, timer, requests>>
  BY <1>2 DEF ApplyRewriteReady, Mark
<1>5. /\ MachineFits' /\ ai_preview' = None
      /\ UNCHANGED <<state, last_candidates_request, candidates_in_flight>>
  BY <1>2, <1>4, ComparisonBegins DEF IInv
<1>6. HostFits'
  BY <1>2, <1>3, <1>4, <1>5 DEF HostFits, requests
<1>7. PolledFits' /\ AwaitedFits' /\ VisibleFits'
  BY <1>1, <1>2, <1>3, <1>4, <1>5
     DEF IInv, PolledFits, AwaitedFits, VisibleFits, Previewing, requests
<1>8. AnswersFit' /\ (ui = "batch" => events' = <<>>)
  BY <1>3, <1>4, AppliedRequests
<1> QED
  BY <1>2, <1>3, <1>4, <1>5, <1>6, <1>7, <1>8, AppliedInv DEF Previewing

\* Nothing is asked: nothing is left in the queue.
LEMMA NothingAsked ==
    ASSUME IInv, asked' = None, ~query', ~named', events' = <<>>, UNCHANGED batch
    PROVE  AnswersFit'
<1>1. events' \in Seq(Event) /\ ~HasAnswer(events') /\ OneAnswer(events')
      /\ AnswersTo(events', None)
  BY EmptyQueue
<1>2. AnswersTo(batch', None)
  BY DEF AnswersTo
<1> QED BY <1>1, <1>2 DEF IInv, AnswersFit

\* What gives up the query and the stream leaves nothing to fetch.
LEMMA CancelledRequests ==
    ASSUME IInv, CancelStream, UNCHANGED batch
    PROVE  AnswersFit' /\ PolledFits' /\ events' = <<>>
BY NothingAsked DEF CancelStream, PolledFits

\* A result is committed, or the composition is cancelled.
LEMMA ApplyEndKeeps ==
    ASSUME IInv, ApplyCommitResult \/ ApplyCancel
    PROVE  IInv'
<1> DEFINE acts == IF ApplyCommitResult THEN {"CommitResult"} ELSE {"Cancel"}
           next == IF ApplyCommitResult THEN "commit" ELSE "nothing"
<1>1. /\ Applying(acts, next) /\ ~marked' /\ CancelStream
      /\ MachineFits' /\ UNCHANGED core
  BY KeptMachine DEF ApplyCommitResult, ApplyCancel, Kept, Mark, Unmark, IInv, core
<1>2. acts \subseteq {"CommitResult", "Cancel"} /\ next \in {"commit", "nothing"}
  OBVIOUS
<1> HIDE DEF acts, next
<1>3. /\ StepFits(Head(steps)) /\ Head(steps).do.act \in acts /\ hosted' = next
      /\ UNCHANGED batch
  BY <1>1, Applied
<1>4. state \in {"Idle", "PendingSlash"}
  BY <1>2, <1>3 DEF StepFits, Ends, Starts
<1>5. C!Bare'
  BY <1>1, <1>4, IdleIsBare DEF IInv, Overlay, C!Bare, core
<1>6. HostFits' /\ AwaitedFits' /\ VisibleFits'
  BY <1>1, <1>2, <1>3, <1>4, <1>5
     DEF HostFits, AwaitedFits, VisibleFits, Previewing, M!RewritePreviewing, C!Bare, core
<1>7. AnswersFit' /\ PolledFits' /\ events' = <<>>
  BY <1>1, <1>3, CancelledRequests
<1> QED
  BY <1>1, <1>2, <1>4, <1>6, <1>7, AppliedInv DEF Previewing, core

LEMMA ApplyKeeps ==
    ASSUME IInv, Apply
    PROVE  IInv'
BY ApplyPinyinKeeps, ApplyPromptKeeps, ApplyStatusKeeps, ApplyCommandKeeps,
   ApplyRewriteReadyKeeps, ApplyCommitKeeps, ApplyEndKeeps DEF Apply

(***************************************************************************)
(* What follows the host call.                                             *)
(***************************************************************************)
\* The call is over: nothing of HostFits is left to be said.
LEMMA ReturnedInv ==
    ASSUME IInv, NEW from, Returning(from), {"none", "leaving"} \cap from = {},
           MachineFits', state' \in {state, "Idle"},
           UNCHANGED events \/ events' = <<>>,
           marked' = marked, left' = left, composed' = composed \/ hosted \in Unmarked,
           state' = state \/ hosted \in Unmarked,
           PolledFits', AnswersFit', AwaitedFits', VisibleFits'
    PROVE  IInv'
<1>1. /\ hosted \notin {"none", "leaving"} /\ hosted' = "none"
      /\ steps = <<>> /\ steps' = <<>>
      /\ UNCHANGED <<ui, key, outer, batch, owed, slots>>
  BY DEF Returning, handler, IInv, Turn, Waiting
<1>2. Turn'
  BY <1>1 DEF IInv, Turn, Waiting, Previewing
<1>3. StepsFit' /\ HostFits'
  BY <1>1 DEF StepsFit, HostFits
<1>4. MarkedFits'
  BY <1>1 DEF IInv, MarkedFits, Composing, Pending, Unmarked
<1> QED  BY <1>2, <1>3, <1>4 DEF IInv

\* The list, the comparison or the recognised text is drawn.
LEMMA ReturnRefreshKeeps ==
    ASSUME IInv, ReturnRefresh
    PROVE  IInv'
<1> DEFINE from == {"nothing", "refresh", "answer", "comparison", "preview",
                    "lost preview"}
<1>1. /\ Returning(from) /\ MachineFits' /\ UNCHANGED core
      /\ UNCHANGED <<marked, composed, left, asked, query, named, stream, events, disturbed,
                     data, outer, ui, steps, batch>>
  BY KeptMachine DEF ReturnRefresh, Kept, IInv, core, text_in_host, requests, Returning,
                     handler
<1>2. hosted \in from /\ hosted' = "none" /\ steps = <<>>
      /\ {"none", "leaving"} \cap from = {}
  BY DEF ReturnRefresh, Returning, IInv, Turn, Waiting
<1>3. AnswersFit' /\ AwaitedFits'
  BY <1>1 DEF IInv, AnswersFit, AwaitedFits, core
<1>4. PolledFits'
  BY <1>1, <1>2 DEF IInv, PolledFits, HostFits, ReturnRefresh, Starting, Pending, core
<1>5. VisibleFits'
  <2>1. CASE hosted \in {"nothing", "refresh", "answer"}
    <3>1. C!Bare' /\ state' # "OcrPreviewing"
      BY <1>1, <2>1 DEF IInv, HostFits, C!Bare, core
    <3> QED BY <3>1 DEF VisibleFits, Previewing, M!RewritePreviewing, C!Bare
  <2>2. CASE hosted = "comparison"
    <3>1. ai_preview' = None /\ state' # "OcrPreviewing"
      BY <1>1, <2>2 DEF IInv, HostFits, core
    <3>2. panel' = IF data = "none" THEN panel ELSE data
      BY <2>2 DEF ReturnRefresh, Drawn
    <3> QED
      BY <1>1, <1>2, <2>2, <3>1, <3>2
         DEF IInv, VisibleFits, Previewing, M!RewritePreviewing, core
  <2>3. CASE hosted \in {"preview", "lost preview"}
    <3>1. Previewing /\ data = "preview"
      BY <2>3 DEF IInv, HostFits
    <3>2. panel' = "preview" /\ data' = "preview" /\ C!Bare' /\ state' = "OcrPreviewing"
      BY <1>1, <2>3, <3>1, IdleIsBare
         DEF ReturnRefresh, Drawn, Previewing, IInv, Overlay, C!Bare, core
    <3> QED BY <3>2 DEF VisibleFits, Previewing, M!RewritePreviewing, C!Bare
  <2> QED BY <1>2, <2>1, <2>2, <2>3
<1> HIDE DEF from
<1> QED
  BY <1>1, <1>2, <1>3, <1>4, <1>5, ReturnedInv DEF core

\* The overlay is drawn.
LEMMA ReturnOverlayKeeps ==
    ASSUME IInv, ReturnOverlay
    PROVE  IInv'
<1>1. /\ Returning({"overlay", "ready"}) /\ MachineFits' /\ UNCHANGED core
      /\ UNCHANGED <<marked, composed, left, asked, query, named, stream, events, disturbed,
                     steps, batch>>
      /\ panel' = "overlay"
  BY KeptMachine DEF ReturnOverlay, Kept, IInv, core, text_in_host, requests, Returning,
                     handler
<1>2. /\ hosted \in {"overlay", "ready"} /\ steps = <<>>
      /\ state \in Overlay \cup {"Idle"}
      /\ state = "ResultReady" => rewrite_preview = None
  BY DEF ReturnOverlay, Returning, IInv, Turn, Waiting, HostFits, Overlay
<1>3. AnswersFit' /\ AwaitedFits'
  BY <1>1 DEF IInv, AnswersFit, AwaitedFits, core
<1>4. PolledFits'
  BY <1>1, <1>2 DEF IInv, PolledFits, HostFits, ReturnOverlay, Starting, Pending, core
<1>5. VisibleFits'
  BY <1>1, <1>2 DEF VisibleFits, Previewing, M!RewritePreviewing, Overlay, core
<1> QED
  BY <1>1, <1>3, <1>4, <1>5, ReturnedInv DEF core

\* The stream is opened.
LEMMA ReturnStartKeeps ==
    ASSUME IInv, ReturnStart
    PROVE  IInv'
<1>1. /\ Returning({"own stream", "bubble stream"}) /\ MachineFits' /\ UNCHANGED core
      /\ UNCHANGED <<marked, composed, left, batch>>
      /\ asked' = None /\ ~query' /\ ~named' /\ events' = <<>> /\ timer'
      /\ panel' = "overlay"
  BY KeptMachine DEF ReturnStart, StartStream, Kept, IInv, core, text_in_host, Returning,
                     handler
<1>2. state = "Streaming" \/ state = "Idle" \/ disturbed'
  BY DEF ReturnStart, Returning, IInv, HostFits
<1>3. AnswersFit'
  BY <1>1, NothingAsked
<1>4. PolledFits'
  BY <1>1 DEF PolledFits
<1>5. AwaitedFits' /\ VisibleFits'
  BY <1>1, <1>2 DEF AwaitedFits, VisibleFits, Previewing, M!RewritePreviewing, core
<1> QED
  BY <1>1, <1>3, <1>4, <1>5, ReturnedInv DEF core

\* The command is run, from an idle machine.
LEMMA ReturnCommandKeeps ==
    ASSUME IInv, ReturnCommand
    PROVE  IInv'
<1> DEFINE from == {"speech", "phrase", "capture", "bubble"}
<1>1. /\ Returning(from) /\ MachineFits' /\ C!Bare' /\ state' = "Idle"
      /\ UNCHANGED <<marked, left, batch>> /\ CancelStream
      /\ hosted \in Unmarked
  BY EscapeFits DEF ReturnCommand, Reset, IInv, Returning, handler, Unmarked
<1>2. AnswersFit' /\ PolledFits' /\ events' = <<>>
  BY <1>1, CancelledRequests
<1>3. AwaitedFits' /\ VisibleFits'
  BY <1>1 DEF AwaitedFits, VisibleFits, Previewing, M!RewritePreviewing, C!Bare
<1>4. {"none", "leaving"} \cap from = {}
  OBVIOUS
<1> HIDE DEF from
<1> QED
  BY <1>1, <1>2, <1>3, <1>4, ReturnedInv

\* The text is committed and the window goes.
LEMMA ReturnCommitKeeps ==
    ASSUME IInv, ReturnCommit
    PROVE  IInv'
<1> DEFINE from == {"commit", "held commit", "lost commit", "end"}
<1>1. /\ Returning(from) /\ MachineFits' /\ UNCHANGED core
      /\ UNCHANGED <<marked, left, batch, disturbed, ui, steps>>
      /\ hosted \in from /\ hosted \in Unmarked
  BY KeptMachine DEF ReturnCommit, Kept, IInv, core, Returning, handler, Unmarked
<1>2. \/ disturbed' \/ state \in {"Idle", "PendingSlash"}
      \/ Previewing /\ ui = "input"
  BY <1>1 DEF IInv, HostFits
<1>3. /\ AnswersFit' /\ PolledFits'
      /\ UNCHANGED events \/ events' = <<>>
  <2>1. CASE hosted = "end"
    BY <1>1, <2>1, CancelledRequests DEF ReturnCommit
  <2>2. CASE hosted # "end"
    <3>1. ~named' /\ UNCHANGED <<timer, asked, query, stream, streaming, events>>
      BY <2>2 DEF ReturnCommit
    <3>2. ~Starting
      BY <1>1, <2>2 DEF Starting, IInv, Turn, Waiting, Pending
    <3> QED BY <1>1, <3>1, <3>2 DEF IInv, AnswersFit, PolledFits, core
  <2> QED BY <2>1, <2>2
<1>4. AwaitedFits'
  BY <1>1, <1>2 DEF AwaitedFits, Previewing, core
<1>5. VisibleFits'
  <2>1. disturbed' \/ (C!Bare' /\ (state' = "OcrPreviewing" => ui' = "input"))
    BY <1>1, <1>2, IdleIsBare DEF Previewing, IInv, Overlay, C!Bare, core
  <2> QED BY <2>1 DEF VisibleFits, Previewing, M!RewritePreviewing, C!Bare
<1>6. {"none", "leaving"} \cap from = {}
  OBVIOUS
<1> HIDE DEF from
<1> QED
  BY <1>1, <1>3, <1>4, <1>5, <1>6, ReturnedInv DEF core

(***************************************************************************)
(* Callbacks that end the composition, and callbacks nested in a call.     *)
(***************************************************************************)
\* A machine that has become idle owes little, whatever call is under way.
LEMMA IdleInv ==
    ASSUME IInv, MachineFits', state' = "Idle", C!Bare', Turn', steps' = <<>>,
           hosted' \notin {"preview", "lost preview", "held commit", "lost commit"},
           hosted' \in {"ready", "comparison"} => asked' = None /\ stream' = None,
           marked' => composed' \/ "clear" \in owed',
           marked' => left' \/ "clear" \in owed',
           hosted' \in Unmarked => ~marked',
           asked' # None \/ stream' # None => timer',
           AnswersFit'
    PROVE  IInv'
<1>1. StepsFit'
  BY DEF StepsFit
<1>2. HostFits'
  BY DEF HostFits, C!Bare
<1>3. MarkedFits'
  BY DEF MarkedFits
<1>4. PolledFits'
  BY DEF PolledFits, Overlay
<1>5. AwaitedFits' /\ VisibleFits'
  BY DEF AwaitedFits, VisibleFits, Previewing, M!RewritePreviewing, C!Bare
<1> QED  BY <1>1, <1>2, <1>3, <1>4, <1>5 DEF IInv

\* The session is over.
LEMMA ReturnDeactivateKeeps ==
    ASSUME IInv, ReturnDeactivate
    PROVE  IInv'
<1>1. /\ steps = <<>> /\ steps' = <<>> /\ hosted = "leaving" /\ hosted' = "none"
      /\ ~marked' /\ CancelStream /\ UNCHANGED <<ui, key, outer, batch>>
  BY DEF ReturnDeactivate, Reset, handler, IInv, Turn, Waiting, MarkedFits, Unmarked
<1>2. MachineFits' /\ C!Bare' /\ state' = "Idle"
  BY EscapeFits DEF ReturnDeactivate, Reset, IInv
<1>3. AnswersFit' /\ events' = <<>> /\ asked' = None /\ stream' = None
  BY <1>1, CancelledRequests DEF CancelStream
<1>4. Turn'
  BY <1>1, <1>2, <1>3 DEF IInv, Turn, Previewing, Waiting
<1> QED  BY <1>1, <1>2, <1>3, <1>4, IdleInv

LEMMA HostReturnsKeeps ==
    ASSUME IInv, HostReturns
    PROVE  IInv'
BY ReturnRefreshKeeps, ReturnOverlayKeeps, ReturnStartKeeps, ReturnCommandKeeps,
   ReturnCommitKeeps, ReturnDeactivateKeeps DEF HostReturns

\* Nothing the invariant reads has changed.
LEMMA SameInv ==
    ASSUME IInv, UNCHANGED <<kept, handler, doing, text_in_host, window, owed, timer,
                             requests, disturbed>>
    PROVE  IInv'
<1>1. /\ MachineFits' /\ UNCHANGED core
      /\ UNCHANGED <<ui, key, outer, batch, steps, hosted, composed, marked, left, panel, data,
                     slots, asked, query, named, stream, events>>
  BY KeptMachine DEF IInv, core, handler, doing, text_in_host, window, requests
<1>2. Turn' /\ StepsFit'
  BY <1>1 DEF IInv, Turn, StepsFit, StepFits, Waiting, Previewing, C!Bare, core
<1>3. HostFits' /\ MarkedFits' /\ PolledFits'
  BY <1>1 DEF IInv, HostFits, MarkedFits, PolledFits, Starting, Pending, Previewing,
     Composing, C!Bare, core
<1>4. AnswersFit' /\ AwaitedFits' /\ VisibleFits'
  BY <1>1 DEF IInv, AnswersFit, AwaitedFits, VisibleFits, Starting, Pending, Previewing,
     M!RewritePreviewing, core
<1> QED  BY <1>1, <1>2, <1>3, <1>4 DEF IInv

\* A key that panics: the drain goes on without its call.
LEMMA NestedKeyPanicsKeeps ==
    ASSUME IInv, NestedKeyPanics
    PROVE  IInv'
<1>1. /\ MachineFits' /\ UNCHANGED core
      /\ UNCHANGED <<ui, key, outer, batch, steps, composed, marked, left, panel, data, owed,
                     slots, asked, query, named, stream, events, timer, disturbed>>
      /\ \/ hosted = "preview" /\ hosted' = "lost preview"
         \/ hosted = "held commit" /\ hosted' = "lost commit"
      /\ steps = <<>>
  BY KeptMachine DEF IInv, core, handler, machine, text_in_host, window, requests,
     NestedKeyPanics, Turn, Waiting
<1>2. Turn' /\ StepsFit'
  BY <1>1 DEF IInv, Turn, StepsFit, Waiting, Previewing, core
<1>3. HostFits' /\ MarkedFits'
  BY <1>1 DEF IInv, HostFits, MarkedFits, Pending, Previewing, Composing, Unmarked, core
<1>4. PolledFits' /\ AnswersFit' /\ AwaitedFits' /\ VisibleFits'
  BY <1>1 DEF IInv, PolledFits, AnswersFit, AwaitedFits, VisibleFits, Starting, Pending,
     Previewing, M!RewritePreviewing, core
<1> QED  BY <1>1, <1>2, <1>3, <1>4 DEF IInv

\* A key of the comparison.
LEMMA NestedComparisonKeeps ==
    ASSUME IInv, NEW k, NestedComparison(k)
    PROVE  IInv'
<1>1. /\ Waiting /\ ~Held /\ steps = <<>> /\ ~marked'
      /\ UNCHANGED <<ui, key, outer, batch, steps, hosted, owed>>
  BY DEF NestedComparison, IInv, Turn, handler, doing, Mark
<1>2. MachineFits' /\ C!Bare' /\ state' = "Idle"
  BY ComparisonEnds DEF NestedComparison, IInv
<1>3. \/ CancelStream
      \/ ~named' /\ UNCHANGED <<timer, asked, query, stream, streaming, events>>
  BY DEF NestedComparison
<1>4. /\ AnswersFit'
      /\ asked' # None \/ stream' # None => timer'
      /\ hosted \in {"ready", "comparison"} => asked' = None /\ stream' = None
      /\ events = <<>> => events' = <<>>
  <2>1. CASE CancelStream
    BY <1>1, <2>1, CancelledRequests DEF CancelStream
  <2>2. CASE ~named' /\ UNCHANGED <<timer, asked, query, stream, streaming, events>>
    BY <1>1, <2>2 DEF IInv, AnswersFit, PolledFits, HostFits
  <2> QED BY <1>3, <2>1, <2>2
<1>5. Turn'
  BY <1>1, <1>2, <1>4 DEF IInv, Turn, Previewing, Waiting
<1> QED
  BY <1>1, <1>2, <1>4, <1>5, IdleInv DEF Held

\* A key of a preview, or of the slot a preview has left.
LEMMA NestedPreviewKeeps ==
    ASSUME IInv, NEW k, NestedPreview(k)
    PROVE  IInv'
<1>1. /\ Waiting /\ ~Held /\ steps = <<>>
      /\ UNCHANGED <<ui, key, outer, batch, steps, hosted, owed, timer, asked, query,
                     stream, events>>
      /\ disturbed' = (disturbed \/ Composing)
      /\ named' => named
      /\ (UNCHANGED <<marked, composed, left>>) \/ (~marked')
  BY DEF NestedPreview, IInv, Turn, handler, doing, Mark, text_in_host
<1>2. AnswersFit'
  BY <1>1 DEF IInv, AnswersFit
<1>3. asked' # None \/ stream' # None => timer'
  BY <1>1 DEF IInv, PolledFits
<1>4. hosted \in {"ready", "comparison"} => asked' = None /\ stream' = None
  BY <1>1 DEF IInv, HostFits
<1>5. CASE ~Composing
  <2>1. MachineFits' /\ C!Bare' /\ state' = "Idle"
    <3>1. CASE Previewing
      BY <3>1, PreviewEnds DEF NestedPreview, IInv
    <3>2. CASE ~Previewing
      <4>1. MachineFits' /\ UNCHANGED core /\ state = "Idle"
        BY <1>5, <3>2, KeptMachine DEF NestedPreview, Kept, core, IInv, Composing, Previewing
      <4> QED BY <4>1, IdleIsBare DEF IInv, Overlay, C!Bare, core
    <3> QED BY <3>1, <3>2
  <2>2. Turn'
    BY <1>1, <2>1 DEF IInv, Turn, Previewing, Waiting
  <2>3. /\ marked' => composed' \/ "clear" \in owed'
        /\ marked' => left' \/ "clear" \in owed'
    BY <1>1, <1>5 DEF IInv, MarkedFits, Pending
  <2>4. hosted' \in Unmarked => ~marked'
    BY <1>1 DEF IInv, MarkedFits
  <2> QED
    BY <1>1, <1>2, <1>3, <1>4, <2>1, <2>2, <2>3, <2>4, IdleInv DEF Held
<1>6. CASE Composing
  <2>1. MachineFits' /\ UNCHANGED core /\ ~Previewing
    BY <1>6, KeptMachine DEF NestedPreview, Kept, core, IInv, Composing, Previewing
  <2>2. Turn' /\ StepsFit'
    BY <1>1, <2>1 DEF IInv, Turn, StepsFit, Previewing, Waiting, core
  <2>3. HostFits'
    BY <1>1, <1>6, <2>1 DEF IInv, HostFits, Held, Previewing, C!Bare, core
  <2>4. MarkedFits'
    BY <1>1, <1>6, <2>1 DEF IInv, MarkedFits, Composing, Pending, core
  <2>5. PolledFits'
    BY <1>1, <2>1 DEF IInv, PolledFits, Starting, Pending, core
  <2>6. AwaitedFits' /\ VisibleFits'
    BY <1>1, <1>6 DEF AwaitedFits, VisibleFits
  <2> QED BY <1>2, <2>1, <2>2, <2>3, <2>4, <2>5, <2>6 DEF IInv
<1> QED  BY <1>5, <1>6

LEMMA NestedKeeps ==
    ASSUME IInv, Nested
    PROVE  IInv'
<1>1. ASSUME NestedKeyWaits PROVE IInv'
  BY <1>1, SameInv DEF NestedKeyWaits, machine
<1> QED
  BY <1>1, NestedKeyPanicsKeeps, NestedComparisonKeeps, NestedPreviewKeeps DEF Nested

\* CapsLock ends the composition; the text that is still marked is owed.
LEMMA CapsKeyKeeps ==
    ASSUME IInv, CapsKey
    PROVE  IInv'
<1>1. /\ steps = <<>> /\ ~Held
      /\ UNCHANGED <<ui, key, outer, batch, steps, hosted>>
      /\ CancelStream
  BY DEF CapsKey, AtRest, Doing, Waiting, Held, Reset, handler, doing, IInv, Turn
<1>2. MachineFits' /\ C!Bare' /\ state' = "Idle"
  BY EscapeFits DEF CapsKey, Reset, IInv
<1>3. AnswersFit' /\ events' = <<>> /\ asked' = None /\ stream' = None
  BY <1>1, CancelledRequests DEF CancelStream
<1>4. Turn'
  BY <1>1, <1>2, <1>3 DEF IInv, Turn, Previewing, Waiting
<1>5. marked' => "clear" \in owed'
  BY DEF CapsKey, IInv, MarkedFits
<1>6. hosted' \in Unmarked => ~marked'
  BY <1>1 DEF CapsKey, IInv, MarkedFits
<1> QED
  BY <1>1, <1>2, <1>3, <1>4, <1>5, <1>6, IdleInv DEF Held

\* commitComposition, deactivateServer, activateServer and the bubble's click.
LEMMA SessionKeeps ==
    ASSUME IInv, Session
    PROVE  IInv'
<1>1. ASSUME HostEndsComposition PROVE IInv'
  <2>1. /\ steps = <<>> /\ hosted = "none"
        /\ UNCHANGED <<ui, key, outer, batch, steps, owed, composed>>
        /\ \/ hosted' = "end" /\ ~marked' /\ UNCHANGED <<timer, requests>>
           \/ hosted' = "none" /\ (marked' => marked /\ left') /\ CancelStream
    BY <1>1 DEF HostEndsComposition, AtRest, Doing, Waiting, handler, Unmark
  <2>2. MachineFits' /\ C!Bare' /\ state' = "Idle"
    BY <1>1, EscapeFits DEF HostEndsComposition, IInv
  <2>3. /\ AnswersFit' /\ (events = <<>> => events' = <<>>)
        /\ asked' # None \/ stream' # None => timer'
    <3>1. CASE CancelStream
      BY <2>1, <3>1, CancelledRequests DEF CancelStream
    <3>2. CASE UNCHANGED <<timer, requests>>
      BY <2>1, <3>2 DEF IInv, AnswersFit, PolledFits, requests
    <3> QED BY <2>1, <3>1, <3>2
  <2>4. Turn'
    BY <2>1, <2>2, <2>3 DEF IInv, Turn, Previewing, Waiting
  <2>5. /\ marked' => composed' \/ "clear" \in owed'
        /\ marked' => left' \/ "clear" \in owed'
        /\ hosted' \in Unmarked => ~marked'
    BY <2>1 DEF IInv, MarkedFits, Unmarked
  <2> QED BY <2>1, <2>2, <2>3, <2>4, <2>5, IdleInv
<1>2. ASSUME Deactivate PROVE IInv'
  <2>1. /\ steps = <<>> /\ steps' = <<>> /\ hosted = "none" /\ hosted' = "leaving"
        /\ UNCHANGED <<ui, key, outer, batch>> /\ CancelStream
        /\ ~marked' /\ disturbed'
    BY <1>2 DEF Deactivate, AtRest, Doing, Waiting, handler, Mark
  <2>2. MachineFits'
    BY <1>2, KeptMachine DEF Deactivate, Kept, IInv
  <2>3. AnswersFit' /\ PolledFits' /\ events' = <<>>
    BY <2>1, CancelledRequests
  <2>4. Turn' /\ StepsFit'
    BY <2>1, <2>3 DEF IInv, Turn, StepsFit, Waiting
  <2>5. HostFits' /\ MarkedFits' /\ AwaitedFits' /\ VisibleFits'
    BY <2>1 DEF HostFits, MarkedFits, AwaitedFits, VisibleFits
  <2> QED BY <2>2, <2>3, <2>4, <2>5 DEF IInv
<1>3. ASSUME Activate PROVE IInv'
  <2>1. /\ steps = <<>> /\ hosted = "none" /\ ~marked' /\ hosted' = "nothing"
        /\ UNCHANGED <<ui, key, outer, batch, steps>> /\ CancelStream
    BY <1>3 DEF Activate, AtRest, Doing, Waiting, handler, Reset, Unmark
  <2>2. MachineFits' /\ C!Bare' /\ state' = "Idle"
    BY <1>3, EscapeFits DEF Activate, Reset, IInv
  <2>3. AnswersFit' /\ events' = <<>> /\ asked' = None /\ stream' = None
    BY <2>1, CancelledRequests DEF CancelStream
  <2>4. Turn'
    BY <2>1, <2>2, <2>3 DEF IInv, Turn, Previewing, Waiting
  <2> QED BY <2>1, <2>2, <2>3, <2>4, IdleInv
<1>4. ASSUME BubbleClick PROVE IInv'
  BY <1>4, SameInv DEF BubbleClick, Main, machine
<1> QED  BY <1>1, <1>2, <1>3, <1>4 DEF Session

(***************************************************************************)
(* input_text and drain_stream.                                            *)
(***************************************************************************)
\* At rest nothing waits and no key is held.
LEMMA Rest ==
    ASSUME IInv, AtRest
    PROVE  /\ ui = "idle" /\ hosted = "none" /\ steps = <<>>
           /\ key = None /\ ~outer /\ batch = <<>>
BY DEF IInv, Turn, AtRest, Doing, Waiting

\* A preview whose deadline has passed is given up first.
LEMMA Expired ==
    ASSUME IInv, Expire
    PROVE  /\ MachineFits'
           /\ IF ExpireHides THEN C!Bare' /\ state' = "Idle"
              ELSE UNCHANGED core /\ UNCHANGED slots
<1>1. CASE ExpireHides
  BY <1>1, PreviewEnds DEF ExpireHides, Expire, M!ExpireStaleOcrPreview, IInv
<1>2. CASE ~ExpireHides
  BY <1>2, KeptMachine DEF ExpireHides, Expire, Kept, IInv, core
<1> QED BY <1>1, <1>2

\* What is drained is drained at rest, with the machine the deadline has left.
LEMMA DrainStarts ==
    ASSUME IInv, AtRest, Expire, ui' = "replay", outer' \in {outer, TRUE},
           UNCHANGED <<doing, key, batch, timer, requests>>,
           marked' => marked /\ composed' = composed /\ left' = left,
           marked' => owed' = owed \/ "clear" \notin owed,
           disturbed => disturbed' \/ ExpireHides,
           ~outer' => UNCHANGED <<panel, data>> \/ ExpireHides,
           UNCHANGED panel \/ ExpireHides \/ disturbed' \/ ~Composing
    PROVE  IInv'
<1>1. /\ steps = <<>> /\ hosted = "none" /\ key = None /\ batch = <<>>
      /\ UNCHANGED <<steps, hosted, key, batch, timer, asked, query, named, stream,
                     events>>
  BY Rest DEF doing, requests
<1>2. AnswersFit'
  BY <1>1 DEF IInv, AnswersFit
<1>3. asked' # None \/ stream' # None => timer'
  BY <1>1 DEF IInv, PolledFits
<1>4. marked' => composed' \/ "clear" \in owed'
  BY DEF IInv, MarkedFits
<1>5. CASE ExpireHides
  <2>1. MachineFits' /\ C!Bare' /\ state' = "Idle"
    BY <1>5, Expired
  <2>2. Turn'
    BY <1>1, <2>1 DEF Turn, Previewing, Waiting
  <2>3. marked' => left' \/ "clear" \in owed'
    BY <1>1, <1>5 DEF IInv, MarkedFits, Pending, ExpireHides, Previewing, Composing
  <2> QED BY <1>1, <1>2, <1>3, <1>4, <2>1, <2>2, <2>3, IdleInv DEF Unmarked
<1>6. CASE ~ExpireHides
  <2>1. MachineFits' /\ UNCHANGED core /\ UNCHANGED slots
    BY <1>6, Expired
  <2>2. Turn'
    BY <1>1, <2>1 DEF IInv, Turn, Previewing, Waiting, core
  <2>3. StepsFit' /\ HostFits'
    BY <1>1 DEF StepsFit, HostFits
  <2>4. MarkedFits'
    BY <1>1, <1>4, <2>1 DEF IInv, MarkedFits, Composing, Pending, Unmarked, core
  <2>5. PolledFits'
    BY <1>1, <2>1 DEF IInv, PolledFits, Starting, Pending, core
  <2>6. AwaitedFits'
    BY <1>1, <1>6, <2>1 DEF IInv, AwaitedFits, core
  <2>7. VisibleFits'
    <3>1. state = "Idle" => C!Bare
      BY IdleIsBare DEF IInv, Overlay
    <3>2. ~outer /\ ui = "idle"
      BY Rest
    <3>3. CASE Composing
      BY <1>1, <1>6, <2>1, <3>3
         DEF IInv, VisibleFits, Previewing, M!RewritePreviewing, Starting, Pending,
             Composing, core
    <3>4. CASE ~Composing
      <4>1. C!Bare /\ C!Bare'
        BY <2>1, <3>4, IdleIsBare DEF IInv, Overlay, C!Bare, Composing, core
      <4>2. Previewing' /\ ~disturbed' /\ ~outer' => panel' = "preview" /\ data' = "preview"
        BY <1>1, <1>6, <2>1, <3>2 DEF IInv, VisibleFits, Previewing, core
      <4> QED
        BY <4>1, <4>2 DEF VisibleFits, Previewing, M!RewritePreviewing, C!Bare
    <3> QED BY <3>3, <3>4
  <2> QED BY <1>2, <2>1, <2>2, <2>3, <2>4, <2>5, <2>6, <2>7 DEF IInv
<1> QED  BY <1>5, <1>6

\* A key finds something to drain; what a CapsLock key owes is done first.
LEMMA KeyArrivesKeeps ==
    ASSUME IInv, KeyArrives
    PROVE  IInv'
<1>1. /\ AtRest /\ Expire /\ ui' = "replay" /\ outer'
      /\ UNCHANGED <<doing, key, batch, timer, requests>>
      /\ marked' => marked /\ composed' = composed /\ left' = left
      /\ marked' => "clear" \notin owed
      /\ disturbed => disturbed' \/ ExpireHides
      /\ UNCHANGED panel \/ ExpireHides \/ disturbed' \/ ~Composing
  BY DEF KeyArrives, Mark, text_in_host
<1> QED  BY <1>1, DrainStarts

\* The timer finds something to drain.
LEMMA TimerFiresKeeps ==
    ASSUME IInv, TimerFires
    PROVE  IInv'
<1>1. /\ AtRest /\ Expire /\ ui' = "replay"
      /\ UNCHANGED <<doing, key, batch, timer, requests>>
      /\ UNCHANGED <<outer, marked, composed, left, owed, data>>
      /\ disturbed => disturbed' \/ ExpireHides
      /\ UNCHANGED panel \/ ExpireHides
  BY DEF TimerFires, text_in_host
<1> QED  BY <1>1, DrainStarts

\* A step of the drain that leaves the machine, the host and the requests alone.
LEMMA DrainGoesOn ==
    ASSUME IInv, ~Doing,
           UNCHANGED <<kept, hosted, text_in_host, window, owed, timer, disturbed>>,
           UNCHANGED <<asked, query, named, stream>>,
           steps' = <<>> \/ steps' = <<Step([act |-> "StartBubble"])>>,
           Turn', AnswersFit',
           HasAnswer(events) \/ HasAnswer(batch) => HasAnswer(events') \/ HasAnswer(batch'),
           outer \/ ui = "input" => outer' \/ ui' = "input"
    PROVE  IInv'
<1>1. /\ steps = <<>> /\ hosted = "none" /\ MachineFits' /\ UNCHANGED core
      /\ UNCHANGED <<hosted, marked, composed, left, panel, data, slots>>
  BY KeptMachine DEF IInv, core, text_in_host, window, Doing, Waiting
<1> DEFINE s == Step([act |-> "StartBubble"])
<1>2. s.ask = None /\ s.do.act = "StartBubble"
  BY DEF Step
<1>3. steps' = <<>> \/ steps' = <<s>>
  OBVIOUS
<1> HIDE DEF s
<1>4. steps' # <<>> => steps' = <<s>> /\ Head(steps') = s
  BY <1>3
<1>5. StepsFit'
  BY <1>2, <1>4 DEF StepsFit, StepFits
<1>6. HostFits'
  BY <1>1 DEF HostFits
<1>7. MarkedFits'
  BY <1>1 DEF IInv, MarkedFits, Composing, Pending, Unmarked, core
<1>8. PolledFits'
  BY <1>1 DEF IInv, PolledFits, Starting, Pending, core
<1>9. AwaitedFits'
  BY <1>1 DEF IInv, AwaitedFits, core
<1>10. VisibleFits'
  BY <1>1 DEF IInv, VisibleFits, Previewing, M!RewritePreviewing, Starting, Pending, core
<1> QED BY <1>1, <1>5, <1>6, <1>7, <1>8, <1>9, <1>10 DEF IInv

\* The waiting keys, the bubble's text, the events taken, the end of the batch.
LEMMA DrainStepKeeps ==
    ASSUME IInv, ReplayKey \/ TakeBubble \/ TakeEvents \/ BatchDone
    PROVE  IInv'
<1>1. /\ ~Doing /\ steps = <<>> /\ hosted = "none" /\ key = None
      /\ UNCHANGED <<kept, hosted, text_in_host, window, owed, timer, disturbed>>
      /\ UNCHANGED <<asked, query, named, stream>> /\ UNCHANGED slots
      /\ state' = state
      /\ Previewing => "ocr" \in slots
  BY DEF ReplayKey, TakeBubble, TakeEvents, BatchDone, Draining, Doing, Waiting, machine,
         kept, doing, requests, window, IInv, Turn
<1>2. CASE ReplayKey
  <2>1. /\ ui = "replay" /\ UNCHANGED <<ui, outer, batch, events, steps>>
    BY <1>2 DEF ReplayKey, Draining, doing, requests
  <2>2. Turn' /\ AnswersFit'
    BY <1>1, <2>1 DEF IInv, Turn, AnswersFit, Previewing, Waiting
  <2> QED BY <1>1, <2>1, <2>2, DrainGoesOn
<1>3. CASE TakeBubble
  <2>1. /\ ui = "replay" /\ ui' = "slots" /\ UNCHANGED <<key, outer, batch, events>>
        /\ steps' = <<>> \/ steps' = <<Step([act |-> "StartBubble"])>>
    BY <1>3 DEF TakeBubble, Draining, requests
  <2>2. Turn' /\ AnswersFit'
    BY <1>1, <2>1 DEF IInv, Turn, AnswersFit, Previewing, Waiting
  <2> QED BY <1>1, <2>1, <2>2, DrainGoesOn
<1>4. CASE TakeEvents
  <2>1. /\ ui = "slots" /\ ui' = "batch" /\ UNCHANGED <<key, outer, steps>>
        /\ batch' = events /\ events' = <<>> /\ batch = <<>>
    BY <1>4 DEF TakeEvents, Draining, doing, IInv, Turn
  <2>2. Turn'
    BY <1>1, <2>1 DEF IInv, Turn, Previewing, Waiting
  <2>3. AnswersFit'
    <3>1. events' \in Seq(Event) /\ ~HasAnswer(events') /\ OneAnswer(events')
          /\ AnswersTo(events', asked')
      BY <2>1, EmptyQueue
    <3> QED BY <1>1, <2>1, <3>1 DEF IInv, AnswersFit
  <2>4. ~HasAnswer(batch)
    BY <2>1, EmptyQueue
  <2> QED BY <1>1, <2>1, <2>2, <2>3, <2>4, DrainGoesOn
<1>5. CASE BatchDone
  <2>1. /\ batch = <<>> /\ UNCHANGED <<batch, events, steps>> /\ Drained
    BY <1>5 DEF BatchDone, doing, requests
  <2>2. Turn' /\ AnswersFit'
    BY <1>1, <2>1 DEF IInv, Turn, AnswersFit, Drained, Previewing, Waiting
  <2>3. outer \/ ui = "input" => outer' \/ ui' = "input"
    BY <1>5, <2>1 DEF Drained, BatchDone, Draining
  <2> QED BY <1>1, <2>1, <2>2, <2>3, DrainGoesOn
<1> QED  BY <1>2, <1>3, <1>4, <1>5

\* A recognised text becomes a preview, or goes to the document at once.
LEMMA TakeTextKeeps ==
    ASSUME IInv, TakeText
    PROVE  IInv'
<1>1. /\ ui = "slots" /\ steps = <<>> /\ hosted = "none" /\ batch = <<>> /\ ~marked'
      /\ UNCHANGED <<batch, steps, owed, timer, asked, query, named, stream, events>>
      /\ disturbed' = (disturbed \/ Composing)
      /\ Drained
  BY DEF TakeText, Draining, Doing, Waiting, IInv, Turn, requests, Mark, Unmark
<1>2. /\ MachineFits'
      /\ UNCHANGED <<last_candidates_request, candidates_in_flight, ai_preview,
                     rewrite_preview>>
      /\ state' = IF Composing \/ outer THEN state ELSE "OcrPreviewing"
  <2>1. CASE outer
    BY <2>1, KeptMachine DEF TakeText, Kept, IInv
  <2>2. CASE ~outer
    BY <2>2, PreviewBegins DEF TakeText, IInv
  <2> QED BY <2>1, <2>2
<1>3. /\ ~outer /\ ~Composing => hosted' = "preview" /\ "ocr" \in slots' /\ data' = "preview"
      /\ ~outer /\ Composing => hosted' = "held commit" /\ UNCHANGED slots
      /\ outer => hosted' = "commit" /\ UNCHANGED slots
  BY DEF TakeText
<1>4. /\ ui' = IF outer THEN "input" ELSE "idle"
      /\ ~outer'
  BY <1>1 DEF Drained
<1>5. Turn'
  <2>1. key' # None => outer
    BY <1>1 DEF Drained
  <2> QED
    BY <1>1, <1>2, <1>3, <1>4, <2>1 DEF IInv, Turn, Previewing, Waiting, Composing
<1>6. StepsFit'
  BY <1>1 DEF StepsFit
<1>7. HostFits'
  BY <1>1, <1>2, <1>3, <1>4 DEF HostFits, Previewing, Composing
<1>8. MarkedFits'
  BY <1>1 DEF MarkedFits
<1>9. PolledFits'
  BY <1>1, <1>2 DEF IInv, PolledFits, Starting, Pending, Overlay
<1>10. AnswersFit'
  BY <1>1 DEF IInv, AnswersFit
<1>11. AwaitedFits'
  BY <1>1, <1>2 DEF AwaitedFits, Composing
<1>12. VisibleFits'
  <2>1. CASE Composing
    BY <1>1, <2>1 DEF VisibleFits
  <2>2. CASE ~Composing
    <3>1. C!Bare'
      BY <1>2, <2>2, IdleIsBare DEF IInv, Overlay, C!Bare, Composing
    <3> QED
      BY <1>3, <1>4, <2>2, <3>1 DEF VisibleFits, Previewing, M!RewritePreviewing, C!Bare
  <2> QED BY <2>1, <2>2
<1> QED
  BY <1>2, <1>5, <1>6, <1>7, <1>8, <1>9, <1>10, <1>11, <1>12 DEF IInv

\* An event, as the machine is fed it.
LEMMA FeedKeeps ==
    ASSUME IInv, Feed
    PROVE  IInv'
<1> DEFINE e == Head(batch)
<1>1. /\ ui = "batch" /\ steps = <<>> /\ hosted = "none" /\ events = <<>>
      /\ e \in Event /\ batch # <<>> /\ batch' = Tail(batch)
      /\ UNCHANGED <<ui, key, outer, hosted, marked, composed, left, slots, owed, timer,
                     query, events, disturbed>>
  BY RestOfBatch DEF Feed, Draining, Doing, Waiting, text_in_host, IInv, Turn, AnswersFit
<1>2. /\ batch' \in Seq(Event) /\ OneAnswer(batch')
      /\ AnswersTo(batch', asked) /\ (e.kind = "Candidates" => asked \in {None, e.pinyin})
      /\ HasAnswer(batch') => HasAnswer(batch)
      /\ OfQuery(e) => HasAnswer(batch) /\ ~HasAnswer(batch')
      /\ ~OfQuery(e) /\ HasAnswer(batch) => HasAnswer(batch')
  BY <1>1, RestOfBatch DEF IInv, AnswersFit
<1>3. ~HasAnswer(events) /\ ~Starting
  BY <1>1, EmptyQueue DEF Starting, Pending
<1>4. OfQuery(e) \/ e.kind \in {"Chunk", "Final", "Error"}
  BY <1>1 DEF Event, OfQuery
<1>5. \/ OfQuery(e) /\ FeedCandidates
      \/ ~OfQuery(e) /\ FeedStream
  BY DEF Feed
<1>6. e.kind = "Candidates" => e.pinyin \in Pinyins /\ e.count \in Nat
  BY <1>1 DEF Event
<1>7. AnswersTo(batch', None) /\ AnswersTo(events', None)
  BY DEF AnswersTo
<1> HIDE DEF e
<1>8. CASE ~OfQuery(e) /\ FeedStream
  <2>1. /\ steps' = Tagged(out', None, "no") /\ UNCHANGED <<asked, named, data, panel>>
        /\ \/ M!OnLlmChunk /\ UNCHANGED stream
           \/ M!OnLlmDone /\ stream' = None
           \/ M!OnLlmError /\ stream' = None
    BY <1>8 DEF FeedStream
  <2>2. AnswersFit'
    BY <1>1, <1>2, <1>3, <2>1 DEF IInv, AnswersFit
  <2>3. \A name : C!Says(name) => /\ steps' # <<>> /\ steps' = <<Head(steps')>>
                                  /\ Head(steps').do = out'[1] /\ Head(steps').ask = None
                                  /\ Head(steps').do.act = name
    <3> SUFFICES ASSUME NEW name, C!Says(name)
                 PROVE  /\ steps' # <<>> /\ steps' = <<Head(steps')>>
                        /\ Head(steps').do = out'[1] /\ Head(steps').ask = None
                        /\ Head(steps').do.act = name
      OBVIOUS
    <3> DEFINE s == [do |-> out'[1], ask |-> None, event |-> "no"]
    <3>1. steps' = <<s>> /\ s.do = out'[1] /\ s.ask = None /\ s.do.act = name
      BY <2>1, Tagging
    <3> HIDE DEF s
    <3> QED BY <3>1
  <2>4. out' = <<>> => steps' = <<>>
    BY <2>1, Tagging
  <2>5. /\ MachineFits'
        /\ UNCHANGED <<last_candidates_request, candidates_in_flight>>
        /\ \/ UNCHANGED <<state, ai_preview, rewrite_preview>>
           \/ /\ state = "Streaming" /\ state' = "ResultReady" /\ ai_preview' = "Ready"
              /\ stream' = None
           \/ /\ state \in Overlay /\ state' = "Failed" /\ stream' = None
              /\ rewrite_preview' = None /\ (ai_preview = None => ai_preview' = None)
        /\ StepsFit'
    <3>1. state = "Streaming" => asked = None
      BY <1>3 DEF IInv, PolledFits, Overlay
    <3>2. state \in Overlay => asked = None
      BY <1>3 DEF IInv, PolledFits
    <3>3. CASE M!OnLlmChunk
      <4>1. /\ MachineFits'
            /\ UNCHANGED <<state, last_candidates_request, candidates_in_flight,
                           ai_preview, rewrite_preview>>
            /\ (state = "Streaming" /\ C!Says("UpdateResult")) \/ out' = <<>>
        BY <3>3, ChunkFits DEF IInv
      <4>2. StepsFit'
        BY <2>3, <2>4, <4>1 DEF StepsFit, StepFits
      <4> QED BY <4>1, <4>2
    <3>4. CASE M!OnLlmDone /\ stream' = None
      <4>1. /\ MachineFits'
            /\ UNCHANGED <<last_candidates_request, candidates_in_flight>>
            /\ \/ /\ state = "Streaming" /\ state' = "ResultReady" /\ ai_preview' = "Ready"
                  /\ \/ C!Says("ResultReady")
                     \/ /\ C!Says("RewriteReady")
                        /\ out'[1].rewritten \in Nat /\ out'[1].source \in C!Texts
               \/ out' = <<>> /\ UNCHANGED <<state, ai_preview, rewrite_preview>>
        BY <3>4, DoneFits DEF IInv
      <4>2. StepsFit'
        <5>1. CASE out' = <<>>
          BY <2>4, <5>1 DEF StepsFit
        <5>2. CASE state = "Streaming" /\ C!Says("ResultReady")
          <6>1. /\ steps' = <<Head(steps')>> /\ Head(steps').ask = None
                /\ Head(steps').do.act = "ResultReady"
            BY <2>3, <5>2
          <6>2. stream' = None /\ asked' = None /\ state' = "ResultReady" /\ ai_preview' = "Ready"
            BY <2>1, <2>4, <3>1, <3>4, <4>1, <5>2, <6>1, <2>3
          <6> QED BY <6>1, <6>2 DEF StepsFit, StepFits
        <5>3. CASE /\ state = "Streaming" /\ C!Says("RewriteReady")
                   /\ out'[1].rewritten \in Nat /\ out'[1].source \in C!Texts
          <6>1. /\ steps' = <<Head(steps')>> /\ Head(steps').ask = None
                /\ Head(steps').do = out'[1]
                /\ Head(steps').do.act = "RewriteReady"
            BY <2>3, <5>3
          <6>2. stream' = None /\ asked' = None /\ state' = "ResultReady"
            BY <2>1, <2>4, <3>1, <3>4, <4>1, <5>3, <6>1, <2>3
          <6> QED BY <5>3, <6>1, <6>2 DEF StepsFit, StepFits
        <5> QED BY <4>1, <5>1, <5>2, <5>3
      <4> QED BY <3>4, <4>1, <4>2
    <3>5. CASE M!OnLlmError /\ stream' = None
      <4>1. /\ MachineFits' /\ rewrite_preview' = None
            /\ UNCHANGED <<last_candidates_request, candidates_in_flight>>
            /\ ai_preview = None => ai_preview' = None
            /\ \/ state \in Overlay /\ state' = "Failed" /\ C!Says("LlmFailed")
               \/ state \in Overlay /\ state' = "Failed" /\ out' = <<>>
               \/ out' = <<>> /\ state \notin Overlay /\ UNCHANGED state
        BY <3>5, ErrorFits DEF IInv
      <4>2. StepsFit'
        <5>1. CASE out' = <<>>
          BY <2>4, <5>1 DEF StepsFit
        <5>2. CASE state \in Overlay /\ state' = "Failed" /\ C!Says("LlmFailed")
          <6>1. /\ steps' = <<Head(steps')>> /\ Head(steps').ask = None
                /\ Head(steps').do.act = "LlmFailed"
            BY <2>3, <5>2
          <6>2. stream' = None /\ asked' = None
            BY <2>1, <3>2, <3>5, <5>2
          <6> QED BY <5>2, <6>1, <6>2 DEF StepsFit, StepFits
        <5> QED BY <4>1, <5>1, <5>2
      <4>3. state \notin Overlay => C!Bare
        BY IdleIsBare DEF IInv
      <4> QED BY <3>5, <4>1, <4>2, <4>3 DEF C!Bare
    <3> QED BY <2>1, <3>3, <3>4, <3>5
  <2>6. Turn'
    BY <1>1, <2>5 DEF IInv, Turn, Previewing, Waiting
  <2>7. HostFits'
    BY <1>1 DEF HostFits
  <2>8. MarkedFits'
    BY <1>1, <2>5 DEF IInv, MarkedFits, Composing, Pending, Overlay, Unmarked
  <2>9. PolledFits'
    BY <1>1, <1>3, <2>1, <2>5 DEF IInv, PolledFits, Overlay
  <2>10. AwaitedFits'
    BY <1>1, <1>2, <1>8, <2>1, <2>5 DEF IInv, AwaitedFits
  <2>11. VisibleFits'
    <3>1. CASE UNCHANGED <<state, ai_preview, rewrite_preview>>
      BY <1>1, <1>3, <2>1, <3>1 DEF IInv, VisibleFits, Previewing, M!RewritePreviewing
    <3>2. CASE state = "Streaming" /\ state' = "ResultReady" /\ ai_preview' = "Ready"
      <4>1. ai_preview # None /\ rewrite_preview' = None
        BY <2>5, <3>2, NoneApart DEF IInv, MachineFits, C!SlotsFit
      <4> QED
        BY <1>1, <1>3, <2>1, <3>2, <4>1 DEF IInv, VisibleFits, Previewing, M!RewritePreviewing
    <3>3. CASE /\ state \in Overlay /\ state' = "Failed" /\ rewrite_preview' = None
               /\ ai_preview = None => ai_preview' = None
      BY <1>1, <1>3, <2>1, <3>3 DEF IInv, VisibleFits, Previewing, M!RewritePreviewing
    <3> QED BY <2>5, <3>1, <3>2, <3>3
  <2> QED BY <2>2, <2>5, <2>6, <2>7, <2>8, <2>9, <2>10, <2>11 DEF IInv
<1>9. CASE OfQuery(e) /\ FeedCandidates
  <2> DEFINE event == IF named /\ asked = e.pinyin THEN "current" ELSE "other"
  <2>1. /\ asked' = None /\ ~named' /\ UNCHANGED <<stream, data>>
        /\ panel' = panel \/ (named /\ data = "none")
        /\ \/ /\ e.kind = "Candidates"
              /\ M!OnLlmCandidates(e.pinyin, e.count, TRUE)
              /\ steps' = Tagged(out', None, event)
           \/ /\ named /\ M!OnLlmCandidates(asked, 0, TRUE)
              /\ steps' = Tagged(out', None, "no")
           \/ ~named /\ Kept /\ UNCHANGED <<steps, panel>>
    BY <1>9 DEF FeedCandidates, e
  <2> HIDE DEF event
  <2>9. VisibleFits /\ UNCHANGED <<state, ai_preview, rewrite_preview>> => VisibleFits'
    <3>1. CASE panel' = panel
      BY <1>1, <1>3, <2>1, <3>1 DEF VisibleFits, Previewing, M!RewritePreviewing
    <3>2. CASE named /\ data = "none"
      <4>1. state \notin Overlay
        BY <1>3, <3>2 DEF IInv, PolledFits, AnswersFit
      <4>2. C!Bare
        BY <4>1, IdleIsBare DEF IInv
      <4> QED
        BY <1>1, <1>3, <2>1, <3>2, <4>2
           DEF VisibleFits, Previewing, M!RewritePreviewing, C!Bare
    <3> QED BY <2>1, <3>1, <3>2
  <2>2. AnswersFit'
    <3>1. ~query' /\ events' = events
      BY <1>1, <1>2, <1>9 DEF IInv, AnswersFit
    <3> QED
      BY <1>1, <1>2, <1>3, <1>7, <2>1, <3>1 DEF IInv, AnswersFit
  <2>3. PolledFits'
    BY <1>1, <2>1 DEF IInv, PolledFits
  <2>4. HostFits'
    BY <1>1 DEF HostFits
  <2>5. ASSUME NEW p \in Pinyins, NEW n \in Nat, NEW tag,
               M!OnLlmCandidates(p, n, TRUE), steps' = Tagged(out', None, tag),
               asked \in {None, p}
        PROVE  IInv'
    <3>1. /\ MachineFits'
          /\ \/ /\ out' = <<>> \/ (C!Says("UpdatePinyin") /\ state \in {"Pinyin", "Prompt"})
                /\ UNCHANGED <<state, ai_preview, rewrite_preview>>
             \/ C!Says("CommitImmediate") /\ state' = "Idle" /\ C!Bare'
          /\ state' = "Pinyin" /\ candidates_in_flight' =>
                /\ state = "Pinyin" /\ candidates_in_flight
                /\ p # last_candidates_request
                /\ UNCHANGED last_candidates_request
      BY <2>5, AnswerFits DEF IInv
    <3>2. out' = <<>> => steps' = <<>>
      BY <2>5, Tagging
    <3>3. \A name : C!Says(name) => /\ steps' # <<>> /\ steps' = <<Head(steps')>>
                                    /\ Head(steps').ask = None
                                    /\ Head(steps').do.act = name
      <4> SUFFICES ASSUME NEW name, C!Says(name)
                   PROVE  /\ steps' # <<>> /\ steps' = <<Head(steps')>>
                          /\ Head(steps').ask = None /\ Head(steps').do.act = name
        OBVIOUS
      <4> DEFINE s == [do |-> out'[1], ask |-> None, event |-> tag]
      <4>1. steps' = <<s>> /\ s.ask = None /\ s.do.act = name
        BY <2>5, Tagging
      <4> HIDE DEF s
      <4> QED BY <4>1
    <3>4. StepsFit'
      BY <3>1, <3>2, <3>3 DEF StepsFit, StepFits, Ends
    <3>5. Turn'
      BY <1>1, <3>1 DEF IInv, Turn, Previewing, Waiting
    <3>6. MarkedFits'
      BY <1>1, <3>1, <3>3 DEF IInv, MarkedFits, Composing, Pending, Ends, Unmarked
    <3>7. AwaitedFits'
      <4>1. state = "Pinyin" => last_candidates_request # None
        BY NoneApart, LettersHere DEF IInv, MachineFits, C!Fit, C!LettersFit
      <4>2. state = "Pinyin" /\ candidates_in_flight /\ ~disturbed
                => asked = last_candidates_request
        BY <1>1 DEF IInv, AwaitedFits
      <4> QED BY <1>1, <2>5, <3>1, <4>1, <4>2 DEF AwaitedFits
    <3>8. VisibleFits'
      <4>1. CASE UNCHANGED <<state, ai_preview, rewrite_preview>>
        BY <2>9, <4>1 DEF IInv
      <4>2. CASE state' = "Idle" /\ C!Bare'
        BY <4>2 DEF VisibleFits, Previewing, M!RewritePreviewing, C!Bare
      <4> QED BY <3>1, <4>1, <4>2
    <3> QED BY <2>2, <2>3, <2>4, <3>1, <3>4, <3>5, <3>6, <3>7, <3>8 DEF IInv
  <2>6. CASE /\ e.kind = "Candidates"
             /\ M!OnLlmCandidates(e.pinyin, e.count, TRUE)
             /\ steps' = Tagged(out', None, event)
    BY <1>2, <1>6, <2>5, <2>6
  <2>7. CASE /\ named /\ M!OnLlmCandidates(asked, 0, TRUE)
             /\ steps' = Tagged(out', None, "no")
    <3>1. asked \in Pinyins /\ 0 \in Nat
      BY <2>7 DEF IInv, AnswersFit
    <3> QED BY <2>5, <2>7, <3>1
  <2>8. CASE ~named /\ Kept /\ UNCHANGED <<steps, panel>>
    <3>1. MachineFits' /\ UNCHANGED core
      BY <2>8, KeptMachine DEF Kept, IInv, core
    <3>2. Turn' /\ StepsFit'
      BY <1>1, <2>8, <3>1 DEF IInv, Turn, StepsFit, Previewing, Waiting, core
    <3>3. MarkedFits'
      BY <1>1, <2>8, <3>1 DEF IInv, MarkedFits, Composing, Pending, Unmarked, core
    <3>4. AwaitedFits'
      BY <1>1, <2>8, <3>1 DEF IInv, AwaitedFits, core
    <3>5. VisibleFits'
      BY <2>9, <3>1 DEF IInv, core
    <3> QED BY <2>2, <2>3, <2>4, <3>1, <3>2, <3>3, <3>4, <3>5 DEF IInv
  <2> QED BY <2>1, <2>6, <2>7, <2>8
<1> QED  BY <1>5, <1>8, <1>9

LEMMA DrainKeeps ==
    ASSUME IInv, Drain
    PROVE  IInv'
BY TimerFiresKeeps, DrainStepKeeps, TakeTextKeeps, FeedKeeps DEF Drain

(***************************************************************************)
(* The workers, and the specification.                                     *)
(***************************************************************************)
\* A worker puts an event into the queue: a query's answer is its last.
LEMMA EventKeeps ==
    ASSUME IInv, AtRest, NEW e \in Event, events' = Append(events, e),
           UNCHANGED Main, UNCHANGED <<asked, named, stream>>,
           OfQuery(e) => query /\ ~query',
           ~OfQuery(e) => UNCHANGED query,
           e.kind = "Candidates" => e.pinyin = asked
    PROVE  IInv'
<1>1. /\ MachineFits' /\ UNCHANGED core
      /\ UNCHANGED <<ui, key, outer, batch, steps, hosted, composed, marked, left, panel, data,
                     slots, owed, timer, disturbed>>
      /\ ui = "idle" /\ batch = <<>>
  BY KeptMachine, Rest DEF IInv, core, Main, machine, handler, doing, text_in_host, window
<1>2. /\ events' \in Seq(Event)
      /\ HasAnswer(events') <=> HasAnswer(events) \/ OfQuery(e)
      /\ OneAnswer(events) /\ ~(OfQuery(e) /\ HasAnswer(events)) => OneAnswer(events')
      /\ AnswersTo(events, asked) /\ (e.kind = "Candidates" => asked \in {None, e.pinyin})
            => AnswersTo(events', asked)
  BY AppendedEvent DEF IInv, AnswersFit
<1>3. Turn' /\ StepsFit'
  BY <1>1, Rest DEF IInv, Turn, StepsFit, Waiting, Previewing, core
<1>4. HostFits' /\ MarkedFits' /\ PolledFits'
  BY <1>1, Rest DEF IInv, HostFits, MarkedFits, PolledFits, Starting, Pending,
     Composing, core
<1>5. AnswersFit'
  BY <1>1, <1>2 DEF IInv, AnswersFit
<1>6. AwaitedFits'
  BY <1>1, <1>2 DEF IInv, AwaitedFits, core
<1>7. VisibleFits'
  BY <1>1 DEF IInv, VisibleFits, Starting, Pending, Previewing, M!RewritePreviewing, core
<1> QED  BY <1>1, <1>3, <1>4, <1>5, <1>6, <1>7 DEF IInv

LEMMA WorkersKeep ==
    ASSUME IInv, Workers \/ DeadlinePasses
    PROVE  IInv'
<1>1. ASSUME QueryEnds PROVE IInv'
  <2>1. asked \in Pinyins /\ query /\ ~query' /\ AtRest /\ UNCHANGED Main
        /\ UNCHANGED <<asked, named, stream>>
    BY <1>1 DEF QueryEnds, IInv, AnswersFit
  <2>2. ASSUME NEW n \in Answers \cup {0},
               events' = Append(events, [kind |-> "Candidates", pinyin |-> asked, count |-> n])
        PROVE  IInv'
    <3> DEFINE e == [kind |-> "Candidates", pinyin |-> asked, count |-> n]
    <3>1. n \in Nat
      <4>1. Answers \subseteq Nat
        BY InputControllerAssumption DEF M!MachineAssumption
      <4>2. n \in Answers \cup {0}
        BY <2>2
      <4> QED BY <4>1, <4>2
    <3>2. e \in Event /\ OfQuery(e) /\ e.pinyin = asked /\ events' = Append(events, e)
      BY <2>1, <2>2, <3>1 DEF Event, OfQuery
    <3> HIDE DEF e
    <3> QED BY <2>1, <3>2, EventKeeps
  <2>3. ASSUME events' = Append(events, [kind |-> "Failure"])
        PROVE  IInv'
    <3> DEFINE e == [kind |-> "Failure"]
    <3>1. /\ e \in Event /\ OfQuery(e) /\ e.kind # "Candidates"
          /\ events' = Append(events, e)
      BY <2>3 DEF Event, OfQuery
    <3> HIDE DEF e
    <3> QED BY <2>1, <3>1, EventKeeps
  <2> QED BY <1>1, <2>2, <2>3 DEF QueryEnds
<1>2. ASSUME StreamSends \/ StreamEnds PROVE IInv'
  <2>1. PICK k \in {"Chunk", "Final", "Error"} :
            /\ events' = Append(events, [kind |-> k])
            /\ AtRest /\ UNCHANGED Main /\ UNCHANGED <<asked, named, stream, query>>
    BY <1>2 DEF StreamSends, StreamEnds
  <2> DEFINE e == [kind |-> k]
  <2>2. /\ e \in Event /\ ~OfQuery(e) /\ e.kind # "Candidates"
        /\ events' = Append(events, e)
    BY <2>1 DEF Event, OfQuery
  <2> HIDE DEF e
  <2> QED BY <2>1, <2>2, EventKeeps
<1>3. ASSUME CaptureEnds \/ BubbleEnds \/ DeadlinePasses PROVE IInv'
  BY <1>3, SameInv DEF CaptureEnds, BubbleEnds, DeadlinePasses, Main, machine
<1> QED  BY <1>1, <1>2, <1>3 DEF Workers

\* A key that is routed, at once or behind its drain.
LEMMA KeysKeep ==
    ASSUME IInv, Route \/ \E k \in Keys : KeyDown(k)
    PROVE  IInv'
BY RouteItKeeps DEF Route, KeyDown, AtRest

LEMMA InitFits == Init => IInv
<1> SUFFICES ASSUME Init PROVE IInv
  OBVIOUS
<1>1. /\ state = "Idle" /\ steps = <<>> /\ hosted = "none" /\ ui = "idle"
      /\ ~candidates_in_flight /\ ai_preview = None /\ rewrite_preview = None
  BY DEF Init, M!Init
<1>2. C!TextsFit
  BY Given, C!TextFacts DEF Init, M!Init, C!TextsFit
<1>3. C!LettersFit
  <2>1. <<>> \in Seq(M!Chars)
    BY EmptySeq
  <2>2. /\ pinyin_buffer = <<>> /\ last_candidates_request = None
        /\ candidates_in_flight = FALSE /\ deferred_intents = <<>>
    BY DEF Init, M!Init
  <2> QED BY <1>1, <2>1, <2>2, SameCalls DEF C!LettersFit, M!States
<1>4. MachineFits
  BY <1>1, <1>2, <1>3 DEF MachineFits, C!Fit, C!SlotsFit
<1>5. Turn /\ StepsFit /\ HostFits /\ MarkedFits /\ PolledFits
  BY <1>1 DEF Init, Turn, StepsFit, HostFits, MarkedFits, PolledFits, Waiting, Previewing
<1>6. AnswersFit
  BY EmptyQueue DEF Init, AnswersFit
<1>7. AwaitedFits /\ VisibleFits
  BY <1>1 DEF AwaitedFits, VisibleFits, Previewing, M!RewritePreviewing
<1> QED  BY <1>4, <1>5, <1>6, <1>7 DEF IInv

LEMMA NextKeeps == IInv /\ [Next]_vars => IInv'
<1> SUFFICES ASSUME IInv, [Next]_vars PROVE IInv'
  OBVIOUS
<1>1. ASSUME UNCHANGED vars PROVE IInv'
  BY <1>1, SameInv DEF vars, machine
<1> QED
  BY <1>1, KeysKeep, KeyArrivesKeeps, CapsKeyKeeps, ApplyKeeps, HostReturnsKeeps,
     NestedKeeps, DrainKeeps, SessionKeeps, WorkersKeep DEF Next

\* The invariant holds throughout.
THEOREM ControllerInv == Spec => []IInv
<1>1. Init => IInv
  BY InitFits
<1>2. IInv /\ [Next]_vars => IInv'
  BY NextKeeps
<1> QED  BY <1>1, <1>2, PTL DEF Spec

(***************************************************************************)
(* What it says between two handlers.                                      *)
(***************************************************************************)
\* Whatever the host runs inside a call, text it still marks when the handler is
\* over belongs to a composition, is owed its removal or was left there by
\* commitComposition, and the controller has not lost sight of it: no key that
\* ends a composition leaves letters marked that nothing will take away.
THEOREM MarkedAlwaysOwed == Spec => []MarkedIsOwed
<1>1. IInv => MarkedIsOwed
  BY DEF IInv, MarkedFits, MarkedIsOwed, AtRest, Doing, Pending
<1> QED  BY <1>1, ControllerInv, PTL

\* What takes keys of its own is on the screen when a handler is over, in every
\* composition that nothing came into from outside.
THEOREM ModeAlwaysVisible == Spec => []ModeIsVisible
<1>1. IInv => ModeIsVisible
  <2> SUFFICES ASSUME IInv, AtRest, ~disturbed
               PROVE  /\ Previewing => panel = "preview"
                      /\ M!RewritePreviewing => panel = "comparison"
                      /\ ai_preview # None => panel = "overlay"
    BY DEF ModeIsVisible
  <2> QED
    BY Rest DEF IInv, VisibleFits, Starting, Pending
<1> QED  BY <1>1, ControllerInv, PTL

\* A pinyin that blocks the keys has its query at work or its answer in the queue,
\* and the timer that will fetch it runs: the composition is never stuck waiting
\* for something nobody will bring.
THEOREM WaitsAlwaysServed == Spec => []WaitsAreServed
<1>1. IInv => WaitsAreServed
  <2> SUFFICES ASSUME IInv, AtRest
               PROVE  WaitsAreServed
    BY DEF WaitsAreServed, RequestUnderWay, WaitedForIsPolled
  <2>1. steps = <<>> /\ ~HasAnswer(batch)
    BY Rest, EmptyQueue
  <2>2. RequestUnderWay
    BY <2>1 DEF IInv, AwaitedFits, RequestUnderWay, UnderWay, HasAnswer
  <2>3. WaitedForIsPolled
    BY DEF IInv, PolledFits, WaitedForIsPolled
  <2> QED BY <2>2, <2>3 DEF WaitsAreServed
<1> QED  BY <1>1, ControllerInv, PTL
=============================================================================
