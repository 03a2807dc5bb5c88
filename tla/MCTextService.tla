--------------------------- MODULE MCTextService ---------------------------
EXTENDS TextService, TLC
\* The slots of streams are alike.
Symmetry == Permutations(Slots)

\* What later steps read.  out and shown are written by every step and read by
\* none; of the prompt and of the texts made from it only their lengths and their
\* presence are read; last_request only while there is a result to go back from;
\* of a batch the events that Collect does not drop.
LastRequest ==
    IF state \notin {"Streaming", "ResultReady", "Failed"} \/ last_request = None THEN None
    ELSE <<Len(last_request.prompt), last_request.rewrite_source # None>>
Compared == IF rewrite_preview = None THEN None ELSE rewrite_preview.rewritten
Seen == <<state, pinyin_buffer, candidates, last_candidates_request,
          candidates_in_flight, deferred_intents, pinyin_page, selected_index,
          ocr_preview, rewrite_source # None, Compared, ai_preview, Len(prompt),
          LastRequest, result, quote_open,
          ui, key, before, steps, SelectSeq(batch, OfThisEpoch), mode, composition,
          panel, expired, queries, ai, chunks, capture>>
=============================================================================
