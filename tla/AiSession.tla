----------------------------- MODULE AiSession ------------------------------
(***************************************************************************)
(* What the result overlay of the input method promises, without the keys: *)
(* a request is sent, its stream ends in a result, a comparison (rewrites  *)
(* only) or a failure, the user settles, retries, edits or closes it.      *)
(***************************************************************************)
CONSTANTS Texts, None

VARIABLES
    phase,    \* where the session is
    request   \* the request that retry and edit go back to, or None

session == <<phase, request>>
Requests == [prompt : Texts, rewrite_source : Texts \cup {None}]
IsRewrite == request.rewrite_source # None

Init == phase = "none" /\ request = None

Send == phase = "none" /\ phase' = "streaming" /\ request' \in Requests

\* the request of a session never changes under it
Finish == phase = "streaming" /\ phase' = "ready" /\ UNCHANGED request
Compare == /\ phase \in {"ready", "compare"} /\ IsRewrite
           /\ phase' = "compare"
           /\ UNCHANGED request
Fail == /\ phase \in {"streaming", "ready", "compare"}
        /\ phase' = "failed"
        /\ UNCHANGED request
Retry == /\ phase \in {"ready", "failed"} /\ request # None
         /\ phase' = "streaming"
         /\ UNCHANGED request

\* settled or closed: the request stays, so that a closed session can be seen
\* again; edited: its prompt moves back to the user
Leave == phase # "none" /\ phase' = "none" /\ UNCHANGED request
Edit == phase \in {"ready", "failed"} /\ phase' = "none" /\ request' = None

Next == Send \/ Finish \/ Compare \/ Fail \/ Retry \/ Leave \/ Edit
Spec == Init /\ [][Next]_session
=============================================================================
