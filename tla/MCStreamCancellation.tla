------------------------ MODULE MCStreamCancellation ------------------------
EXTENDS StreamCancellation
CONSTANTS f1, s1, s2
\* All streams of one frontend.
OneOwner == [s \in Streams |-> f1]
Epochs == [f \in Frontends |-> 3]
ChunkBound == [s \in Streams |-> IF s = s1 THEN 1 ELSE 0]
=============================================================================
