-------------------------- MODULE MCSessionHistory --------------------------
EXTENDS SessionHistory, TLC
Symmetry == Permutations(Windows) \cup Permutations(Requests)
=============================================================================
