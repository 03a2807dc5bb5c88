--------------------------- MODULE MCFloatButton ---------------------------
\* Instance of FloatButton for TLC.
EXTENDS FloatButton, TLC
Symmetry == Permutations(Addresses) \cup Permutations(Handles)
=============================================================================
