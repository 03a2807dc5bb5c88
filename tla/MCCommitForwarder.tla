------------------------- MODULE MCCommitForwarder -------------------------
EXTENDS CommitForwarder
=============================================================================
