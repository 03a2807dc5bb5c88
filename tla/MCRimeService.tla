---------------------------- MODULE MCRimeService ----------------------------
EXTENDS RimeService
=============================================================================
