------------------------ MODULE MCCompositionMachine ------------------------
EXTENDS CompositionMachine
=============================================================================
