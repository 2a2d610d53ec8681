--------------------------- MODULE MC_Standalone ---------------------------
EXTENDS StandaloneConnection
=============================================================================
