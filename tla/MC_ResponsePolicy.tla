------------------------- MODULE MC_ResponsePolicy -------------------------
EXTENDS ResponsePolicy
=============================================================================
