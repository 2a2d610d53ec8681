---------------------------- MODULE MC_HashSlot ----------------------------
EXTENDS HashSlot

MCAlphabet == {"a", "b", "{", "}"}
=============================================================================
