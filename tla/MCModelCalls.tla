--------------------------- MODULE MCModelCalls ---------------------------
EXTENDS ModelCalls
MCCandidates == 1 .. 3
=============================================================================
