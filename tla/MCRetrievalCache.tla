-------------------------- MODULE MCRetrievalCache --------------------------
EXTENDS RetrievalCache

CONSTANTS d1, s1, s2, w1, w2
=============================================================================
