------------------------- MODULE MCAgenticRetrieval -------------------------
EXTENDS AgenticRetrieval

CONSTANTS q1, q2, q3, c1, c2
=============================================================================
