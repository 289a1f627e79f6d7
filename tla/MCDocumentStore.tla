--------------------------- MODULE MCDocumentStore ---------------------------
EXTENDS DocumentStore

CONSTANTS j1, l1
=============================================================================
