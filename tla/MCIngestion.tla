----------------------------- MODULE MCIngestion -----------------------------
EXTENDS Ingestion

CONSTANTS j1, w1, w2

NoSkew == [w \in Workers |-> 0]

\* One worker's clock is a tick ahead of the database's: it claims retries early.
OneAhead == [w \in Workers |-> IF w = w1 THEN 1 ELSE 0]
=============================================================================
