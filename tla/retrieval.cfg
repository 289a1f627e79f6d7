SPECIFICATION Spec
CONSTANTS
  q1 = q1
  q2 = q2
  q3 = q3
  c1 = c1
  c2 = c2
  Queries = {q1, q2, q3}
  OriginalQuery = q1
  Chunks = {c1, c2}
  MaxRounds = 3
  MaxQueries = 2
INVARIANTS NoQueryRepeated EvidenceFound RecursionSuffices
PROPERTIES ImplementsContract
