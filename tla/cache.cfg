SPECIFICATION FairSpec
CONSTANTS
  d1 = d1
  s1 = s1
  s2 = s2
  w1 = w1
  w2 = w2
  Docs = {d1}
  Searchers = {s1, s2}
  Writers = {w1, w2}
  TTL = 1
  RedisFails = TRUE
  MaxChanges = 3
INVARIANTS CleanHitsCurrent
PROPERTIES DeletedForgotten
