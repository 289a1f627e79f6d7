SPECIFICATION Spec
CONSTANTS
  j1 = j1
  w1 = w1
  w2 = w2
  Jobs = {j1}
  Workers = {w1, w2}
  MaxAttempts = 2
  RetryBase = 1
  LockTicks = 1
  SkewBound = 1
  Skew <- OneAhead
  Requests = {"cancel"}
  Faults = {"unavailable", "crash"}
  MaxQueued = 2
  MaxCrashes = 1
INVARIANTS SingleIngester AttemptsCounted NoStrandedJob
