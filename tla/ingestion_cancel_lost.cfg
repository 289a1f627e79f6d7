SPECIFICATION Spec
CONSTANTS
  j1 = j1
  w1 = w1
  w2 = w2
  Jobs = {j1}
  Workers = {w1}
  MaxAttempts = 2
  RetryBase = 1
  LockTicks = 1
  SkewBound = 0
  Skew <- NoSkew
  Requests = {"cancel"}
  Faults = {"unavailable"}
  MaxQueued = 2
  MaxCrashes = 0
PROPERTIES CancelHonoured
