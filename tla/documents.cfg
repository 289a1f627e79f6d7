SPECIFICATION FairSpec
CONSTANTS
  j1 = j1
  l1 = l1
  Jobs = {j1}
  MaxAttempts = 1
  Deletable = {"ready", "deleted"}
  Loaders = {l1}
  MaxFailures = 2
INVARIANTS TypeOK PollingScheduled NothingLost DeletedHidden
PROPERTIES JobsFollowed
