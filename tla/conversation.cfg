SPECIFICATION FairSpec
CONSTANTS
  MaxAttempts = 2
  MaxCreated = 2
  MaxTries = 2
  Tokens = 2
  MaxLoads = 1
  MaxFailures = 1
INVARIANTS TypeOK OneAttempt AttemptShown TextInOrder ShownBelongs ResumeOffered
PROPERTIES AttemptsEnd
