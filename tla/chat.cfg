SPECIFICATION FairSpec
CONSTANTS
  r1 = r1
  r2 = r2
  t1 = t1
  t2 = t2
  Requests = {r1, r2}
  Turns = {t1, t2}
  Steps = 2
  MaxLate = 1
INVARIANTS TypeOK RunsExclusive UnfinishedKeptUnlessRaced RunsOwnTurn AnsweredOnce
PROPERTIES BusyEnds
