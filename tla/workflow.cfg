SPECIFICATION Spec
CONSTANTS
  c1 = c1
  fake = fake
  Chunks = {c1}
  Fabricated = fake
  MaxPlanSteps = 3
  MaxReplans = 2
  MaxReflections = 2
  MaxRetrievals = 5
  MaxRounds = 2
  MaxToolCalls = 3
  RecursionLimit = 30
  MaxStepId = 4
INVARIANTS TypeOK StatusEarned GeneratorHasEvidence PlanInOrder NodesEnabled BudgetsKept RecursionSuffices
