SPECIFICATION EvaluationSpec
CONSTANTS
  CaseOrder <- MCCaseOrder
  Language <- MCLanguage
  Category <- MCCategory
  Expected <- MCExpected
  Answers <- MCAnswers
  Similar <- MCSimilar
  Testers = {"plain", "ab"}
  Plan <- MCPlan
  FirstConfig <- MCFirstConfig
  Batches <- MCBatches
  Jobs <- MCJobs
  MaxCases = 3
  Permits = 2
  FallAllowed = 500
INVARIANTS
  GreedyIsFair
  LimitIsExact
  AloneMeansOwn
