SPECIFICATION FairSpec
CONSTANTS
  NumCases = 3
  Critical = {2}
  Scale = 2
  MaxRetries = 1
  Costs = {0, 1}
  Definition <- MCDefinition
  Outputs <- MCOutputs
  NoOutput = NoOutput
  Caps = {1, 2}
  NoCap = NoCap
  MaxCases = {2, 3}
INVARIANTS
  TypeOK
  ReportIsSound
  TransientErrorsAreRetried
  BudgetRespected
  GateIsMonotone
  PassNeedsEvidence
  QualityIsEstablished
CHECK_DEADLOCK FALSE
PROPERTY EvaluationEnds
