CONSTANTS
  w1 = w1
  w2 = w2
  w3 = w3
  c1 = c1
  Workers = {w1, w2, w3}
  NoWorker = NoWorker
  Clients = {c1}
  NumRuns = 1
  NumCases = 2
  Runs <- MCRuns
  Cases <- MCCases
  MaxLapses = 2
SYMMETRY Symmetry
SPECIFICATION Spec
CHECK_DEADLOCK FALSE
INVARIANTS
  TypeOK
  VerdictMatchesEvidence
  CompletedIsFull
  FailedIsReconciled
  RunnableHasNoEvidence
  ExclusiveUntilExpiry
PROPERTIES
  EvidenceWrittenOnce
  NeverRunnableAgain
  ImplementsLedger
