CONSTANTS
  w1 = w1
  w2 = w2
  Workers = {w1, w2}
  NoWorker = NoWorker
  Clients = {}
  NumRuns = 2
  Runs <- MCRuns
  Cases <- MCCases
  MaxLapses = 1
  Rejected = {1}
SPECIFICATION SupervisedSpec
CHECK_DEADLOCK FALSE
PROPERTY
  HealthyRunsEnd
