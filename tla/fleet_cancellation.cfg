CONSTANTS
  w1 = w1
  w2 = w2
  c1 = c1
  c2 = c2
  Workers = {w1, w2}
  NoWorker = NoWorker
  Clients = {c1, c2}
  NumRuns = 1
  NumCases = 2
  Runs <- MCRuns
  Cases <- MCCases
  MaxLapses = 1
SPECIFICATION FairSpec
CHECK_DEADLOCK FALSE
PROPERTY
  CancellationEnds
