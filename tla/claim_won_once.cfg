CONSTANTS
  w1 = w1
  w2 = w2
  w3 = w3
  Workers = {w1, w2, w3}
  NoWorker = NoWorker
  Clients = {}
  NumRuns = 1
  NumCases = 2
  Runs <- MCRuns
  Cases <- MCCases
  MaxLapses = 2
SPECIFICATION Spec
CHECK_DEADLOCK FALSE
PROPERTY
  ClaimWonOnce
