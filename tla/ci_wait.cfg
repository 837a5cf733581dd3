SPECIFICATION CIFairSpec
CONSTANTS
  Runs = {1}
  Cases <- MCCases
  Builds = {b1, b2}
  Target <- MCTarget
INVARIANTS
  ExitIsBacked
PROPERTY CommandsEnd
