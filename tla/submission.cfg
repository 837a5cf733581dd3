SPECIFICATION FairSpec
CONSTANTS
  a1 = a1  a2 = a2  a3 = a3  a4 = a4  a5 = a5
  Attempts <- MCAttempts
  Request <- MCRequest
  Projects = {"p", "q"}
  Keys = {"k"}
  Bodies = {"body", "other"}
  NoKey = NoKey
  NoRun = NoRun
INVARIANTS
  OneRunPerKey
  AnswersAreTrue
  LookupFindsTheWinner
CHECK_DEADLOCK FALSE
PROPERTY EveryRequestEnds
