SPECIFICATION Spec
CONSTANTS
  Scale = 3
  Critical = {2}
  Unset = Unset
  NoCost = NoCost
  Runs <- MCRuns
  Limits <- MCLimits
  Policed <- MCPolicies
INVARIANTS
  TypeOK
  RegressionNeverPasses
  UnchangedIsNoAlarm
  MonotoneInBothRuns
CHECK_DEADLOCK FALSE
