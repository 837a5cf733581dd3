------------------------ MODULE MCBaselineComparison ------------------------
(***************************************************************************)
(* An instance of BaselineComparison: all outcomes of one and two cases,   *)
(* three cases with and without failures, and single cases that differ in  *)
(* latency and cost, with a zero, an unknown and a limit met exactly.      *)
(***************************************************************************)
EXTENDS BaselineComparison

Ran(outcome, latency, cost) == [outcome |-> outcome, latency |-> latency, cost |-> cost]

MCRuns ==
  {[i \in DOMAIN outcomes |-> Ran(outcomes[i], 2, 1)] :
     outcomes \in [1..1 -> CaseOutcomes] \cup [1..2 -> CaseOutcomes]
                  \cup [1..3 -> {"passed", "failed"}]}
  \cup {<<Ran("passed", latency, 1)>> : latency \in {0, 3}}
  \cup {<<Ran("passed", 2, cost)>> : cost \in {0, 2, 3, NoCost}}

MCLimits == [drop : {0, 1, 3}, latency : {Unset, 0, 50}, cost : {Unset, 0, 50}]

MCPolicies ==
  {[minimum_pass_rate |-> 0, maximum_error_rate |-> 3, critical_cases_must_pass |-> FALSE],
   [minimum_pass_rate |-> 1, maximum_error_rate |-> 1, critical_cases_must_pass |-> TRUE],
   [minimum_pass_rate |-> 3, maximum_error_rate |-> 0, critical_cases_must_pass |-> TRUE]}
=============================================================================
