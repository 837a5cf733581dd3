----------------------------- MODULE GatePolicy -----------------------------
(***************************************************************************)
(* The decision of the quality gate (policy/engine.py), from the results   *)
(* of the cases to pass, fail or error.                                    *)
(*                                                                         *)
(* A result is known by its provider status and the statuses of its        *)
(* required evaluators; optional evaluators are counted for display only.  *)
(* Rates are compared as fractions with the denominator Scale.  This is    *)
(* what the code's comparison of two floats gives: both sides are the      *)
(* doubles nearest to the two fractions.                                   *)
(***************************************************************************)
EXTENDS Naturals, FiniteSets, Sequences

CONSTANTS Scale,      \* the denominator of the policy's rates
          Critical    \* ordinals of the critical cases

ASSUME ScaleAssumption == Scale \in Nat \ {0}

CaseOutcomes == {"passed", "failed", "error"}
EvaluationStatuses == {"passed", "failed", "errored", "not_applicable"}

Policies == [minimum_pass_rate : 0..Scale, maximum_error_rate : 0..Scale,
             critical_cases_must_pass : BOOLEAN]

\* Mutant: a missing evaluation is no obstacle.
CaseOutcome_IgnoresErrors(result) ==
  IF "failed" \in result.required THEN "failed" ELSE "passed"

\* _case_summaries: the outcome of one case.
CaseOutcome(result) ==
  IF result.provider = "error"
     \/ result.required \cap {"errored", "not_applicable"} # {} THEN "error"
  ELSE IF "failed" \in result.required THEN "failed"
  ELSE "passed"

\* The ordinals of the cases with a given outcome.
With(outcomes, o) == {i \in DOMAIN outcomes : outcomes[i] = o}

\* A rate count / total compared with a threshold t / Scale.
AtMost(count, total, t) == count * Scale <= t * total
AtLeast(count, total, t) == count * Scale >= t * total

\* Mutant: errors are counted in the error rate and not against the pass rate.
Rules_ErrorsExcused(policy, outcomes) ==
  LET total == Len(outcomes)
      errors == With(outcomes, "error")
      passed == With(outcomes, "passed")
      failed == With(outcomes, "failed")
  IN
  {IF AtMost(Cardinality(errors), total, policy.maximum_error_rate)
     THEN "passed" ELSE "insufficient_evidence",
   IF errors \cap Critical = {} THEN "passed" ELSE "insufficient_evidence",
   IF AtLeast(Cardinality(passed), total - Cardinality(errors), policy.minimum_pass_rate)
     THEN "passed" ELSE "violated",
   IF ~policy.critical_cases_must_pass \/ failed \cap Critical = {}
     THEN "passed" ELSE "violated"}

\* _metrics and _rules: the statuses of the fixed rules maximum_error_rate,
\* critical_case_evidence, minimum_pass_rate and critical_cases_must_pass.
Rules(policy, outcomes) ==
  LET total == Len(outcomes)
      errors == With(outcomes, "error")
      passed == With(outcomes, "passed")
      failed == With(outcomes, "failed")
  IN
  {IF AtMost(Cardinality(errors), total, policy.maximum_error_rate)
     THEN "passed" ELSE "insufficient_evidence",
   IF errors \cap Critical = {} THEN "passed" ELSE "insufficient_evidence",
   IF AtLeast(Cardinality(passed), total, policy.minimum_pass_rate)
     THEN "passed" ELSE "violated",
   IF ~policy.critical_cases_must_pass \/ failed \cap Critical = {}
     THEN "passed" ELSE "violated"}

\* The gate outcome that follows from the statuses of all rules.
GateOutcome(statuses) ==
  IF "insufficient_evidence" \in statuses THEN "error"
  ELSE IF "violated" \in statuses THEN "fail"
  ELSE "pass"

\* aggregate_and_decide: the three baseline rules do not apply.
Decide(policy, outcomes) == GateOutcome(Rules(policy, outcomes) \cup {"not_applicable"})

\* How good a decision is, and which outcomes of a case are better.
Rank == [pass |-> 2, fail |-> 1, error |-> 0]
Better == [passed |-> {}, failed |-> {"passed"}, error |-> {"failed", "passed"}]
=============================================================================
