------------------------- MODULE BaselineComparison -------------------------
(***************************************************************************)
(* The gate with a baseline: the deltas between a candidate run and a      *)
(* baseline run (policy/comparison.py) and the decision that takes them    *)
(* into account (compare_and_decide in policy/engine.py).                  *)
(*                                                                         *)
(* A run is the sequence of its cases, each with its outcome, latency and  *)
(* cost.  The paired and missing case keys are reported and decide nothing *)
(* here, so they are left out.                                             *)
(*                                                                         *)
(* Latencies and costs are natural numbers, so their sums are exact.  A    *)
(* difference of rates and a percentage are rounded.  Rounding matters     *)
(* only where the exact value equals the limit, and not where every        *)
(* intermediate value is a double: there the comparison is right, else it  *)
(* can go either way.                                                      *)
(***************************************************************************)
EXTENDS GatePolicy, Integers, Sums

CONSTANTS Runs,        \* the possible runs
          Limits,      \* the possible baseline limits of a policy
          Policed,     \* the possible fixed limits of a policy
          Unset,       \* a limit that is not set
          NoCost       \* a case without a cost

CaseResults == [outcome : CaseOutcomes, latency : Nat, cost : Nat \cup {NoCost}]
BaselineLimits == [drop : 0..Scale, latency : Nat \cup {Unset}, cost : Nat \cup {Unset}]

\* The limits as specification/models.py validates them; a run has a case.
ASSUME RunsAssumption == Runs \subseteq Seq(CaseResults) \ {<<>>}
ASSUME PolicyAssumption == Policed \subseteq Policies /\ Limits \subseteq BaselineLimits
ASSUME UnsetAssumption == Unset \notin Nat /\ NoCost \notin Nat

VARIABLES
  policy,         \* the fixed limits of specification.policy
  limits,         \* its baseline limits, in parts of Scale and in percent
  candidate,      \* candidate_run
  baseline,       \* baseline_run
  compatible,     \* configuration_match and dataset_match
  gate            \* the outcome once it is decided, or "raised"

inputs == <<policy, limits, candidate, baseline, compatible>>
vars == <<inputs, gate>>

\* The one type invariant of this module.
TypeOK ==
  /\ policy \in Policies
  /\ limits \in BaselineLimits
  /\ candidate \in Runs /\ baseline \in Runs
  /\ compatible \in [configuration : BOOLEAN, dataset : BOOLEAN]
  /\ gate \in {"none", "pass", "fail", "error", "raised"}

Init ==
  /\ policy \in Policed
  /\ limits \in Limits
  /\ candidate \in Runs /\ baseline \in Runs
  /\ compatible \in [configuration : BOOLEAN, dataset : BOOLEAN]
  /\ gate = "none"

----------------------------------------------------------------------------
(* compare_candidate_to_baseline *)

\* The fraction num / den is a double.
Dyadic(num, den) == \E k \in 0..8 : (num * 2^k) % den = 0

\* The positive part of an observed value, and whether it is exact.
Positive(num, den, exact) == [num |-> IF num > 0 THEN num ELSE 0, den |-> den, exact |-> exact]

\* A value that cannot be observed.
Unknown == [num |-> 0, den |-> 0, exact |-> TRUE]

RunOutcomes(run) == [i \in DOMAIN run |-> run[i].outcome]

\* Mutant: the rate is taken over the cases with valid evidence.
_pass_rate_Evidence(run) ==
  LET valid == Cardinality(DOMAIN run \ With(RunOutcomes(run), "error"))
  IN  [num |-> Cardinality(With(RunOutcomes(run), "passed")),
       den |-> IF valid = 0 THEN 1 ELSE valid]

\* An error counts against the pass rate.
_pass_rate(run) == [num |-> Cardinality(With(RunOutcomes(run), "passed")), den |-> Len(run)]

pass_rate_drop(cand, base) ==
  LET c == _pass_rate(cand)
      b == _pass_rate(base)
      num == b.num * c.den - c.num * b.den
  IN  Positive(num, b.den * c.den,
               num <= 0 \/ c.num = 0 \/ (Dyadic(c.num, c.den) /\ Dyadic(b.num, b.den)))

_aggregate_latency(run) == Total([i \in DOMAIN run |-> run[i].latency])

\* Mutant: an unknown cost is nothing.
_aggregate_cost_Invented(run) ==
  Total([i \in DOMAIN run |-> IF run[i].cost = NoCost THEN 0 ELSE run[i].cost])

\* The total is unknown if the cost of one case is.
_aggregate_cost(run) ==
  IF \E i \in DOMAIN run : run[i].cost = NoCost THEN NoCost
  ELSE Total([i \in DOMAIN run |-> run[i].cost])

\* Mutant: the candidate in percent of the baseline.
_pct_change_Of(base, cand) ==
  IF base = 0 THEN Positive(0, 1, TRUE)
  ELSE Positive(cand * 100, base, Dyadic(cand, base))

\* There is no increase from zero.
_pct_change(base, cand) ==
  IF base = 0 THEN Positive(0, 1, TRUE)
  ELSE Positive((cand - base) * 100, base, cand <= base \/ Dyadic(cand - base, base))

----------------------------------------------------------------------------
(* _baseline_drop_rules and compare_and_decide *)

\* A limit of threshold / parts; up: the rounded value is above the exact one.
_eval_drop_rule(threshold, parts, observed, up) ==
  CASE threshold = Unset -> "not_applicable"
    [] threshold # Unset /\ observed = Unknown -> "insufficient_evidence"
    [] OTHER ->
         LET excess == observed.num * parts - threshold * observed.den
         IN  IF excess < 0 \/ (excess = 0 /\ (observed.exact \/ ~up))
               THEN "passed" ELSE "violated"

cost_increase_pct(cand, base) ==
  IF _aggregate_cost(cand) = NoCost \/ _aggregate_cost(base) = NoCost THEN Unknown
  ELSE _pct_change(_aggregate_cost(base), _aggregate_cost(cand))

\* up: the rules whose observed value is rounded up.
_baseline_drop_rules(cand, base, up) ==
  IF ~compatible.configuration \/ ~compatible.dataset THEN {"insufficient_evidence"}
  ELSE {_eval_drop_rule(limits.drop, Scale, pass_rate_drop(cand, base), "drop" \in up),
        _eval_drop_rule(limits.latency, 1,
          _pct_change(_aggregate_latency(base), _aggregate_latency(cand)), "latency" \in up),
        _eval_drop_rule(limits.cost, 1, cost_increase_pct(cand, base), "cost" \in up)}

Decision(cand, base, up) ==
  GateOutcome(Rules(policy, RunOutcomes(cand)) \cup _baseline_drop_rules(cand, base, up))

Roundings == SUBSET {"drop", "latency", "cost"}

\* Mutant: the outcome of a case is taken for the outcome of the gate.
compare_and_decide_Passed ==
  /\ gate = "none"
  /\ \E up \in Roundings :
       LET decision == Decision(candidate, baseline, up)
       IN  gate' = IF decision = "pass" THEN "passed" ELSE decision
  /\ UNCHANGED inputs

compare_and_decide ==
  /\ gate = "none"
  /\ \E up \in Roundings : gate' = Decision(candidate, baseline, up)
  /\ UNCHANGED inputs

\* _case_outcome looks up the baseline's evaluators in the specification of the
\* candidate: one that is not there is a KeyError, and there is no decision.
KeyError ==
  /\ gate = "none"
  /\ ~compatible.configuration
  /\ gate' = "raised"
  /\ UNCHANGED inputs

Next == compare_and_decide \/ KeyError

Spec == Init /\ [][Next]_vars

----------------------------------------------------------------------------
(* Properties *)

Decided == gate \notin {"none", "raised"}

PassedIn(run) == Cardinality({i \in DOMAIN run : run[i].outcome = "passed"})

\* The candidate's total is at most the percentage above the baseline's; an
\* increase from zero has no percentage.
Within(percent, field) ==
  percent = Unset \/
    LET total(run) == Total([i \in DOMAIN run |-> run[i][field]])
    IN  total(baseline) = 0
        \/ total(candidate) * 100 <= (100 + percent) * total(baseline)

\* A passing gate certifies that there is no regression beyond the limits: the
\* runs are comparable, the share of passed cases fell by the allowed part at
\* the most, latency and cost rose by the allowed percentages at the most, and
\* a limited cost is known for every case of both runs.  This holds however
\* the divisions are rounded.
RegressionNeverPasses ==
  gate = "pass" =>
    /\ compatible.configuration /\ compatible.dataset
    /\ Scale * PassedIn(baseline) * Len(candidate)
         <= Len(baseline) * (limits.drop * Len(candidate) + Scale * PassedIn(candidate))
    /\ Within(limits.latency, "latency")
    /\ limits.cost # Unset =>
         /\ \A run \in {candidate, baseline} : \A i \in DOMAIN run : run[i].cost # NoCost
         /\ Within(limits.cost, "cost")

\* A candidate that did what the baseline did raises no alarm: the decision is
\* the one without a baseline, also with limits of zero.
UnchangedIsNoAlarm ==
  Decided /\ candidate = baseline
  /\ compatible = [configuration |-> TRUE, dataset |-> TRUE]
  /\ (limits.cost = Unset \/ \A i \in DOMAIN baseline : baseline[i].cost # NoCost) =>
    gate = Decide(policy, RunOutcomes(candidate))

\* The gate follows the outcomes of both runs.  Had one case of the candidate
\* come out better, the decision would not have been worse, and had one case of
\* the baseline come out better, it would not have been better: on either side
\* an error counts no less than a failure, although only the fixed rules count
\* errors apart and the pass rates are compared as rounded numbers.
MonotoneInBothRuns ==
  Decided =>
    /\ \A i \in DOMAIN candidate : \A o \in Better[candidate[i].outcome] :
         \E up \in Roundings :
           Rank[Decision([candidate EXCEPT ![i].outcome = o], baseline, up)] >= Rank[gate]
    /\ \A i \in DOMAIN baseline : \A o \in Better[baseline[i].outcome] :
         \E up \in Roundings :
           Rank[gate] >= Rank[Decision(candidate, [baseline EXCEPT ![i].outcome = o], up)]
=============================================================================
