---------------------- MODULE BaselineComparisonProofs ----------------------
(***************************************************************************)
(* The properties of the gate with a baseline, for every policy, every     *)
(* limit, runs of any length and every rounding.                           *)
(***************************************************************************)
EXTENDS BaselineComparison, SharedLemmas

\* The invariant: the decision is the one of some rounding.
GateInv == Decided => \E up \in Roundings : gate = Decision(candidate, baseline, up)

Inv == TypeOK /\ GateInv

LEMMA DecisionType ==
  ASSUME NEW cand, NEW base, NEW up
  PROVE  Decision(cand, base, up) \in {"pass", "fail", "error"}
BY DEF Decision, GateOutcome

LEMMA InitInv == Init => Inv
BY PolicyAssumption DEF Init, Inv, TypeOK, GateInv, Decided

LEMMA StepInv ==
  ASSUME Inv, [Next]_vars
  PROVE  Inv'
<1>1. CASE compare_and_decide
  <2>1. UNCHANGED inputs
    BY <1>1 DEF compare_and_decide
  <2>2. PICK up \in Roundings : gate' = Decision(candidate, baseline, up)
    BY <1>1 DEF compare_and_decide
  <2>3. Decision(candidate, baseline, up)' = Decision(candidate, baseline, up)
    BY <2>1 DEF Decision, inputs, _baseline_drop_rules
  <2>4. TypeOK'
    BY <2>1, <2>2, DecisionType DEF Inv, TypeOK, inputs
  <2> QED BY <2>2, <2>3, <2>4 DEF Inv, GateInv
<1>2. CASE KeyError
  BY <1>2 DEF KeyError, inputs, Inv, TypeOK, GateInv, Decided
<1>3. CASE UNCHANGED vars
  <2>1. \A up : Decision(candidate, baseline, up)' = Decision(candidate, baseline, up)
    BY <1>3 DEF vars, inputs, Decision, _baseline_drop_rules
  <2> QED BY <1>3, <2>1 DEF vars, inputs, Inv, TypeOK, GateInv, Decided
<1> QED BY <1>1, <1>2, <1>3 DEF Next

LEMMA InvHolds == Spec => []Inv
BY InitInv, StepInv, PTL DEF Spec

----------------------------------------------------------------------------
(* What is observed *)

\* The facts are about runs of any length, whether TLC is given them or not.
AnyRun == Seq(CaseResults) \ {<<>>}

LEMMA RunFacts ==
  ASSUME NEW run \in AnyRun
  PROVE  /\ run \in Seq(CaseResults) /\ Len(run) \in Nat \ {0}
         /\ DOMAIN run = 1..Len(run) /\ \A i \in DOMAIN run : run[i] \in CaseResults
         /\ RunOutcomes(run) \in Seq(CaseOutcomes) /\ Len(RunOutcomes(run)) = Len(run)
<1>1. run \in Seq(CaseResults) /\ run # <<>>
  BY DEF AnyRun
<1>2. Len(run) \in Nat \ {0} /\ DOMAIN run = 1..Len(run)
  BY <1>1
<1>3. \A i \in 1..Len(run) : run[i] \in CaseResults
  BY <1>1, <1>2
<1>4. \A i \in 1..Len(run) : run[i].outcome \in CaseOutcomes
  BY <1>3 DEF CaseResults
<1>5. RunOutcomes(run) = [i \in 1..Len(run) |-> run[i].outcome]
  BY <1>2 DEF RunOutcomes
<1> QED BY <1>1, <1>2, <1>3, <1>4, <1>5

\* Passed cases, as the code and as the properties count them.
LEMMA PassRate ==
  ASSUME NEW run \in AnyRun
  PROVE  /\ _pass_rate(run).num = PassedIn(run) /\ _pass_rate(run).den = Len(run)
         /\ PassedIn(run) \in Nat
<1>1. RunOutcomes(run) \in Seq(CaseOutcomes)
  BY RunFacts
<1>2. With(RunOutcomes(run), "passed") = {i \in DOMAIN run : run[i].outcome = "passed"}
  BY DEF With, RunOutcomes
<1>3. Cardinality(With(RunOutcomes(run), "passed")) \in Nat
  BY <1>1, CountOf
<1> QED BY <1>2, <1>3 DEF _pass_rate, PassedIn

LEMMA LatencyType ==
  ASSUME NEW run \in AnyRun
  PROVE  _aggregate_latency(run) \in Nat
<1> DEFINE c == [i \in DOMAIN run |-> run[i].latency]
<1>1. /\ run \in Seq(CaseResults) /\ Len(run) \in Nat /\ DOMAIN run = 1..Len(run)
      /\ \A i \in DOMAIN run : run[i] \in CaseResults
  BY RunFacts
<1>2. \A i \in 1..Len(run) : run[i].latency \in Nat
  BY <1>1 DEF CaseResults
<1>3. c \in Seq(Nat)
  BY <1>1, <1>2
<1> HIDE DEF c
<1>4. PartialSums(c)[Len(c)] \in Nat
  BY <1>3, SumsProperties
<1> QED BY <1>4 DEF _aggregate_latency, Total, c

\* The total cost is known exactly when the cost of every case is.
LEMMA CostKnown ==
  ASSUME NEW run \in AnyRun
  PROVE  IF \A i \in DOMAIN run : run[i].cost # NoCost
         THEN /\ _aggregate_cost(run) \in Nat /\ _aggregate_cost(run) # NoCost
              /\ _aggregate_cost(run) = Total([i \in DOMAIN run |-> run[i].cost])
         ELSE _aggregate_cost(run) = NoCost
<1> DEFINE c == [i \in DOMAIN run |-> run[i].cost]
<1>1. /\ run \in Seq(CaseResults) /\ Len(run) \in Nat /\ DOMAIN run = 1..Len(run)
      /\ \A i \in DOMAIN run : run[i] \in CaseResults
  BY RunFacts
<1>2. ASSUME \A i \in DOMAIN run : run[i].cost # NoCost
      PROVE  Total(c) \in Nat
  <2>1. \A i \in 1..Len(run) : run[i].cost \in Nat
    BY <1>1, <1>2 DEF CaseResults
  <2>2. c \in Seq(Nat)
    BY <1>1, <2>1
  <2> HIDE DEF c
  <2>3. PartialSums(c)[Len(c)] \in Nat
    BY <2>2, SumsProperties
  <2> QED BY <2>3 DEF Total
<1> QED BY <1>2, UnsetAssumption DEF _aggregate_cost

----------------------------------------------------------------------------
(* The baseline rules *)

\* What a rule says about an observed value that is known.
LEMMA RuleMeaning ==
  ASSUME NEW t \in Nat \cup {Unset}, NEW parts \in Nat,
         NEW n \in Int, NEW d \in Nat, d # 0, NEW exact \in BOOLEAN, NEW up \in BOOLEAN
  PROVE  LET status == _eval_drop_rule(t, parts, Positive(n, d, exact), up)
             num == IF n > 0 THEN n ELSE 0
         IN  /\ status \in {"not_applicable", "passed", "violated"}
             /\ status # "violated" /\ t # Unset => num * parts <= t * d
             /\ num * parts < t * d => status # "violated"
             /\ num * parts <= t * d /\ (exact \/ ~up) => status # "violated"
<1> DEFINE num == IF n > 0 THEN n ELSE 0
           x == num * parts
           y == t * d
           obs == Positive(n, d, exact)
<1>1. obs.num = num /\ obs.den = d /\ obs # Unknown
  BY DEF Positive, Unknown
<1>2. obs.exact = exact
  BY DEF Positive
<1>3. CASE t = Unset
  BY <1>3, UnsetAssumption DEF _eval_drop_rule
<1>4. CASE t # Unset
  <2>1. t \in Nat /\ x \in Int /\ y \in Int
    BY <1>4
  <2>2. _eval_drop_rule(t, parts, obs, up) =
          IF x - y < 0 \/ (x - y = 0 /\ (exact \/ ~up)) THEN "passed" ELSE "violated"
    BY <1>1, <1>2, <1>4 DEF _eval_drop_rule
  <2> HIDE DEF x, y, obs
  <2>3. LET status == _eval_drop_rule(t, parts, obs, up) IN
        /\ status \in {"passed", "violated"}
        /\ status # "violated" => x <= y
        /\ x < y => status # "violated"
        /\ x <= y /\ (exact \/ ~up) => status # "violated"
    BY <2>1, <2>2
  <2> QED BY <2>3 DEF x, y, obs
<1> QED BY <1>3, <1>4

\* The rule on an increase in percent, for latency and for cost.
LEMMA IncreaseRule ==
  ASSUME NEW t \in Nat \cup {Unset}, NEW base \in Nat, NEW cand \in Nat, NEW up \in BOOLEAN
  PROVE  LET status == _eval_drop_rule(t, 1, _pct_change(base, cand), up) IN
         /\ _pct_change(base, cand) # Unknown
         /\ status \in {"not_applicable", "passed", "violated"}
         /\ status # "violated" /\ t # Unset => base = 0 \/ cand * 100 <= (100 + t) * base
         /\ cand = base => status # "violated"
<1> DEFINE status == _eval_drop_rule(t, 1, _pct_change(base, cand), up)
<1>1. CASE base = 0
  <2> DEFINE n == 0
             d == 1
             exact == TRUE
             num == IF n > 0 THEN n ELSE 0
  <2>1. _pct_change(base, cand) = Positive(n, d, exact)
    BY <1>1 DEF _pct_change
  <2>2. n \in Int /\ d \in Nat /\ d # 0 /\ exact \in BOOLEAN
    OBVIOUS
  <2>3. d = 1 /\ exact /\ num = 0
    OBVIOUS
  <2> HIDE DEF n, d, exact
  <2>4. /\ status \in {"not_applicable", "passed", "violated"}
        /\ num * 1 <= t * d /\ exact => status # "violated"
    BY <2>1, <2>2, RuleMeaning
  <2>5. status # "violated"
    <3>1. CASE t = Unset
      BY <3>1, UnsetAssumption DEF _eval_drop_rule
    <3>2. CASE t \in Nat
      BY <2>3, <2>4, <3>2
    <3> QED BY <3>1, <3>2
  <2>6. _pct_change(base, cand) # Unknown
    BY <2>1, <2>2 DEF Positive, Unknown
  <2> QED BY <1>1, <2>4, <2>5, <2>6
<1>2. CASE base # 0
  <2> DEFINE n == (cand - base) * 100
             exact == cand <= base \/ Dyadic(cand - base, base)
             num == IF n > 0 THEN n ELSE 0
  <2>1. _pct_change(base, cand) = Positive(n, base, exact)
    BY <1>2 DEF _pct_change
  <2>2. n \in Int /\ exact \in BOOLEAN
    OBVIOUS
  <2>3. cand = base => exact /\ n = 0
    OBVIOUS
  <2>4. num \in Nat /\ n <= num
    OBVIOUS
  <2> HIDE DEF n, exact
  <2>5. /\ status \in {"not_applicable", "passed", "violated"}
        /\ status # "violated" /\ t # Unset => num * 1 <= t * base
        /\ num * 1 <= t * base /\ exact => status # "violated"
    BY <1>2, <2>1, <2>2, RuleMeaning
  <2>6. ASSUME cand = base PROVE status # "violated"
    <3>1. CASE t = Unset
      BY <3>1, UnsetAssumption DEF _eval_drop_rule
    <3>2. CASE t \in Nat
      <4>1. num = 0 /\ exact
        BY <2>3, <2>6
      <4>2. 0 <= t * base
        BY <3>2
      <4> QED BY <2>5, <4>1, <4>2
    <3> QED BY <3>1, <3>2
  <2>7. ASSUME status # "violated", t # Unset PROVE cand * 100 <= (100 + t) * base
    <3>1. t \in Nat /\ num <= t * base
      BY <2>4, <2>5, <2>7
    <3>2. n <= t * base
      BY <2>2, <2>4, <3>1
    <3>3. (100 + t) * base = 100 * base + t * base
      BY <3>1
    <3>4. t * base \in Int
      BY <3>1
    <3> QED BY <3>2, <3>3, <3>4 DEF n
  <2>8. _pct_change(base, cand) # Unknown
    BY <1>2, <2>1 DEF Positive, Unknown
  <2> QED BY <2>5, <2>6, <2>7, <2>8
<1> QED BY <1>1, <1>2

\* The arithmetic of a difference of two rates.
LEMMA RateDifference ==
  ASSUME NEW p \in Nat, NEW l \in Nat, NEW q \in Nat, NEW m \in Nat, NEW t \in Nat
  PROVE  LET n == p * m - q * l
             num == IF n > 0 THEN n ELSE 0
         IN  num * Scale <= t * (l * m) <=> Scale * p * m <= l * (t * m + Scale * q)
<1> DEFINE n == p * m - q * l
           num == IF n > 0 THEN n ELSE 0
<1>1. n * Scale = Scale * p * m - Scale * q * l
  BY ScaleAssumption
<1>2. l * (t * m + Scale * q) = t * (l * m) + Scale * q * l
  BY ScaleAssumption
<1>3. /\ Scale * p * m \in Int /\ Scale * q * l \in Int /\ t * (l * m) \in Nat
      /\ n \in Int
  BY ScaleAssumption
<1>4. CASE n > 0
  <2> DEFINE a == Scale * p * m
             b == Scale * q * l
             c == t * (l * m)
  <2>1. num * Scale = a - b
    BY <1>1, <1>4
  <2>2. a \in Int /\ b \in Int /\ c \in Int
    BY <1>3
  <2>3. l * (t * m + Scale * q) = c + b
    BY <1>2
  <2> HIDE DEF a, b, c, num
  <2>4. num * Scale <= c <=> a <= l * (t * m + Scale * q)
    BY <2>1, <2>2, <2>3
  <2> QED BY <2>4 DEF a, c, num
<1>5. CASE ~(n > 0)
  <2>1. num * Scale = 0
    BY <1>5, ScaleAssumption
  <2>2. n * Scale <= 0
    BY <1>3, <1>5, ScaleAssumption
  <2> DEFINE a == Scale * p * m
             b == Scale * q * l
             c == t * (l * m)
  <2>3. a \in Int /\ b \in Int /\ c \in Nat
    BY <1>3
  <2>4. a - b <= 0
    BY <1>1, <2>2
  <2>5. l * (t * m + Scale * q) = c + b
    BY <1>2
  <2> HIDE DEF a, b, c, num
  <2>6. num * Scale <= c /\ a <= l * (t * m + Scale * q)
    BY <2>1, <2>3, <2>4, <2>5
  <2> QED BY <2>6 DEF a, c, num
<1> QED BY <1>4, <1>5

\* No more of the baseline's rate is lost than t parts of Scale.
DropWithin(t, cand, base) ==
  Scale * PassedIn(base) * Len(cand)
    <= Len(base) * (t * Len(cand) + Scale * PassedIn(cand))

\* The rule on the drop of the pass rate.
LEMMA DropRule ==
  ASSUME NEW t \in 0..Scale, NEW cand \in AnyRun, NEW base \in AnyRun, NEW up \in BOOLEAN
  PROVE  LET status == _eval_drop_rule(t, Scale, pass_rate_drop(cand, base), up) IN
         /\ status \in {"not_applicable", "passed", "violated"}
         /\ status # "violated" => DropWithin(t, cand, base)
         /\ DropWithin(t, cand, base) /\ ~up => status # "violated"
         /\ cand = base => status # "violated"
<1> DEFINE status == _eval_drop_rule(t, Scale, pass_rate_drop(cand, base), up)
           p == PassedIn(base)
           l == Len(base)
           q == PassedIn(cand)
           m == Len(cand)
           n == p * m - q * l
           num == IF n > 0 THEN n ELSE 0
           exact == n <= 0 \/ q = 0 \/ (Dyadic(q, m) /\ Dyadic(p, l))
<1>1. p \in Nat /\ q \in Nat /\ l \in Nat \ {0} /\ m \in Nat \ {0}
  BY RunFacts, PassRate
<1>2. pass_rate_drop(cand, base) = Positive(n, l * m, exact)
  BY PassRate DEF pass_rate_drop
<1>3. n \in Int /\ l * m \in Nat /\ l * m # 0 /\ exact \in BOOLEAN
  BY <1>1
<1>4. t \in Nat /\ t # Unset
  BY ScaleAssumption, UnsetAssumption
<1>5. num * Scale <= t * (l * m) <=> DropWithin(t, cand, base)
  <2> HIDE DEF p, q, l, m
  <2> QED BY <1>1, <1>4, RateDifference DEF DropWithin, p, q, l, m
<1>6. cand = base => n = 0 /\ num = 0 /\ exact
  BY <1>1
<1>7. 0 <= t * (l * m) /\ 0 * Scale = 0
  BY <1>1, <1>4, ScaleAssumption
<1> HIDE DEF n, exact
<1>8. /\ status \in {"not_applicable", "passed", "violated"}
      /\ status # "violated" => num * Scale <= t * (l * m)
      /\ num * Scale <= t * (l * m) /\ (exact \/ ~up) => status # "violated"
  <2> DEFINE d == l * m
  <2>1. status = _eval_drop_rule(t, Scale, Positive(n, d, exact), up)
    BY <1>2
  <2>2. d \in Nat /\ d # 0 /\ Scale \in Nat /\ t \in Nat \cup {Unset}
    BY <1>3, <1>4, ScaleAssumption
  <2> HIDE DEF d, status, l, m
  <2>3. /\ status \in {"not_applicable", "passed", "violated"}
        /\ status # "violated" => num * Scale <= t * d
        /\ num * Scale <= t * d /\ (exact \/ ~up) => status # "violated"
    BY <1>3, <1>4, <2>1, <2>2, RuleMeaning
  <2> QED BY <2>3 DEF d
<1> QED BY <1>5, <1>6, <1>7, <1>8

\* The three rules of two runs that can be compared.
LEMMA DropRules ==
  ASSUME compatible.configuration, compatible.dataset, NEW cand, NEW base, NEW up
  PROVE  _baseline_drop_rules(cand, base, up) =
           {_eval_drop_rule(limits.drop, Scale, pass_rate_drop(cand, base), "drop" \in up),
            _eval_drop_rule(limits.latency, 1,
              _pct_change(_aggregate_latency(base), _aggregate_latency(cand)),
              "latency" \in up),
            _eval_drop_rule(limits.cost, 1, cost_increase_pct(cand, base), "cost" \in up)}
BY DEF _baseline_drop_rules

LEMMA StateFacts ==
  ASSUME Inv
  PROVE  /\ limits.drop \in 0..Scale /\ limits.latency \in Nat \cup {Unset}
         /\ limits.cost \in Nat \cup {Unset} /\ policy \in Policies
         /\ candidate \in AnyRun /\ baseline \in AnyRun
         /\ compatible.configuration \in BOOLEAN /\ compatible.dataset \in BOOLEAN
<1>1. limits \in BaselineLimits /\ candidate \in Runs /\ baseline \in Runs /\ policy \in Policies
  BY DEF Inv, TypeOK
<1>2. compatible.configuration \in BOOLEAN /\ compatible.dataset \in BOOLEAN
  BY DEF Inv, TypeOK
<1> QED BY <1>1, <1>2, RunsAssumption DEF BaselineLimits, AnyRun

\* The rule on cost where the costs are known, and where they are not.
LEMMA CostRule ==
  ASSUME NEW t \in Nat \cup {Unset}, NEW cand \in AnyRun, NEW base \in AnyRun,
         NEW up \in BOOLEAN
  PROVE  LET status == _eval_drop_rule(t, 1, cost_increase_pct(cand, base), up)
             known == \A run \in {cand, base} : \A i \in DOMAIN run : run[i].cost # NoCost
             b == Total([i \in DOMAIN base |-> base[i].cost])
             c == Total([i \in DOMAIN cand |-> cand[i].cost])
         IN  /\ t = Unset => status = "not_applicable"
             /\ t # Unset /\ ~known => status = "insufficient_evidence"
             /\ known => /\ status \in {"not_applicable", "passed", "violated"}
                         /\ status # "violated" /\ t # Unset
                              => b = 0 \/ c * 100 <= (100 + t) * b
<1> DEFINE known == \A run \in {cand, base} : \A i \in DOMAIN run : run[i].cost # NoCost
           b == Total([i \in DOMAIN base |-> base[i].cost])
           c == Total([i \in DOMAIN cand |-> cand[i].cost])
<1>1. t = Unset => _eval_drop_rule(t, 1, cost_increase_pct(cand, base), up) = "not_applicable"
  BY DEF _eval_drop_rule
<1>2. ASSUME t # Unset, ~known
      PROVE  _eval_drop_rule(t, 1, cost_increase_pct(cand, base), up) = "insufficient_evidence"
  <2>1. _aggregate_cost(cand) = NoCost \/ _aggregate_cost(base) = NoCost
    BY <1>2, CostKnown
  <2>2. cost_increase_pct(cand, base) = Unknown
    BY <2>1 DEF cost_increase_pct
  <2> QED BY <1>2, <2>2 DEF _eval_drop_rule
<1>3. ASSUME known
      PROVE  /\ b \in Nat /\ c \in Nat
             /\ cost_increase_pct(cand, base) = _pct_change(b, c)
  <2>1. /\ b \in Nat /\ _aggregate_cost(base) = b /\ _aggregate_cost(base) # NoCost
        /\ c \in Nat /\ _aggregate_cost(cand) = c /\ _aggregate_cost(cand) # NoCost
    BY <1>3, CostKnown
  <2> QED BY <2>1 DEF cost_increase_pct
<1> HIDE DEF b, c, known
<1>4. ASSUME known
      PROVE  LET status == _eval_drop_rule(t, 1, cost_increase_pct(cand, base), up) IN
             /\ status \in {"not_applicable", "passed", "violated"}
             /\ status # "violated" /\ t # Unset => b = 0 \/ c * 100 <= (100 + t) * b
  BY <1>3, <1>4, IncreaseRule
<1> QED BY <1>1, <1>2, <1>4 DEF b, c, known

\* A better outcome of one case changes what the runs have passed and nothing
\* else that the comparison looks at.
LEMMA ImprovedRun ==
  ASSUME NEW run \in AnyRun, NEW i \in DOMAIN run, NEW o \in Better[run[i].outcome]
  PROVE  LET new == [run EXCEPT ![i].outcome = o] IN
         /\ new \in AnyRun /\ Len(new) = Len(run)
         /\ RunOutcomes(new) = [RunOutcomes(run) EXCEPT ![i] = o]
         /\ _aggregate_latency(new) = _aggregate_latency(run)
         /\ _aggregate_cost(new) = _aggregate_cost(run)
         /\ PassedIn(run) <= PassedIn(new)
<1> DEFINE new == [run EXCEPT ![i].outcome = o]
<1>1. /\ run \in Seq(CaseResults) /\ Len(run) \in Nat \ {0} /\ DOMAIN run = 1..Len(run)
      /\ \A j \in DOMAIN run : run[j] \in CaseResults
      /\ RunOutcomes(run) \in Seq(CaseOutcomes)
  BY RunFacts
<1>2. o \in CaseOutcomes
  <2>1. run[i].outcome \in CaseOutcomes
    BY <1>1 DEF CaseResults
  <2> QED BY <2>1 DEF Better, CaseOutcomes
<1>3. /\ new = [run EXCEPT ![i] = [run[i] EXCEPT !.outcome = o]]
      /\ [run[i] EXCEPT !.outcome = o] \in CaseResults
  BY <1>1, <1>2 DEF CaseResults
<1>4. /\ DOMAIN new = DOMAIN run /\ new[i] = [run[i] EXCEPT !.outcome = o]
      /\ \A j \in DOMAIN run : j # i => new[j] = run[j]
  BY <1>3
<1>5. new \in Seq(CaseResults) /\ Len(new) = Len(run)
  BY <1>1, <1>3
<1> HIDE DEF new
<1>6. /\ new[i].outcome = o /\ new[i].latency = run[i].latency /\ new[i].cost = run[i].cost
  BY <1>1, <1>4 DEF CaseResults
<1>7. new \in AnyRun
  BY <1>1, <1>5 DEF AnyRun
<1>8. RunOutcomes(new) = [RunOutcomes(run) EXCEPT ![i] = o]
  BY <1>4, <1>6 DEF RunOutcomes
<1>9. _aggregate_latency(new) = _aggregate_latency(run)
  <2>1. [j \in DOMAIN new |-> new[j].latency] = [j \in DOMAIN run |-> run[j].latency]
    BY <1>4, <1>6
  <2> QED BY <2>1 DEF _aggregate_latency
<1>10. _aggregate_cost(new) = _aggregate_cost(run)
  <2>1. [j \in DOMAIN new |-> new[j].cost] = [j \in DOMAIN run |-> run[j].cost]
    BY <1>4, <1>6
  <2>2. (\E j \in DOMAIN new : new[j].cost = NoCost) <=> \E j \in DOMAIN run : run[j].cost = NoCost
    BY <1>4, <1>6
  <2> QED BY <2>1, <2>2 DEF _aggregate_cost
<1>11. PassedIn(run) <= PassedIn(new)
  <2> DEFINE outs == RunOutcomes(run)
             P == With(outs, "passed")
             Q == With(RunOutcomes(new), "passed")
  <2>1. outs[i] = run[i].outcome /\ i \in DOMAIN outs
    BY DEF RunOutcomes
  <2>2. P \subseteq Q
    <3>1. outs \in Seq(CaseOutcomes) /\ i \in DOMAIN outs /\ o \in Better[outs[i]]
      BY <1>1, <2>1
    <3>2. Q = With([outs EXCEPT ![i] = o], "passed")
      BY <1>8
    <3> HIDE DEF outs
    <3> QED BY <3>1, <3>2, ImprovedCounts
  <2>3. RunOutcomes(new) \in Seq(CaseOutcomes)
    BY <1>7, RunFacts
  <2>4. IsFiniteSet(Q)
    BY <2>3, CountOf
  <2>5. Cardinality(P) = PassedIn(run) /\ Cardinality(Q) = PassedIn(new)
    BY <1>7, PassRate DEF _pass_rate
  <2> HIDE DEF P, Q
  <2> QED BY <2>2, <2>4, <2>5, FS_Subset
<1> QED BY <1>5, <1>7, <1>8, <1>9, <1>10, <1>11 DEF new

\* With more passed cases the rate falls by less.
LEMMA DropImproves ==
  ASSUME NEW t \in Nat, NEW p \in Nat, NEW l \in Nat, NEW m \in Nat,
         NEW q \in Nat, NEW r \in Nat, q <= r,
         Scale * p * m <= l * (t * m + Scale * q)
  PROVE  Scale * p * m <= l * (t * m + Scale * r)
<1>1. PICK k \in Nat : r = q + k
  <2>1. r - q \in Nat /\ r = q + (r - q)
    OBVIOUS
  <2> QED BY <2>1
<1>2. l * (t * m + Scale * r) = l * (t * m + Scale * q) + l * (Scale * k)
  BY <1>1, ScaleAssumption
<1>3. l * (Scale * k) \in Nat /\ l * (t * m + Scale * q) \in Int /\ Scale * p * m \in Int
  BY ScaleAssumption
<1> DEFINE a == Scale * p * m
           b == l * (t * m + Scale * q)
           c == l * (Scale * k)
<1>4. a <= b /\ a \in Int /\ b \in Int /\ c \in Nat
  BY <1>3
<1>5. a <= b + c
  <2> HIDE DEF a, b, c
  <2> QED BY <1>4
<1> QED BY <1>2, <1>5

----------------------------------------------------------------------------
(* Theorems *)

\* The inputs keep their types and the gate has one of its outcomes.
THEOREM TypeCorrect == Spec => []TypeOK
<1>1. Inv => TypeOK
  BY DEF Inv
<1> QED BY <1>1, InvHolds, PTL

\* A passing gate excludes a regression beyond the limits, however the floating
\* point divisions of comparison.py are rounded.
THEOREM NoRegressionPasses == Spec => []RegressionNeverPasses
<1>1. ASSUME Inv, gate = "pass"
      PROVE  /\ compatible.configuration /\ compatible.dataset
             /\ DropWithin(limits.drop, candidate, baseline)
             /\ Within(limits.latency, "latency")
             /\ limits.cost # Unset =>
                  /\ \A run \in {candidate, baseline} : \A i \in DOMAIN run : run[i].cost # NoCost
                  /\ Within(limits.cost, "cost")
  <2>1. PICK up \in Roundings : Decision(candidate, baseline, up) = "pass"
    BY <1>1 DEF Inv, GateInv, Decided
  <2> DEFINE rules == _baseline_drop_rules(candidate, baseline, up)
             b == _aggregate_latency(baseline)
             c == _aggregate_latency(candidate)
             u == "drop" \in up
             v == "latency" \in up
             w == "cost" \in up
  <2>2. "insufficient_evidence" \notin rules /\ "violated" \notin rules
    BY <2>1 DEF Decision, GateOutcome
  <2>3. compatible.configuration /\ compatible.dataset
    BY <2>2 DEF _baseline_drop_rules
  <2>4. /\ limits.drop \in 0..Scale /\ limits.latency \in Nat \cup {Unset}
        /\ limits.cost \in Nat \cup {Unset}
        /\ candidate \in AnyRun /\ baseline \in AnyRun
    BY <1>1, StateFacts
  <2>5. LET drop == _eval_drop_rule(limits.drop, Scale, pass_rate_drop(candidate, baseline),
                                    u)
            latency == _eval_drop_rule(limits.latency, 1, _pct_change(b, c), v)
            cost == _eval_drop_rule(limits.cost, 1, cost_increase_pct(candidate, baseline),
                                    w)
        IN  {drop, latency, cost} \cap {"insufficient_evidence", "violated"} = {}
    BY <2>2, <2>3, DropRules
  <2>6. u \in BOOLEAN /\ v \in BOOLEAN /\ w \in BOOLEAN
    OBVIOUS
  <2> HIDE DEF u, v, w
  <2>7. DropWithin(limits.drop, candidate, baseline)
    <3>1. _eval_drop_rule(limits.drop, Scale, pass_rate_drop(candidate, baseline), u)
            # "violated" => DropWithin(limits.drop, candidate, baseline)
      BY <2>4, <2>6, DropRule
    <3> QED BY <2>5, <3>1
  <2>8. Within(limits.latency, "latency")
    <3>1. b \in Nat /\ c \in Nat
      BY <2>4, LatencyType
    <3> HIDE DEF b, c
    <3>2. limits.latency # Unset => b = 0 \/ c * 100 <= (100 + limits.latency) * b
      <4>1. _eval_drop_rule(limits.latency, 1, _pct_change(b, c), v) # "violated"
              /\ limits.latency # Unset
                => b = 0 \/ c * 100 <= (100 + limits.latency) * b
        BY <2>4, <2>6, <3>1, IncreaseRule
      <4> QED BY <2>5, <4>1
    <3> QED BY <3>2 DEF Within, _aggregate_latency, b, c
  <2>9. ASSUME limits.cost # Unset
        PROVE  /\ \A run \in {candidate, baseline} : \A i \in DOMAIN run : run[i].cost # NoCost
               /\ Within(limits.cost, "cost")
    <3> DEFINE status == _eval_drop_rule(limits.cost, 1,
                                        cost_increase_pct(candidate, baseline), w)
               known == \A run \in {candidate, baseline} :
                          \A i \in DOMAIN run : run[i].cost # NoCost
    <3>1. /\ ~known => status = "insufficient_evidence"
          /\ known /\ status # "violated" => Within(limits.cost, "cost")
      BY <2>4, <2>6, <2>9, CostRule DEF Within
    <3> QED BY <2>5, <3>1
  <2> QED BY <2>3, <2>7, <2>8, <2>9
<1>2. Inv => RegressionNeverPasses
  BY <1>1 DEF RegressionNeverPasses, DropWithin
<1> QED BY <1>2, InvHolds, PTL

\* A candidate equal to its baseline is decided as if there were no baseline,
\* whatever the limits.
THEOREM NoFalseAlarm == Spec => []UnchangedIsNoAlarm
<1>1. ASSUME Inv, Decided, candidate = baseline,
             compatible = [configuration |-> TRUE, dataset |-> TRUE],
             limits.cost = Unset \/ \A i \in DOMAIN baseline : baseline[i].cost # NoCost
      PROVE  gate = Decide(policy, RunOutcomes(candidate))
  <2>1. PICK up \in Roundings : gate = Decision(candidate, baseline, up)
    BY <1>1 DEF Inv, GateInv, Decided
  <2> DEFINE rules == _baseline_drop_rules(candidate, baseline, up)
             b == _aggregate_latency(baseline)
             u == "drop" \in up
             v == "latency" \in up
             w == "cost" \in up
  <2>2. u \in BOOLEAN /\ v \in BOOLEAN /\ w \in BOOLEAN
    OBVIOUS
  <2> HIDE DEF u, v, w
  <2>3. compatible.configuration /\ compatible.dataset
    BY <1>1
  <2>4. /\ limits.drop \in 0..Scale /\ limits.latency \in Nat \cup {Unset}
        /\ limits.cost \in Nat \cup {Unset} /\ baseline \in AnyRun
    BY <1>1, StateFacts
  <2>5. _eval_drop_rule(limits.drop, Scale, pass_rate_drop(baseline, baseline), u)
          \in {"not_applicable", "passed"}
    BY <2>2, <2>4, DropRule
  <2>6. _eval_drop_rule(limits.latency, 1, _pct_change(b, b), v)
          \in {"not_applicable", "passed"}
    <3>1. b \in Nat
      BY <2>4, LatencyType
    <3> HIDE DEF b
    <3>2. LET status == _eval_drop_rule(limits.latency, 1, _pct_change(b, b), v) IN
          status \in {"not_applicable", "passed", "violated"} /\ status # "violated"
      BY <2>2, <2>4, <3>1, IncreaseRule
    <3> QED BY <3>2
  <2>7. _eval_drop_rule(limits.cost, 1, cost_increase_pct(baseline, baseline), w)
          \in {"not_applicable", "passed"}
    <3>1. CASE limits.cost = Unset
      BY <3>1 DEF _eval_drop_rule
    <3>2. CASE \A i \in DOMAIN baseline : baseline[i].cost # NoCost
      <4> DEFINE c == _aggregate_cost(baseline)
      <4>1. c \in Nat /\ cost_increase_pct(baseline, baseline) = _pct_change(c, c)
        BY <2>4, <3>2, CostKnown DEF cost_increase_pct
      <4> HIDE DEF c
      <4>2. LET status == _eval_drop_rule(limits.cost, 1, _pct_change(c, c), w) IN
            status \in {"not_applicable", "passed", "violated"} /\ status # "violated"
        BY <2>2, <2>4, <4>1, IncreaseRule
      <4> QED BY <4>1, <4>2
    <3> QED BY <1>1, <3>1, <3>2
  <2>8. rules \subseteq {"not_applicable", "passed"}
    BY <1>1, <2>3, <2>5, <2>6, <2>7, DropRules DEF u, v, w
  <2> HIDE DEF rules
  <2> QED BY <2>1, <2>8 DEF Decision, Decide, GateOutcome, rules
<1>2. Inv => UnchangedIsNoAlarm
  BY <1>1 DEF UnchangedIsNoAlarm
<1> QED BY <1>2, InvHolds, PTL

\* Improving a case of the candidate never worsens the decision: the fixed
\* rules are monotone, the pass rate falls by less, and latency and cost stay.
LEMMA CandidateImproves ==
  ASSUME Inv, Decided, NEW i \in DOMAIN candidate, NEW o \in Better[candidate[i].outcome]
  PROVE  \E up \in Roundings :
           Rank[Decision([candidate EXCEPT ![i].outcome = o], baseline, up)] >= Rank[gate]
<1>1. PICK up \in Roundings : gate = Decision(candidate, baseline, up)
  BY DEF Inv, GateInv, Decided
<1> DEFINE new == [candidate EXCEPT ![i].outcome = o]
           down == up \ {"drop"}
           outs == RunOutcomes(candidate)
           R == Rules(policy, outs)
           S == Rules(policy, RunOutcomes(new))
           D == _baseline_drop_rules(candidate, baseline, up)
           E == _baseline_drop_rules(new, baseline, down)
<1>2. /\ limits.drop \in 0..Scale /\ candidate \in AnyRun /\ baseline \in AnyRun
      /\ policy \in Policies
      /\ compatible.configuration \in BOOLEAN /\ compatible.dataset \in BOOLEAN
  BY StateFacts
<1>3. /\ new \in AnyRun /\ Len(new) = Len(candidate)
      /\ RunOutcomes(new) = [outs EXCEPT ![i] = o]
      /\ _aggregate_latency(new) = _aggregate_latency(candidate)
      /\ _aggregate_cost(new) = _aggregate_cost(candidate)
      /\ PassedIn(candidate) <= PassedIn(new)
  BY <1>2, ImprovedRun
<1> HIDE DEF new
<1>4. /\ "insufficient_evidence" \in S => "insufficient_evidence" \in R
      /\ "violated" \in S => "violated" \in R \/ "insufficient_evidence" \in R
  <2>1. /\ outs \in Seq(CaseOutcomes) /\ i \in DOMAIN outs /\ o \in Better[outs[i]]
    BY <1>2, RunFacts DEF RunOutcomes
  <2> HIDE DEF outs
  <2> QED BY <1>2, <1>3, <2>1, RulesImprove
<1>5. /\ "insufficient_evidence" \in E => "insufficient_evidence" \in D
      /\ "violated" \in E => "violated" \in D
  <2>1. CASE ~compatible.configuration \/ ~compatible.dataset
    BY <2>1 DEF _baseline_drop_rules
  <2>2. CASE compatible.configuration /\ compatible.dataset
    <3> DEFINE u == "drop" \in up
               drop == _eval_drop_rule(limits.drop, Scale,
                                       pass_rate_drop(candidate, baseline), u)
               dropNew == _eval_drop_rule(limits.drop, Scale,
                                          pass_rate_drop(new, baseline), FALSE)
               latency == _eval_drop_rule(limits.latency, 1,
                            _pct_change(_aggregate_latency(baseline),
                                        _aggregate_latency(candidate)), "latency" \in up)
               cost == _eval_drop_rule(limits.cost, 1,
                         cost_increase_pct(candidate, baseline), "cost" \in up)
    <3>1. D = {drop, latency, cost}
      BY <2>2, DropRules
    <3>2. E = {dropNew, latency, cost}
      <4>1. cost_increase_pct(new, baseline) = cost_increase_pct(candidate, baseline)
        BY <1>3 DEF cost_increase_pct
      <4>2. /\ ("drop" \in down) = FALSE /\ ("latency" \in down) = ("latency" \in up)
            /\ ("cost" \in down) = ("cost" \in up)
        OBVIOUS
      <4>3. E = {_eval_drop_rule(limits.drop, Scale, pass_rate_drop(new, baseline),
                                 "drop" \in down),
                 _eval_drop_rule(limits.latency, 1,
                   _pct_change(_aggregate_latency(baseline), _aggregate_latency(new)),
                   "latency" \in down),
                 _eval_drop_rule(limits.cost, 1, cost_increase_pct(new, baseline),
                   "cost" \in down)}
        BY <2>2, DropRules
      <4> HIDE DEF down
      <4> QED BY <1>3, <4>1, <4>2, <4>3
    <3>3. u \in BOOLEAN
      OBVIOUS
    <3>4. drop # "violated" => DropWithin(limits.drop, candidate, baseline)
      <4> HIDE DEF u
      <4> QED BY <1>2, <3>3, DropRule
    <3>5. DropWithin(limits.drop, candidate, baseline) => DropWithin(limits.drop, new, baseline)
      <4>1. /\ Len(candidate) \in Nat /\ Len(baseline) \in Nat /\ PassedIn(baseline) \in Nat
            /\ PassedIn(candidate) \in Nat /\ PassedIn(new) \in Nat /\ limits.drop \in Nat
        BY <1>2, <1>3, RunFacts, PassRate, ScaleAssumption
      <4> QED BY <1>3, <4>1, DropImproves DEF DropWithin
    <3>6. /\ dropNew \in {"not_applicable", "passed", "violated"}
          /\ DropWithin(limits.drop, new, baseline) => dropNew # "violated"
      <4> DEFINE no == FALSE
      <4>1. no \in BOOLEAN /\ ~no
        OBVIOUS
      <4>2. dropNew = _eval_drop_rule(limits.drop, Scale, pass_rate_drop(new, baseline), no)
        OBVIOUS
      <4> HIDE DEF no, dropNew
      <4> QED BY <1>2, <1>3, <4>1, <4>2, DropRule
    <3>7. dropNew # "insufficient_evidence" /\ (dropNew = "violated" => drop = "violated")
      BY <3>4, <3>5, <3>6
    <3> HIDE DEF drop, dropNew, latency, cost
    <3> QED BY <3>1, <3>2, <3>7
  <2> QED BY <1>2, <2>1, <2>2
<1> HIDE DEF R, S, D, E
<1>6. Rank[GateOutcome(S \cup E)] >= Rank[GateOutcome(R \cup D)]
  BY <1>4, <1>5, GateRank
<1>7. Rank[Decision(new, baseline, down)] >= Rank[gate] /\ down \in Roundings
  BY <1>1, <1>6 DEF Decision, Roundings, R, S, D, E
<1> QED BY <1>7 DEF new

\* What passes beside a better baseline passes beside the worse one: the drop is
\* the same, or smaller and then exact or below the limit.
LEMMA BaselineDrop ==
  ASSUME NEW t \in 0..Scale, NEW cand \in AnyRun, NEW base \in AnyRun, NEW new \in AnyRun,
         NEW up \in BOOLEAN, Len(new) = Len(base), PassedIn(base) <= PassedIn(new),
         _eval_drop_rule(t, Scale, pass_rate_drop(cand, base), up) = "violated"
  PROVE  _eval_drop_rule(t, Scale, pass_rate_drop(cand, new), up) = "violated"
<1> DEFINE p == PassedIn(base)
           r == PassedIn(new)
           l == Len(base)
           q == PassedIn(cand)
           m == Len(cand)
           n == p * m - q * l
           k == r * m - q * l
           num == IF n > 0 THEN n ELSE 0
           kum == IF k > 0 THEN k ELSE 0
           exact == n <= 0 \/ q = 0 \/ (Dyadic(q, m) /\ Dyadic(p, l))
           kexact == k <= 0 \/ q = 0 \/ (Dyadic(q, m) /\ Dyadic(r, l))
           d == l * m
           status == _eval_drop_rule(t, Scale, pass_rate_drop(cand, base), up)
           kstatus == _eval_drop_rule(t, Scale, pass_rate_drop(cand, new), up)
<1>1. p \in Nat /\ q \in Nat /\ r \in Nat /\ l \in Nat \ {0} /\ m \in Nat \ {0}
  BY RunFacts, PassRate
<1>2. /\ pass_rate_drop(cand, base) = Positive(n, d, exact)
      /\ pass_rate_drop(cand, new) = Positive(k, d, kexact)
  BY PassRate DEF pass_rate_drop
<1>3. /\ n \in Int /\ k \in Int /\ d \in Nat /\ d # 0
      /\ exact \in BOOLEAN /\ kexact \in BOOLEAN
  BY <1>1
<1>4. t \in Nat /\ t # Unset /\ t \in Nat \cup {Unset} /\ Scale \in Nat /\ Scale > 0
  BY ScaleAssumption, UnsetAssumption
<1>5. CASE p = r
  BY <1>2, <1>5
<1>6. CASE p # r
  <2>1. n < k
    <3>1. r - p \in Nat /\ r - p >= 1
      BY <1>1, <1>6
    <3>2. k - n = (r - p) * m
      BY <1>1
    <3>3. (r - p) * m >= 1
      BY <1>1, <3>1
    <3> HIDE DEF n, k
    <3> QED BY <1>3, <3>2, <3>3
  <2>2. n <= 0 => exact
    OBVIOUS
  <2> HIDE DEF n, k, exact, kexact, d, status, kstatus
  <2>3. /\ num * Scale < t * d => status # "violated"
        /\ num * Scale <= t * d /\ exact => status # "violated"
    BY <1>2, <1>3, <1>4, RuleMeaning DEF status
  <2>4. /\ kstatus # "violated" => kum * Scale <= t * d
        /\ kstatus \in {"not_applicable", "passed", "violated"}
    BY <1>2, <1>3, <1>4, RuleMeaning DEF kstatus
  <2>5. ASSUME kstatus # "violated" PROVE FALSE
    <3>1. kum * Scale <= t * d /\ t * d \in Nat
      BY <1>3, <1>4, <2>4, <2>5
    <3>2. CASE n > 0
      <4>1. num = n /\ kum = k
        BY <1>3, <2>1, <3>2
      <4>2. n * Scale < k * Scale /\ n * Scale \in Int /\ k * Scale \in Int
        BY <1>3, <1>4, <2>1
      <4>3. n * Scale < t * d
        BY <3>1, <4>1, <4>2
      <4> QED BY <2>3, <4>1, <4>3 DEF status
    <3>3. CASE ~(n > 0)
      <4>1. num * Scale <= t * d /\ exact
        BY <1>3, <1>4, <2>2, <3>1, <3>3
      <4> QED BY <2>3, <4>1 DEF status
    <3> QED BY <3>2, <3>3
  <2> QED BY <2>5 DEF kstatus
<1> QED BY <1>5, <1>6

\* Improving a case of the baseline never makes the decision better, with the
\* same rounding.
LEMMA BaselineImproves ==
  ASSUME Inv, Decided, NEW i \in DOMAIN baseline, NEW o \in Better[baseline[i].outcome]
  PROVE  \E up \in Roundings :
           Rank[gate] >= Rank[Decision(candidate, [baseline EXCEPT ![i].outcome = o], up)]
<1>1. PICK up \in Roundings : gate = Decision(candidate, baseline, up)
  BY DEF Inv, GateInv
<1> DEFINE new == [baseline EXCEPT ![i].outcome = o]
           R == Rules(policy, RunOutcomes(candidate))
           D == _baseline_drop_rules(candidate, baseline, up)
           E == _baseline_drop_rules(candidate, new, up)
<1>2. /\ limits.drop \in 0..Scale /\ candidate \in AnyRun /\ baseline \in AnyRun
      /\ compatible.configuration \in BOOLEAN /\ compatible.dataset \in BOOLEAN
  BY StateFacts
<1>3. /\ new \in AnyRun /\ Len(new) = Len(baseline)
      /\ _aggregate_latency(new) = _aggregate_latency(baseline)
      /\ _aggregate_cost(new) = _aggregate_cost(baseline)
      /\ PassedIn(baseline) <= PassedIn(new)
  BY <1>2, ImprovedRun
<1> HIDE DEF new
<1>4. /\ "insufficient_evidence" \in D => "insufficient_evidence" \in E
      /\ "violated" \in D => "violated" \in E
  <2>1. CASE ~compatible.configuration \/ ~compatible.dataset
    BY <2>1 DEF _baseline_drop_rules
  <2>2. CASE compatible.configuration /\ compatible.dataset
    <3> DEFINE u == "drop" \in up
               drop == _eval_drop_rule(limits.drop, Scale,
                                       pass_rate_drop(candidate, baseline), u)
               dropNew == _eval_drop_rule(limits.drop, Scale,
                                          pass_rate_drop(candidate, new), u)
               latency == _eval_drop_rule(limits.latency, 1,
                            _pct_change(_aggregate_latency(baseline),
                                        _aggregate_latency(candidate)), "latency" \in up)
               cost == _eval_drop_rule(limits.cost, 1,
                         cost_increase_pct(candidate, baseline), "cost" \in up)
    <3>1. D = {drop, latency, cost}
      BY <2>2, DropRules
    <3>2. cost_increase_pct(candidate, new) = cost_increase_pct(candidate, baseline)
      BY <1>3 DEF cost_increase_pct
    <3>3. E = {dropNew, latency, cost}
      BY <1>3, <2>2, <3>2, DropRules
    <3>4. u \in BOOLEAN
      OBVIOUS
    <3> HIDE DEF u
    <3>5. drop = "violated" => dropNew = "violated"
      BY <1>2, <1>3, <3>4, BaselineDrop
    <3>6. drop \in {"not_applicable", "passed", "violated"}
      BY <1>2, <3>4, DropRule
    <3> HIDE DEF drop, dropNew, latency, cost
    <3> QED BY <3>1, <3>3, <3>5, <3>6
  <2> QED BY <1>2, <2>1, <2>2
<1> HIDE DEF R, D, E
<1>5. Rank[GateOutcome(R \cup D)] >= Rank[GateOutcome(R \cup E)]
  BY <1>4, GateRank
<1>6. Rank[gate] >= Rank[Decision(candidate, new, up)]
  BY <1>1, <1>5 DEF Decision, R, D, E
<1> QED BY <1>1, <1>6 DEF new

\* The gate is monotone in the outcomes of the candidate and, the other way
\* round, in those of the baseline, for runs of any length and every limit.
THEOREM MonotoneTheorem == Spec => []MonotoneInBothRuns
<1>1. Inv => MonotoneInBothRuns
  BY CandidateImproves, BaselineImproves DEF MonotoneInBothRuns
<1> QED BY <1>1, InvHolds, PTL
=============================================================================
