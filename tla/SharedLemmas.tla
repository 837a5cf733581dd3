---------------------------- MODULE SharedLemmas ----------------------------
(***************************************************************************)
(* Facts that several proofs need: induction over natural numbers, sums of *)
(* sequences, and the rules of the gate.                                   *)
(***************************************************************************)
EXTENDS GatePolicy, Sums, Integers, FiniteSetTheorems, WellFoundedInduction,
        SequenceTheorems, TLAPS

\* Every non-empty set of natural numbers has a least element.
LEMMA LeastNumber ==
  ASSUME NEW T \in SUBSET Nat, T # {}
  PROVE  \E m \in T : \A k \in T : m <= k
<1> DEFINE R == OpToRel(<, Nat)
<1>1. IsWellFoundedOn(R, Nat)
  BY NatLessThanWellFounded, Zenon
<1>2. \A x, y \in Nat : x < y => <<x, y>> \in R
  BY DEF OpToRel
<1> HIDE DEF R
<1>3. PICK m \in T : \A y \in T : ~(<<y, m>> \in R)
  BY <1>1, WFMin
<1>4. ASSUME NEW k \in T PROVE m <= k
  <2>1. k \in Nat /\ m \in Nat /\ ~(k < m)
    BY <1>2, <1>3
  <2> QED BY <2>1
<1> QED BY <1>4

\* Induction over the natural numbers up to n.
LEMMA Induction ==
  ASSUME NEW n \in Nat, NEW S, 0 \in S, \A i \in 1..n : i - 1 \in S => i \in S
  PROVE  0..n \subseteq S
<1> DEFINE T == (0..n) \ S
<1> SUFFICES ASSUME T # {} PROVE FALSE
  OBVIOUS
<1>1. T \in SUBSET Nat
  OBVIOUS
<1>2. PICK m \in T : \A k \in T : m <= k
  <2> HIDE DEF T
  <2> QED BY <1>1, LeastNumber
<1>3. m \in 1..n /\ m - 1 \in 0..n /\ m - 1 < m
  BY <1>2
<1>4. m - 1 \in S
  BY <1>2, <1>3
<1> QED BY <1>2, <1>3, <1>4

\* The recursive definition of sums defines something, ...
LEMMA RecursionExists ==
  ASSUME NEW n \in Nat, NEW c \in [1..n -> Nat]
  PROVE  \E f : f = [i \in 0..n |-> IF i = 0 THEN 0 ELSE f[i - 1] + c[i]]
<1> DEFINE Good(f, k) == /\ f \in [0..k -> Nat] /\ f[0] = 0
                         /\ \A i \in 1..k : f[i] = f[i - 1] + c[i]
           S == {k \in 0..n : \E f : Good(f, k)}
<1>1. 0 \in S
  <2>1. Good([i \in 0..0 |-> 0], 0)
    OBVIOUS
  <2> HIDE DEF Good
  <2> QED BY <2>1
<1>2. ASSUME NEW k \in 1..n, k - 1 \in S PROVE k \in S
  <2>1. PICK g : Good(g, k - 1)
    BY <1>2
  <2> DEFINE f == [i \in 0..k |-> IF i = k THEN g[k - 1] + c[k] ELSE g[i]]
  <2>2. f \in [0..k -> Nat]
    BY <2>1
  <2>3. f[0] = 0
    BY <2>1
  <2>4. ASSUME NEW i \in 1..k PROVE f[i] = f[i - 1] + c[i]
    <3>1. i - 1 \in 0..k /\ i - 1 # k /\ k \in 0..k /\ i \in 0..k
      OBVIOUS
    <3>2. f[i - 1] = g[i - 1]
      BY <3>1
    <3>3. CASE i = k
      BY <3>1, <3>2, <3>3
    <3>4. CASE i # k
      <4>1. i \in 1..(k - 1)
        BY <3>4
      <4>2. g[i] = g[i - 1] + c[i]
        BY <2>1, <4>1
      <4> QED BY <3>1, <3>2, <3>4, <4>2
    <3> QED BY <3>3, <3>4
  <2>5. Good(f, k)
    BY <2>2, <2>3, <2>4
  <2> HIDE DEF Good, f
  <2> QED BY <2>5
<1>3. n \in S
  <2> HIDE DEF S
  <2>1. 0..n \subseteq S
    BY <1>1, <1>2, Induction, Zenon
  <2> QED BY <2>1
<1>4. PICK f : Good(f, n)
  BY <1>3
<1>5. f = [i \in 0..n |-> IF i = 0 THEN 0 ELSE f[i - 1] + c[i]]
  BY <1>4
<1> QED BY <1>5

\* ... namely natural numbers that grow by one summand at a time.
LEMMA RecursionMeaning ==
  ASSUME NEW n \in Nat, NEW c \in [1..n -> Nat], NEW f,
         f = [i \in 0..n |-> IF i = 0 THEN 0 ELSE f[i - 1] + c[i]]
  PROVE  /\ f[0] = 0
         /\ \A i \in 1..n : f[i] = f[i - 1] + c[i]
         /\ \A i \in 0..n : f[i] \in Nat
<1> DEFINE S == {i \in 0..n : f[i] \in Nat}
<1>1. f[0] = 0
  OBVIOUS
<1>2. ASSUME NEW i \in 1..n PROVE f[i] = f[i - 1] + c[i]
  <2>1. i \in 0..n /\ i # 0
    OBVIOUS
  <2> QED BY <2>1
<1>3. 0 \in S /\ \A i \in 1..n : i - 1 \in S => i \in S
  BY <1>1, <1>2
<1>4. 0..n \subseteq S
  <2> HIDE DEF S
  <2> QED BY <1>3, Induction, Zenon
<1> QED BY <1>1, <1>2, <1>4

\* What PartialSums computes.
LEMMA SumsProperties ==
  ASSUME NEW c \in Seq(Nat)
  PROVE  /\ PartialSums(c)[0] = 0
         /\ \A i \in 1..Len(c) : PartialSums(c)[i] = PartialSums(c)[i - 1] + c[i]
         /\ \A i \in 0..Len(c) : PartialSums(c)[i] \in Nat
<1> DEFINE n == Len(c)
           Rec(f) == f = [i \in 0..n |-> IF i = 0 THEN 0 ELSE f[i - 1] + c[i]]
<1>1. n \in Nat /\ c \in [1..n -> Nat]
  OBVIOUS
<1>2. PartialSums(c) = CHOOSE f : Rec(f)
  BY DEF PartialSums
<1> HIDE DEF n
<1>3. \E f : Rec(f)
  BY <1>1, RecursionExists
<1>4. Rec(PartialSums(c))
  <2> HIDE DEF Rec
  <2> QED BY <1>2, <1>3, Zenon
<1>5. /\ PartialSums(c)[0] = 0
      /\ \A i \in 1..n : PartialSums(c)[i] = PartialSums(c)[i - 1] + c[i]
      /\ \A i \in 0..n : PartialSums(c)[i] \in Nat
  BY <1>1, <1>4, RecursionMeaning
<1> QED BY <1>5 DEF n

\* An element at the end leaves the sums before it alone.
LEMMA SumsOfAppend ==
  ASSUME NEW c \in Seq(Nat), NEW x \in Nat
  PROVE  /\ \A i \in 0..Len(c) : PartialSums(Append(c, x))[i] = PartialSums(c)[i]
         /\ PartialSums(Append(c, x))[Len(c) + 1] = PartialSums(c)[Len(c)] + x
<1> DEFINE d == Append(c, x)
           f == PartialSums(c)
           g == PartialSums(d)
           S == {i \in 0..Len(c) : g[i] = f[i]}
<1>1. /\ d \in Seq(Nat) /\ Len(d) = Len(c) + 1 /\ d[Len(c) + 1] = x
      /\ \A i \in 1..Len(c) : d[i] = c[i]
  BY AppendProperties
<1>2. f[0] = 0 /\ \A i \in 1..Len(c) : f[i] = f[i - 1] + c[i]
  BY SumsProperties
<1> HIDE DEF d
<1>3. g[0] = 0 /\ \A i \in 1..Len(d) : g[i] = g[i - 1] + d[i]
  BY <1>1, SumsProperties
<1> HIDE DEF f, g
<1>4. 0 \in S /\ \A i \in 1..Len(c) : i - 1 \in S => i \in S
  BY <1>1, <1>2, <1>3
<1>5. 0..Len(c) \subseteq S
  <2> HIDE DEF S
  <2>1. Len(c) \in Nat
    OBVIOUS
  <2> QED BY <1>4, <2>1, Induction, Zenon
<1>6. \A i \in 0..Len(c) : g[i] = f[i]
  BY <1>5
<1>7. g[Len(c) + 1] = f[Len(c)] + x
  BY <1>1, <1>3, <1>6
<1> QED BY <1>6, <1>7 DEF d, f, g
----------------------------------------------------------------------------
(* The gate *)

\* The cases with a given outcome can be counted.
LEMMA CountOf ==
  ASSUME NEW outcomes \in Seq(CaseOutcomes), NEW o
  PROVE  /\ IsFiniteSet(With(outcomes, o))
         /\ Cardinality(With(outcomes, o)) \in 0..Len(outcomes)
<1>1. Len(outcomes) \in Nat /\ DOMAIN outcomes = 1..Len(outcomes)
  OBVIOUS
<1>2. IsFiniteSet(1..Len(outcomes)) /\ Cardinality(1..Len(outcomes)) = Len(outcomes)
  BY <1>1, FS_Interval
<1>3. With(outcomes, o) \subseteq 1..Len(outcomes)
  BY <1>1 DEF With
<1>4. IsFiniteSet(With(outcomes, o)) /\ Cardinality(With(outcomes, o)) <= Len(outcomes)
  BY <1>2, <1>3, FS_Subset
<1> QED BY <1>1, <1>4, FS_CardinalityType

\* What the two ways to miss a rule say of the outcomes.
LEMMA RulesMeaning ==
  ASSUME NEW p, NEW outcomes
  PROVE  /\ Rules(p, outcomes) \subseteq {"passed", "insufficient_evidence", "violated"}
         /\ "insufficient_evidence" \in Rules(p, outcomes) <=>
              \/ ~AtMost(Cardinality(With(outcomes, "error")), Len(outcomes),
                         p.maximum_error_rate)
              \/ With(outcomes, "error") \cap Critical # {}
         /\ "violated" \in Rules(p, outcomes) <=>
              \/ ~AtLeast(Cardinality(With(outcomes, "passed")), Len(outcomes),
                          p.minimum_pass_rate)
              \/ ~(~p.critical_cases_must_pass \/ With(outcomes, "failed") \cap Critical = {})
BY DEF Rules

\* A case that comes out better leaves the errors and gives to the passed.
LEMMA ImprovedCounts ==
  ASSUME NEW outcomes \in Seq(CaseOutcomes), NEW i \in DOMAIN outcomes,
         NEW o \in Better[outcomes[i]]
  PROVE  LET new == [outcomes EXCEPT ![i] = o] IN
         /\ new \in Seq(CaseOutcomes) /\ Len(new) = Len(outcomes)
         /\ With(new, "error") \subseteq With(outcomes, "error")
         /\ With(outcomes, "passed") \subseteq With(new, "passed")
         /\ With(new, "failed") \subseteq With(outcomes, "failed") \cup With(outcomes, "error")
<1> DEFINE new == [outcomes EXCEPT ![i] = o]
<1>1. outcomes[i] \in CaseOutcomes
  OBVIOUS
<1>2. /\ outcomes[i] \in {"failed", "error"} /\ o \in {"failed", "passed"}
      /\ outcomes[i] = "failed" => o = "passed"
  BY <1>1 DEF Better, CaseOutcomes
<1>3. new \in Seq(CaseOutcomes) /\ Len(new) = Len(outcomes)
  BY <1>2 DEF CaseOutcomes
<1>4. /\ DOMAIN new = DOMAIN outcomes /\ new[i] = o
      /\ \A j \in DOMAIN outcomes : j # i => new[j] = outcomes[j]
  OBVIOUS
<1> HIDE DEF new
<1>5. /\ With(new, "error") \subseteq With(outcomes, "error")
      /\ With(outcomes, "passed") \subseteq With(new, "passed")
      /\ With(new, "failed") \subseteq With(outcomes, "failed") \cup With(outcomes, "error")
  BY <1>2, <1>4 DEF With
<1> QED BY <1>3, <1>5 DEF new

\* A smaller count keeps a rate below its limit, a larger one above.
LEMMA RatesMonotone ==
  ASSUME NEW m \in Nat, NEW n \in Nat, m <= n, NEW total \in Nat, NEW t \in Nat
  PROVE  /\ AtMost(n, total, t) => AtMost(m, total, t)
         /\ AtLeast(m, total, t) => AtLeast(n, total, t)
<1> DEFINE x == m * Scale
           y == n * Scale
           z == t * total
<1>1. x \in Nat /\ y \in Nat /\ z \in Nat
  BY ScaleAssumption
<1>2. x <= y
  BY ScaleAssumption
<1>3. (y <= z => x <= z) /\ (x >= z => y >= z)
  <2> HIDE DEF x, y, z
  <2> QED BY <1>1, <1>2
<1> QED BY <1>3 DEF AtMost, AtLeast

\* The rules of the gate are monotone: a better outcome of one case adds no
\* missing evidence, and no violation where there was neither.
LEMMA RulesImprove ==
  ASSUME NEW p \in Policies, NEW outcomes \in Seq(CaseOutcomes),
         NEW i \in DOMAIN outcomes, NEW o \in Better[outcomes[i]]
  PROVE  LET old == Rules(p, outcomes)
             new == Rules(p, [outcomes EXCEPT ![i] = o])
         IN  /\ "insufficient_evidence" \in new => "insufficient_evidence" \in old
             /\ "violated" \in new => "violated" \in old \/ "insufficient_evidence" \in old
<1> DEFINE after == [outcomes EXCEPT ![i] = o]
           E == With(outcomes, "error")
           F == With(after, "error")
           P == With(outcomes, "passed")
           Q == With(after, "passed")
           n == Len(outcomes)
<1>1. /\ after \in Seq(CaseOutcomes) /\ Len(after) = n
      /\ F \subseteq E /\ P \subseteq Q
      /\ With(after, "failed") \subseteq With(outcomes, "failed") \cup E
  BY ImprovedCounts
<1> HIDE DEF after
<1>2. IsFiniteSet(E) /\ Cardinality(E) \in Nat /\ IsFiniteSet(Q) /\ Cardinality(Q) \in Nat
  BY <1>1, CountOf
<1>3. Cardinality(F) \in Nat /\ Cardinality(P) \in Nat
  BY <1>1, CountOf
<1> HIDE DEF E, F, P, Q
<1>4. Cardinality(F) <= Cardinality(E) /\ Cardinality(P) <= Cardinality(Q)
  BY <1>1, <1>2, FS_Subset
<1>5. n \in Nat /\ p.maximum_error_rate \in Nat /\ p.minimum_pass_rate \in Nat
  BY ScaleAssumption DEF Policies
<1>6. AtMost(Cardinality(E), n, p.maximum_error_rate)
        => AtMost(Cardinality(F), n, p.maximum_error_rate)
  BY <1>2, <1>3, <1>4, <1>5, RatesMonotone
<1>7. AtLeast(Cardinality(P), n, p.minimum_pass_rate)
        => AtLeast(Cardinality(Q), n, p.minimum_pass_rate)
  BY <1>2, <1>3, <1>4, <1>5, RatesMonotone
<1>8. "insufficient_evidence" \in Rules(p, after)
        => "insufficient_evidence" \in Rules(p, outcomes)
  BY <1>1, <1>6, RulesMeaning DEF E, F
<1>9. "violated" \in Rules(p, after)
        => "violated" \in Rules(p, outcomes) \/ "insufficient_evidence" \in Rules(p, outcomes)
  BY <1>1, <1>7, RulesMeaning DEF E, P, Q
<1> QED BY <1>8, <1>9 DEF after

\* The gate ranks sets of statuses: what has less evidence missing, and no
\* violation of its own, is decided no worse.
LEMMA GateRank ==
  ASSUME NEW s, NEW t,
         "insufficient_evidence" \in t => "insufficient_evidence" \in s,
         "violated" \in t => "violated" \in s \/ "insufficient_evidence" \in s
  PROVE  Rank[GateOutcome(t)] >= Rank[GateOutcome(s)]
BY DEF Rank, GateOutcome
=============================================================================
