-------------------------- MODULE EvaluationProofs --------------------------
(***************************************************************************)
(* Proofs about one evaluation: its report, its retries, its budget, and   *)
(* what its gate decision stands on.                                       *)
(***************************************************************************)
EXTENDS Evaluation, SharedLemmas

\* Where the loop is, and what it has done by then.  A token found before the
\* next case was set during a call, so that there is a result before it.
LoopInv ==
  /\ Len(results) <= NumCases
  /\ pc = "start" => results = <<>>
  /\ pc \in {"calling", "backoff"} => More /\ ~Exhausted(cost, cap)
  /\ token /\ pc \notin {"calling", "backoff"} => results # <<>>
  /\ broke => pc \in {"decide", "done"}
  /\ pc \in {"decide", "done"} => results # <<>> /\ (~broke => Len(results) = NumCases)
  /\ pc = "backoff" => attempt < MaxRetries

\* The i-th result is what was made of an output, or of its absence.
ResultOK(i, r) ==
  /\ r.required = evaluate_case(Definition[i], r.output # NoOutput, r.output)
  /\ r.provider = "success" <=> r.output # NoOutput
  /\ r.provider = "success" => r.calls > 0
  /\ r.retryable => r.calls = MaxRetries + 1

\* The cost is the sum of the costs of the results.
CostInv == cost = PartialSums(CostsOf(results))[Len(results)]

GateInv == gate = IF pc = "done" THEN Decide(policy, Outcomes(results)) ELSE "none"

Inv ==
  /\ TypeOK /\ LoopInv /\ CostInv /\ GateInv /\ BudgetRespected
  /\ \A i \in DOMAIN results : ResultOK(i, results[i])

----------------------------------------------------------------------------
(* Providers and evaluators *)

\* Every answer has a status, a retry hint and a cost, whatever the exchange.
LEMMA AnswerTypes ==
  ASSUME NEW answer \in ProviderResults
  PROVE  /\ answer.status \in {"success", "error"}
         /\ answer.retryable \in BOOLEAN /\ answer.cost \in Nat
<1>1. ASSUME NEW x \in Exchanges, answer = OpenRouterResult(x)
      PROVE  answer \in {Success(0), Error(TRUE), Error(FALSE)}
  <2>1. _classify_status(x.status) \in BOOLEAN
    BY DEF _classify_status
  <2> QED BY <1>1, <2>1 DEF OpenRouterResult, _normalize
<1>2. answer \in FakeResults =>
        answer \in {Error(TRUE), Error(FALSE)} \cup {Success(c) : c \in Costs}
  BY DEF FakeResults
<1>3. answer \in {Error(TRUE), Error(FALSE)} \cup {Success(c) : c \in Nat}
  BY <1>1, <1>2, CostsAssumption DEF ProviderResults
<1>4. CASE answer = Error(TRUE)
  BY <1>4 DEF Error
<1>5. CASE answer = Error(FALSE)
  BY <1>5 DEF Error
<1>6. CASE \E c \in Nat : answer = Success(c)
  BY <1>6 DEF Success
<1> QED BY <1>3, <1>4, <1>5, <1>6

\* What the status of an evaluator says about the output: a pass decides and
\* meets the assertion; a failure misses it, and decides it unless a schema was
\* to be applied to something that is not JSON.
LEMMA EvaluatorsSound ==
  ASSUME NEW type \in EvaluatorTypes, NEW case, IsCase(case), NEW out, IsOutput(out)
  PROVE  LET s == _EVALUATORS(type, case, out) IN
         /\ s \in {"passed", "failed", "errored"}
         /\ s = "passed" => Decided(type, case, out) /\ Met(type, out)
         /\ s = "failed" => /\ ~Met(type, out)
                            /\ Decided(type, case, out) \/ (type = "json_schema" /\ ~out.json)
<1>1. CASE type = "exact_match"
  BY <1>1 DEF _EVALUATORS, _exact, Text, Verdict, Decided, Met
<1>2. CASE type = "normalized_match"
  BY <1>2 DEF _EVALUATORS, _normalized, Text, Verdict, Decided, Met
<1>3. CASE type = "contains"
  BY <1>3 DEF _EVALUATORS, _contains, Text, Verdict, Decided, Met
<1>4. CASE type = "regex"
  BY <1>4 DEF _EVALUATORS, _regex, Text, Verdict, Decided, Met, IsCase, IsOutput
<1>5. CASE type = "json_valid"
  BY <1>5 DEF _EVALUATORS, _json_valid, Verdict, Decided, Met, IsOutput
<1>6. CASE type = "json_schema"
  BY <1>6 DEF _EVALUATORS, _json_schema, Verdict, Decided, Met, IsCase, IsOutput
<1> QED BY <1>1, <1>2, <1>3, <1>4, <1>5, <1>6 DEF EvaluatorTypes

LEMMA RequiredStatuses ==
  ASSUME NEW case, IsCase(case), NEW out \in Outputs \cup {NoOutput}
  PROVE  evaluate_case(case, out # NoOutput, out) \in SUBSET EvaluationStatuses
<1>1. Required(case) \subseteq EvaluatorTypes
  BY DEF Required, IsCase
<1>2. ASSUME NEW type \in Required(case), out # NoOutput
      PROVE  _EVALUATORS(type, case, out) \in EvaluationStatuses
  <2>1. IsOutput(out)
    BY <1>2, DefinitionAssumption
  <2> QED BY <1>1, <2>1, EvaluatorsSound DEF EvaluationStatuses
<1> QED BY <1>2 DEF evaluate_case, EvaluationStatuses

\* The result of a case is one that its output explains.
LEMMA CaseResultOK ==
  ASSUME NEW i \in 1..NumCases, NEW answer, NEW out \in Outputs \cup {NoOutput},
         answer.status \in {"success", "error"},
         answer.retryable \in BOOLEAN, answer.cost \in Nat,
         out = NoOutput <=> answer.status = "error",
         NEW calls \in 0..(MaxRetries + 1),
         answer.status = "success" => calls > 0,
         answer.retryable => calls = MaxRetries + 1
  PROVE  /\ CaseResult(i, answer, out, calls) \in Results
         /\ ResultOK(i, CaseResult(i, answer, out, calls))
         /\ CaseResult(i, answer, out, calls).cost = answer.cost
         /\ CaseResult(i, answer, out, calls).calls = calls
<1>1. IsCase(Definition[i])
  BY DefinitionAssumption
<1>2. evaluate_case(Definition[i], out # NoOutput, out) \in SUBSET EvaluationStatuses
  BY <1>1, RequiredStatuses
<1>3. CaseResult(i, answer, out, calls) \in Results
  BY <1>2 DEF CaseResult, Results
<1> QED BY <1>3 DEF CaseResult, ResultOK

LEMMA SkippedResultOK ==
  ASSUME NEW i \in 1..NumCases
  PROVE  LET r == CaseResult(i, Error(FALSE), NoOutput, 0) IN
         r \in Results /\ ResultOK(i, r) /\ r.cost = 0 /\ r.calls = 0
<1> DEFINE statuses == evaluate_case(Definition[i], NoOutput # NoOutput, NoOutput)
           r == CaseResult(i, Error(FALSE), NoOutput, 0)
<1>1. IsCase(Definition[i])
  BY DefinitionAssumption
<1>2. statuses \in SUBSET EvaluationStatuses
  BY <1>1, RequiredStatuses
<1>3. r = [provider |-> "error", output |-> NoOutput, required |-> statuses,
           calls |-> 0, retryable |-> FALSE, cost |-> 0]
  BY DEF CaseResult, Error
<1> HIDE DEF r, statuses
<1>4. r \in Results
  BY <1>2, <1>3, RetriesAssumption DEF Results
<1>5. /\ r.provider = "error" /\ r.output = NoOutput /\ r.cost = 0 /\ r.calls = 0
      /\ r.required = statuses
  BY <1>3
<1>6. ~r.retryable
  BY <1>3
<1>7. ResultOK(i, r)
  BY <1>5, <1>6 DEF ResultOK, statuses
<1> QED BY <1>4, <1>5, <1>7 DEF r

----------------------------------------------------------------------------
(* The invariant *)

LEMMA InitInv == Init => Inv
<1> SUFFICES ASSUME Init PROVE Inv
  OBVIOUS
<1>1. TypeOK
  <2>1. attempt \in 0..MaxRetries /\ results \in Seq(Results) /\ cost \in Nat
    BY RetriesAssumption DEF Init
  <2> QED BY <2>1 DEF Init, TypeOK
<1>2. LoopInv
  BY NumCasesAssumption DEF Init, LoopInv
<1>3. CostInv
  <2>1. CostsOf(results) = <<>>
    BY DEF Init, CostsOf
  <2>2. <<>> \in Seq(Nat) /\ Len(<<>>) = 0
    OBVIOUS
  <2>3. PartialSums(<<>>)[0] = 0
    BY <2>2, SumsProperties
  <2> QED BY <2>1, <2>2, <2>3 DEF Init, CostInv
<1> QED BY <1>1, <1>2, <1>3 DEF Init, Inv, GateInv, BudgetRespected

LEMMA CostsOfType ==
  ASSUME NEW rs \in Seq(Results)
  PROVE  /\ CostsOf(rs) \in Seq(Nat) /\ Len(CostsOf(rs)) = Len(rs)
         /\ \A i \in 1..Len(rs) : CostsOf(rs)[i] = rs[i].cost
<1>1. Len(rs) \in Nat /\ DOMAIN rs = 1..Len(rs)
  OBVIOUS
<1>2. \A i \in 1..Len(rs) : rs[i] \in Results
  OBVIOUS
<1>3. \A i \in 1..Len(rs) : rs[i].cost \in Nat
  BY <1>2 DEF Results
<1>4. CostsOf(rs) = [i \in 1..Len(rs) |-> rs[i].cost]
  BY <1>1 DEF CostsOf
<1> QED BY <1>1, <1>3, <1>4

\* One more result, bought within the budget: what is said of the results so
\* far stays true.
LEMMA AppendResult ==
  ASSUME Inv, pc \in {"loop", "calling"}, More, NEW r \in Results,
         ResultOK(Current, r), r.calls > 0 => ~Exhausted(cost, cap),
         results' = Append(results, r), cost' = cost + r.cost,
         UNCHANGED cap
  PROVE  /\ results' \in Seq(Results) /\ Len(results') = Len(results) + 1
         /\ results' # <<>>
         /\ \A i \in DOMAIN results' : ResultOK(i, results'[i])
         /\ cost' \in Nat /\ CostInv' /\ BudgetRespected'
<1> DEFINE c == CostsOf(results)
           n == Len(results)
<1>1. results \in Seq(Results) /\ n \in Nat /\ cost \in Nat
  BY DEF Inv, TypeOK
<1>2. c \in Seq(Nat) /\ Len(c) = n
  BY <1>1, CostsOfType
<1>3. /\ results' \in Seq(Results) /\ Len(results') = n + 1 /\ results'[n + 1] = r
      /\ \A i \in 1..n : results'[i] = results[i]
  BY <1>1, AppendProperties
<1>4. \A i \in 1..(n + 1) : i # n + 1 => i \in 1..n
  BY <1>1
<1>5. \A i \in DOMAIN results' : ResultOK(i, results'[i])
  BY <1>1, <1>3, <1>4 DEF Inv, Current
<1>6. r.cost \in Nat /\ r.calls \in Nat
  BY RetriesAssumption DEF Results
<1>7. CostsOf(results') = Append(c, r.cost)
  <2>1. CostsOf(results') \in Seq(Nat) /\ Len(CostsOf(results')) = n + 1
    BY <1>3, CostsOfType
  <2>2. /\ Append(c, r.cost) \in Seq(Nat) /\ Len(Append(c, r.cost)) = n + 1
        /\ Append(c, r.cost)[n + 1] = r.cost
        /\ \A i \in 1..n : Append(c, r.cost)[i] = c[i]
    BY <1>2, <1>6, AppendProperties
  <2>3. \A i \in 1..(n + 1) : CostsOf(results')[i] = Append(c, r.cost)[i]
    BY <1>1, <1>3, <1>4, <2>2 DEF CostsOf
  <2> QED BY <1>1, <2>1, <2>2, <2>3, SeqEqual
<1> HIDE DEF c, n
<1>8. /\ \A i \in 0..n : PartialSums(CostsOf(results'))[i] = PartialSums(c)[i]
      /\ PartialSums(CostsOf(results'))[n + 1] = PartialSums(c)[n] + r.cost
  BY <1>2, <1>6, <1>7, SumsOfAppend
<1>9. cost = PartialSums(c)[n]
  BY DEF Inv, CostInv, c, n
<1>10. cost' \in Nat /\ CostInv'
  BY <1>1, <1>3, <1>6, <1>8, <1>9 DEF CostInv
<1>11. BudgetRespected'
  <2> SUFFICES ASSUME cap # NoCap, NEW i \in 1..(n + 1), results'[i].calls > 0
               PROVE  PartialSums(CostsOf(results'))[i - 1] < cap
    BY <1>3 DEF BudgetRespected, CostBefore
  <2>1. cap \in Nat
    BY CostsAssumption DEF Inv, TypeOK
  <2>2. CASE i = n + 1
    <3>1. n \in 0..n /\ i - 1 = n
      BY <1>1, <2>2
    <3>2. cost < cap
      BY <1>1, <1>3, <2>1, <2>2 DEF Exhausted
    <3> QED BY <1>8, <1>9, <3>1, <3>2
  <2>3. CASE i \in 1..n
    <3>1. i - 1 \in 0..n
      BY <1>1, <2>3
    <3>2. PartialSums(c)[i - 1] < cap
      BY <1>1, <1>3, <2>3 DEF Inv, BudgetRespected, CostBefore, c, n
    <3> QED BY <1>8, <3>1, <3>2
  <2> QED BY <1>4, <2>2, <2>3
<1>12. results' # <<>>
  BY <1>1, <1>3
<1> QED BY <1>3, <1>5, <1>10, <1>11, <1>12 DEF n

\* A step that leaves the results and their cost alone.
LEMMA SameResults ==
  ASSUME Inv, UNCHANGED <<results, cost, cap>>
  PROVE  /\ CostInv' /\ BudgetRespected'
         /\ \A i \in DOMAIN results' : ResultOK(i, results'[i])
<1>1. PartialSums(CostsOf(results')) = PartialSums(CostsOf(results))
  OBVIOUS
<1> QED BY <1>1 DEF Inv, CostInv, BudgetRespected, CostBefore

LEMMA DecideType == ASSUME NEW p, NEW outcomes PROVE Decide(p, outcomes) \in GateOutcomes
BY DEF Decide, GateOutcome, GateOutcomes

LEMMA StepInv ==
  ASSUME Inv, [Next]_vars
  PROVE  Inv'
<1> USE NumCasesAssumption, RetriesAssumption
<1>0. TypeOK /\ LoopInv /\ GateInv /\ Len(results) \in Nat
  BY DEF Inv, TypeOK
<1>1. CASE Preflight
  <2>1. TypeOK'
    BY <1>0, <1>1 DEF TypeOK, Preflight, specVars
  <2>2. LoopInv' /\ GateInv'
    BY <1>0, <1>1 DEF LoopInv, GateInv, Preflight, specVars, TypeOK
  <2> QED BY <1>1, <2>1, <2>2, SameResults DEF Inv, Preflight, specVars
<1>2. CASE EndLoop
  <2>1. TypeOK'
    BY <1>0, <1>2 DEF TypeOK, EndLoop, specVars
  <2>2. LoopInv' /\ GateInv'
    BY <1>0, <1>2 DEF LoopInv, GateInv, EndLoop, More, specVars, TypeOK
  <2> QED BY <1>2, <2>1, <2>2, SameResults DEF Inv, EndLoop, specVars
<1>3. CASE Break
  <2>1. TypeOK'
    BY <1>0, <1>3 DEF TypeOK, Break, specVars
  <2>2. LoopInv' /\ GateInv'
    BY <1>0, <1>3 DEF LoopInv, GateInv, Break, specVars, TypeOK
  <2> QED BY <1>3, <2>1, <2>2, SameResults DEF Inv, Break, specVars
<1>4. CASE Skip
  <2> DEFINE r == CaseResult(Current, Error(FALSE), NoOutput, 0)
  <2>1. Current \in 1..NumCases
    BY <1>0, <1>4 DEF Skip, More, Current
  <2>2. r \in Results /\ ResultOK(Current, r) /\ r.cost = 0 /\ r.calls = 0
    BY <2>1, SkippedResultOK
  <2> HIDE DEF r
  <2>3. cost' = cost + r.cost
    BY <1>0, <1>4, <2>2 DEF Skip, TypeOK
  <2>4. /\ results' \in Seq(Results) /\ Len(results') = Len(results) + 1
        /\ results' # <<>>
        /\ \A i \in DOMAIN results' : ResultOK(i, results'[i])
        /\ cost' \in Nat /\ CostInv' /\ BudgetRespected'
    <3>1. pc = "loop" /\ More /\ results' = Append(results, r) /\ UNCHANGED cap
      BY <1>4 DEF Skip, specVars, r
    <3> QED BY <2>2, <2>3, <3>1, AppendResult
  <2>5. TypeOK'
    BY <1>0, <1>4, <2>4 DEF TypeOK, Skip, specVars
  <2>6. LoopInv' /\ GateInv'
    <3>1. /\ pc = "loop" /\ pc' = "loop" /\ Len(results) < NumCases
          /\ UNCHANGED <<broke, gate>>
      BY <1>4 DEF Skip, More
    <3> QED BY <1>0, <2>4, <3>1 DEF LoopInv, GateInv
  <2> QED BY <2>4, <2>5, <2>6 DEF Inv
<1>5. CASE Call
  <2>1. TypeOK'
    BY <1>0, <1>5 DEF TypeOK, Call, specVars
  <2>2. LoopInv' /\ GateInv'
    BY <1>0, <1>5 DEF LoopInv, GateInv, Call, More, Exhausted, specVars, TypeOK
  <2> QED BY <1>5, <2>1, <2>2, SameResults DEF Inv, Call, specVars
<1>r. CASE RenderRaises
  <2>1. TypeOK'
    BY <1>0, <1>r DEF TypeOK, RenderRaises, specVars
  <2>2. LoopInv' /\ GateInv'
    BY <1>0, <1>r DEF LoopInv, GateInv, RenderRaises, More, specVars, TypeOK
  <2> QED BY <1>r, <2>1, <2>2, SameResults DEF Inv, RenderRaises, specVars
<1>6. ASSUME NEW answer \in ProviderResults, Backoff(answer)
      PROVE  Inv'
  <2>1. TypeOK'
    BY <1>0, <1>6 DEF TypeOK, Backoff, specVars
  <2>2. LoopInv' /\ GateInv'
    BY <1>0, <1>6 DEF LoopInv, GateInv, Backoff, Retries, More, Exhausted, specVars, TypeOK
  <2> QED BY <1>6, <2>1, <2>2, SameResults DEF Inv, Backoff, specVars
<1>7. ASSUME NEW answer \in ProviderResults, NEW out \in Outputs \cup {NoOutput},
             Receive(answer, out)
      PROVE  Inv'
  <2> DEFINE r == CaseResult(Current, answer, out, attempt + 1)
  <2>1. Current \in 1..NumCases /\ More /\ ~Exhausted(cost, cap) /\ attempt \in 0..MaxRetries
    BY <1>0, <1>7 DEF Receive, More, Current, LoopInv, TypeOK
  <2>2. /\ answer.status \in {"success", "error"}
        /\ answer.retryable \in BOOLEAN /\ answer.cost \in Nat
    BY AnswerTypes
  <2>3. answer.retryable => attempt + 1 = MaxRetries + 1
    BY <1>7, <2>1 DEF Receive, Retries
  <2>4. attempt + 1 \in 0..(MaxRetries + 1) /\ attempt + 1 > 0
    BY <2>1
  <2>5. r \in Results /\ ResultOK(Current, r) /\ r.cost = answer.cost
    BY <1>7, <2>1, <2>2, <2>3, <2>4, CaseResultOK DEF Receive
  <2> HIDE DEF r
  <2>6. /\ results' \in Seq(Results) /\ Len(results') = Len(results) + 1
        /\ results' # <<>>
        /\ \A i \in DOMAIN results' : ResultOK(i, results'[i])
        /\ cost' \in Nat /\ CostInv' /\ BudgetRespected'
    BY <1>7, <2>1, <2>5, AppendResult DEF Receive, specVars, r
  <2>7. TypeOK'
    BY <1>0, <1>7, <2>6 DEF TypeOK, Receive, specVars
  <2>8. LoopInv' /\ GateInv'
    BY <1>0, <1>7, <2>1, <2>6 DEF LoopInv, GateInv, Receive, More, specVars, TypeOK
  <2> QED BY <2>6, <2>7, <2>8 DEF Inv
<1>8. CASE Retry
  <2>1. TypeOK'
    BY <1>0, <1>8 DEF TypeOK, LoopInv, Retry, specVars
  <2>2. LoopInv' /\ GateInv'
    BY <1>0, <1>8 DEF LoopInv, GateInv, Retry, More, Exhausted, specVars, TypeOK
  <2> QED BY <1>8, <2>1, <2>2, SameResults DEF Inv, Retry, specVars
<1>9. CASE DecideGate
  <2>1. TypeOK'
    BY <1>0, <1>9, DecideType DEF TypeOK, DecideGate, specVars
  <2>2. LoopInv' /\ GateInv'
    BY <1>0, <1>9 DEF LoopInv, GateInv, DecideGate, specVars, TypeOK
  <2> QED BY <1>9, <2>1, <2>2, SameResults DEF Inv, DecideGate, specVars
<1>10. CASE RequestCancel
  <2>1. TypeOK'
    BY <1>0, <1>10 DEF TypeOK, RequestCancel, specVars
  <2>2. LoopInv' /\ GateInv'
    BY <1>0, <1>10 DEF LoopInv, GateInv, RequestCancel, More, Exhausted, specVars, TypeOK
  <2> QED BY <1>10, <2>1, <2>2, SameResults DEF Inv, RequestCancel, specVars
<1>11. CASE UNCHANGED vars
  <2>1. TypeOK'
    BY <1>0, <1>11 DEF TypeOK, vars, specVars
  <2>2. LoopInv' /\ GateInv'
    BY <1>0, <1>11 DEF LoopInv, GateInv, More, Exhausted, vars, specVars
  <2> QED BY <1>11, <2>1, <2>2, SameResults DEF Inv, vars, specVars
<1> QED
  BY <1>1, <1>2, <1>3, <1>4, <1>5, <1>r, <1>6, <1>7, <1>8, <1>9, <1>10, <1>11 DEF Next, Step

LEMMA InvHolds == Spec => []Inv
BY InitInv, StepInv, PTL DEF Spec

----------------------------------------------------------------------------
(* Theorems *)

\* The variables of execute_local keep their types.
THEOREM TypeCorrect == Spec => []TypeOK
<1>1. Inv => TypeOK
  BY DEF Inv
<1> QED BY <1>1, InvHolds, PTL

\* The report that execute_local returns is one that the worker's model takes
\* for granted: never empty, and complete unless the loop was left early.
THEOREM ReportSound == Spec => []ReportIsSound
<1>1. ASSUME Inv PROVE ReportIsSound
  <2>1. TypeOK /\ LoopInv /\ GateInv /\ Len(results) \in Nat
    BY <1>1 DEF Inv, TypeOK
  <2>2. pc = "decide" => results # <<>>
    BY <2>1 DEF LoopInv
  <2>3. ASSUME pc = "done" PROVE Report \in ReportsOf(NumCases)
    <3>1. gate \in GateOutcomes
      BY <2>1, <2>3, DecideType DEF GateInv
    <3>2. Len(results) \in 1..NumCases
      BY <2>1, <2>3, NumCasesAssumption DEF LoopInv, TypeOK
    <3>3. ~broke => Len(results) = NumCases
      BY <2>1, <2>3 DEF LoopInv
    <3> QED BY <3>1, <3>2, <3>3 DEF Report, ReportsOf, ReportStatuses
  <2> QED BY <2>2, <2>3 DEF ReportIsSound
<1> QED BY <1>1, InvHolds, PTL

\* RetryProvider gives a transient error back only after its last retry.
THEOREM RetriesExhausted == Spec => []TransientErrorsAreRetried
<1>1. Inv => TransientErrorsAreRetried
  BY DEF Inv, ResultOK, TransientErrorsAreRetried
<1> QED BY <1>1, InvHolds, PTL

\* limits.max_total_cost: a case is sent to the provider only while the costs
\* of the cases before it are below the cap.
THEOREM BudgetKept == Spec => []BudgetRespected
<1>1. Inv => BudgetRespected
  BY DEF Inv
<1> QED BY <1>1, InvHolds, PTL

LEMMA OutcomesType ==
  ASSUME Inv
  PROVE  /\ Outcomes(results) \in Seq(CaseOutcomes)
         /\ DOMAIN Outcomes(results) = DOMAIN results
         /\ \A i \in DOMAIN results : Outcomes(results)[i] = CaseOutcome(results[i])
<1>1. results \in Seq(Results)
  BY DEF Inv, TypeOK
<1>2. Len(results) \in Nat /\ DOMAIN results = 1..Len(results)
  BY <1>1
<1>3. \A i \in 1..Len(results) : CaseOutcome(results[i]) \in CaseOutcomes
  BY DEF CaseOutcome, CaseOutcomes
<1>4. Outcomes(results) = [i \in 1..Len(results) |-> CaseOutcome(results[i])]
  BY <1>2 DEF Outcomes
<1> HIDE DEF Outcomes
<1> QED BY <1>2, <1>3, <1>4

\* The gate of policy/engine.py is monotone in the outcome of every case, for
\* every policy, every set of critical cases and every number of results.
THEOREM GateMonotone == Spec => []GateIsMonotone
<1>1. ASSUME Inv PROVE GateIsMonotone
  <2> DEFINE outs == Outcomes(results)
  <2>1. outs \in Seq(CaseOutcomes) /\ policy \in Policies
    BY <1>1, OutcomesType DEF Inv, TypeOK
  <2>2. pc = "done" => gate = Decide(policy, outs)
    BY <1>1 DEF Inv, GateInv
  <2> HIDE DEF outs
  <2>3. ASSUME NEW i \in DOMAIN outs, NEW o \in Better[outs[i]]
        PROVE  Rank[Decide(policy, [outs EXCEPT ![i] = o])] >= Rank[Decide(policy, outs)]
    <3> DEFINE old == Rules(policy, outs)
               new == Rules(policy, [outs EXCEPT ![i] = o])
    <3>1. /\ "insufficient_evidence" \in new => "insufficient_evidence" \in old
          /\ "violated" \in new => "violated" \in old \/ "insufficient_evidence" \in old
      BY <2>1, <2>3, RulesImprove
    <3> HIDE DEF old, new
    <3>2. Rank[GateOutcome(new \cup {"not_applicable"})]
            >= Rank[GateOutcome(old \cup {"not_applicable"})]
      BY <3>1, GateRank
    <3> QED BY <3>2 DEF Decide, old, new
  <2> QED BY <2>2, <2>3 DEF GateIsMonotone, outs
<1> QED BY <1>1, InvHolds, PTL

\* A passing gate has valid evidence for every critical case among the results.
THEOREM PassHasEvidence == Spec => []PassNeedsEvidence
<1>1. ASSUME Inv PROVE PassNeedsEvidence
  <2> SUFFICES ASSUME gate = "pass", NEW i \in DOMAIN results \cap Critical
               PROVE  /\ results[i].calls > 0 /\ results[i].provider = "success"
                      /\ results[i].required \cap {"errored", "not_applicable"} = {}
                      /\ policy.critical_cases_must_pass => "failed" \notin results[i].required
    BY DEF PassNeedsEvidence
  <2> DEFINE outs == Outcomes(results)
  <2>1. Decide(policy, outs) = "pass"
    BY <1>1 DEF Inv, GateInv
  <2>2. /\ "insufficient_evidence" \notin Rules(policy, outs)
        /\ "violated" \notin Rules(policy, outs)
    BY <2>1 DEF Decide, GateOutcome
  <2>3. i \in DOMAIN outs /\ outs[i] = CaseOutcome(results[i])
    BY <1>1, OutcomesType
  <2> HIDE DEF outs
  <2>4. /\ With(outs, "error") \cap Critical = {}
        /\ policy.critical_cases_must_pass => With(outs, "failed") \cap Critical = {}
    BY <2>2, RulesMeaning
  <2>5. /\ CaseOutcome(results[i]) # "error"
        /\ policy.critical_cases_must_pass => CaseOutcome(results[i]) # "failed"
    BY <2>3, <2>4 DEF With
  <2>6. results[i] \in Results /\ ResultOK(i, results[i])
    BY <1>1 DEF Inv, TypeOK
  <2>7. results[i].provider = "success"
    BY <2>5, <2>6 DEF CaseOutcome, Results
  <2> QED BY <2>5, <2>6, <2>7 DEF CaseOutcome, ResultOK
<1> QED BY <1>1, InvHolds, PTL

\* A case counts as passed or failed only for what its output really shows.
THEOREM QualityEstablished == Spec => []QualityIsEstablished
<1>1. ASSUME Inv PROVE QualityIsEstablished
  <2> SUFFICES ASSUME NEW i \in DOMAIN results
               PROVE  LET case == Definition[i]
                          out == results[i].output
                          outcome == CaseOutcome(results[i])
                      IN
                      /\ outcome = "passed" =>
                           /\ results[i].provider = "success"
                           /\ \A type \in Required(case) :
                                Decided(type, case, out) /\ Met(type, out)
                      /\ outcome = "failed" =>
                           /\ results[i].provider = "success"
                           /\ \E type \in Required(case) : ~Met(type, out)
                           /\ \A type \in Required(case) :
                                Decided(type, case, out) \/ (type = "json_schema" /\ ~out.json)
    BY DEF QualityIsEstablished
  <2> DEFINE r == results[i]
             case == Definition[i]
  <2>1. r \in Results /\ ResultOK(i, r) /\ i \in 1..NumCases
    BY <1>1, NumCasesAssumption DEF Inv, TypeOK, LoopInv
  <2>2. IsCase(case) /\ Required(case) \subseteq EvaluatorTypes
    BY <2>1, DefinitionAssumption DEF IsCase, Required
  <2> HIDE DEF r, case
  <2> SUFFICES ASSUME CaseOutcome(r) \in {"passed", "failed"}
               PROVE  /\ r.provider = "success"
                      /\ CaseOutcome(r) = "passed" =>
                           \A type \in Required(case) :
                             Decided(type, case, r.output) /\ Met(type, r.output)
                      /\ CaseOutcome(r) = "failed" =>
                           /\ \E type \in Required(case) : ~Met(type, r.output)
                           /\ \A type \in Required(case) :
                                \/ Decided(type, case, r.output)
                                \/ type = "json_schema" /\ ~r.output.json
    BY DEF r, case
  <2>3. /\ r.provider = "success" /\ r.required \cap {"errored", "not_applicable"} = {}
        /\ CaseOutcome(r) = "passed" <=> "failed" \notin r.required
    BY <2>1 DEF CaseOutcome, Results
  <2>4. /\ r.output \in Outputs /\ IsOutput(r.output)
        /\ r.required = {_EVALUATORS(type, case, r.output) : type \in Required(case)}
    <3>1. r.output # NoOutput /\ r.output \in Outputs
      BY <2>1, <2>3 DEF ResultOK, Results
    <3> QED BY <2>1, <3>1, DefinitionAssumption DEF ResultOK, evaluate_case, case
  <2>5. ASSUME NEW type \in Required(case)
        PROVE  LET s == _EVALUATORS(type, case, r.output) IN
               /\ s \in {"passed", "failed", "errored"}
               /\ s = "passed" => Decided(type, case, r.output) /\ Met(type, r.output)
               /\ s = "failed" => /\ ~Met(type, r.output)
                                  /\ \/ Decided(type, case, r.output)
                                     \/ type = "json_schema" /\ ~r.output.json
    BY <2>2, <2>4, EvaluatorsSound
  <2> QED BY <2>3, <2>4, <2>5
<1> QED BY <1>1, InvHolds, PTL
=============================================================================
