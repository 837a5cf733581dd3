----------------------------- MODULE Evaluation -----------------------------
(***************************************************************************)
(* One evaluation of a specification: execute_local (execution/runner.py), *)
(* the limits (execution/limits.py), the provider behind RetryProvider     *)
(* (workers/worker.py), the evaluators (evaluators/builtin.py) and the     *)
(* gate decision (execution/report.py).                                    *)
(*                                                                         *)
(* The coroutine awaits the provider and the backoff and nothing else, so  *)
(* the heartbeat task can set the cancellation token only there.           *)
(***************************************************************************)
EXTENDS GatePolicy, Providers, Evaluators, RunTypes, Sums

CONSTANTS NumCases,      \* number of cases of the specification
          MaxRetries,    \* RetryProvider.max_retries
          Definition,    \* Definition[i]: the i-th case of the specification
          Outputs,       \* outputs, as the evaluators see them
          NoOutput,      \* a provider error has no output
          Caps,          \* values of limits.max_total_cost
          NoCap,         \* limits.max_total_cost is not set
          MaxCases       \* values of limits.max_cases

ASSUME NumCasesAssumption == NumCases \in Nat \ {0}
ASSUME RetriesAssumption == MaxRetries \in Nat
ASSUME DefinitionAssumption ==
  /\ DOMAIN Definition = 1..NumCases /\ \A i \in 1..NumCases : IsCase(Definition[i])
  /\ \A out \in Outputs : IsOutput(out)
  /\ NoOutput \notin Outputs
ASSUME CostsAssumption == Costs \subseteq Nat /\ Caps \subseteq Nat /\ NoCap \notin Nat

VARIABLES
  policy,      \* specification.policy
  cap,         \* specification.limits.max_total_cost
  max_cases,   \* specification.limits.max_cases
  pc,
  attempt,     \* attempts of the current provider call so far
  results,     \* the case results
  cost,        \* accumulated_cost
  token,       \* cancellation_token.cancelled
  broke,       \* the local variable cancelled: the loop was left early
  gate         \* the gate outcome

specVars == <<policy, cap, max_cases>>
vars == <<specVars, pc, attempt, results, cost, token, broke, gate>>

\* required: the statuses of the required evaluators; calls: how often the
\* provider was asked for this case; retryable: the retry hint of its last
\* answer.
Results == [provider : {"success", "error"}, output : Outputs \cup {NoOutput},
            required : SUBSET EvaluationStatuses,
            calls : 0..(MaxRetries + 1), retryable : BOOLEAN, cost : Nat]

\* The one type invariant of this module.
TypeOK ==
  /\ policy \in Policies
  /\ cap \in Caps \cup {NoCap}
  /\ max_cases \in MaxCases
  /\ pc \in {"start", "loop", "calling", "backoff", "decide", "done", "rejected",
             "raised"}
  /\ attempt \in 0..MaxRetries
  /\ results \in Seq(Results)
  /\ cost \in Nat
  /\ token \in BOOLEAN /\ broke \in BOOLEAN
  /\ gate \in GateOutcomes \cup {"none"}

Init ==
  /\ policy \in Policies
  /\ cap \in Caps \cup {NoCap}
  /\ max_cases \in MaxCases
  /\ pc = "start"
  /\ attempt = 0
  /\ results = <<>>
  /\ cost = 0
  /\ token = FALSE /\ broke = FALSE
  /\ gate = "none"

----------------------------------------------------------------------------
(* execute_local *)

\* preflight_check: too many cases (or too high an estimate) raise
\* LimitExceededError before anything is done.
Preflight ==
  /\ pc = "start"
  /\ pc' = IF NumCases > max_cases THEN "rejected" ELSE "loop"
  /\ UNCHANGED <<specVars, attempt, results, cost, token, broke, gate>>

\* Mutant: the cap is reached only when it is exceeded.
Exhausted_Over(spent, limit) == limit # NoCap /\ spent > limit

Exhausted(spent, limit) == limit # NoCap /\ spent >= limit

\* Mutant: a status that the policy engine does not know.
CaseResult_Failure(i, answer, out, calls) ==
  [provider |-> IF answer.status = "error" THEN "failure" ELSE answer.status,
   output |-> out, required |-> evaluate_case(Definition[i], out # NoOutput, out),
   calls |-> calls, retryable |-> answer.retryable, cost |-> answer.cost]

\* CaseExecutionResult of the i-th case.
CaseResult(i, answer, out, calls) ==
  [provider |-> answer.status,
   output |-> out, required |-> evaluate_case(Definition[i], out # NoOutput, out),
   calls |-> calls, retryable |-> answer.retryable, cost |-> answer.cost]

More == Len(results) < NumCases

\* The case at hand.
Current == Len(results) + 1

\* The loop is exhausted.
EndLoop ==
  /\ pc = "loop" /\ ~More
  /\ pc' = "decide"
  /\ UNCHANGED <<specVars, attempt, results, cost, token, broke, gate>>

\* The token is seen before the next case.
Break ==
  /\ pc = "loop" /\ More /\ token
  /\ broke' = TRUE
  /\ pc' = "decide"
  /\ UNCHANGED <<specVars, attempt, results, cost, token, gate>>

\* The prompt cannot be rendered, or the cost cap is reached: the case has an
\* error result and the provider is not asked.
Skip ==
  /\ pc = "loop" /\ More /\ ~token
  /\ results' = Append(results, CaseResult(Current, Error(FALSE), NoOutput, 0))
  /\ UNCHANGED <<specVars, pc, attempt, cost, token, broke, gate>>

\* A template field that the case has no input for is a KeyError, which is not
\* the ValueError that is caught: it leaves execute_local without a report.
RenderRaises ==
  /\ pc = "loop" /\ More /\ ~token
  /\ pc' = "raised"
  /\ UNCHANGED <<specVars, attempt, results, cost, token, broke, gate>>

Call ==
  /\ pc = "loop" /\ More /\ ~token
  /\ ~Exhausted(cost, cap)
  /\ pc' = "calling"
  /\ UNCHANGED <<specVars, attempt, results, cost, token, broke, gate>>

----------------------------------------------------------------------------
(* RetryProvider.generate *)

\* Mutant: the retry count is taken for the number of calls.
Retries_OneShort(n) == n + 1 < MaxRetries

\* There is a retry left after attempt n.
Retries(n) == n < MaxRetries

\* A success, an error that is not retryable, or the last attempt: the answer
\* goes into the case results, and its cost is added.
Receive(answer, out) ==
  /\ pc = "calling"
  /\ (out = NoOutput) = (answer.status = "error")
  /\ ~answer.retryable \/ ~Retries(attempt)
  /\ results' = Append(results, CaseResult(Current, answer, out, attempt + 1))
  /\ cost' = cost + answer.cost
  /\ attempt' = 0
  /\ pc' = "loop"
  /\ UNCHANGED <<specVars, token, broke, gate>>

\* A retryable error: sleep and ask again.  Nobody looks at the token here.
Backoff(answer) ==
  /\ pc = "calling"
  /\ answer.retryable /\ Retries(attempt)
  /\ pc' = "backoff"
  /\ UNCHANGED <<specVars, attempt, results, cost, token, broke, gate>>

\* Mutant: the attempts are not counted.
Retry_Uncounted ==
  /\ pc = "backoff"
  /\ pc' = "calling"
  /\ UNCHANGED <<specVars, attempt, results, cost, token, broke, gate>>

Retry ==
  /\ pc = "backoff"
  /\ attempt' = attempt + 1
  /\ pc' = "calling"
  /\ UNCHANGED <<specVars, results, cost, token, broke, gate>>

----------------------------------------------------------------------------
(* The token and the gate *)

\* Mutant: the token can also be set before the first case.
RequestCancel_Early ==
  /\ pc \in {"start", "loop", "calling", "backoff"}
  /\ ~token
  /\ token' = TRUE
  /\ UNCHANGED <<specVars, pc, attempt, results, cost, broke, gate>>

\* The heartbeat task runs while the coroutine awaits.
RequestCancel ==
  /\ pc \in {"calling", "backoff"}
  /\ ~token
  /\ token' = TRUE
  /\ UNCHANGED <<specVars, pc, attempt, results, cost, broke, gate>>

Outcomes(rs) == [i \in DOMAIN rs |-> CaseOutcome(rs[i])]

\* aggregate_and_decide.
DecideGate ==
  /\ pc = "decide"
  /\ gate' = Decide(policy, Outcomes(results))
  /\ pc' = "done"
  /\ UNCHANGED <<specVars, attempt, results, cost, token, broke>>

\* LocalRunResult and GateDecision, as the worker stores them.
Report == [status |-> IF broke THEN "cancelled" ELSE "completed",
           gate_outcome |-> gate, cases |-> Len(results)]

----------------------------------------------------------------------------
(* Specification *)

Step ==
  \/ Preflight \/ EndLoop \/ Break \/ Skip \/ RenderRaises \/ Call
  \/ \E answer \in ProviderResults :
       Backoff(answer)
       \/ \E out \in Outputs \cup {NoOutput} : Receive(answer, out)
  \/ Retry
  \/ DecideGate

Next == Step \/ RequestCancel

Spec == Init /\ [][Next]_vars

\* The coroutine goes on: every provider call has a timeout.
FairSpec == Spec /\ WF_vars(Step)

----------------------------------------------------------------------------
(* Properties *)

\* What the worker stores is a report as WorkerFleet assumes it: a non-empty
\* prefix of the cases, one result each, and "completed" only for all of them,
\* wherever the token was set and whichever cases were skipped or failed.
\* _metrics divides by the number of results and is never reached without one.
ReportIsSound ==
  /\ pc = "decide" => results # <<>>
  /\ pc = "done" => Report \in ReportsOf(NumCases)

\* A transient error (a timeout, a 429, a 5xx) is the result of a case only
\* after the last retry, and no case has more calls than its retries allow.
TransientErrorsAreRetried ==
  \A i \in DOMAIN results : results[i].retryable => results[i].calls = MaxRetries + 1

CostsOf(rs) == [i \in DOMAIN rs |-> rs[i].cost]
CostBefore(i) == PartialSums(CostsOf(results))[i - 1]

\* The provider is only asked as long as the costs of the results before stay
\* below max_total_cost, so a run exceeds its cap by one call at the most.
BudgetRespected ==
  cap # NoCap =>
    \A i \in DOMAIN results : results[i].calls > 0 => CostBefore(i) < cap

\* The gate is monotone: had one case come out better (an error as a failure or
\* a pass, a failure as a pass), the decision would not have been worse.
GateIsMonotone ==
  pc = "done" =>
    LET outcomes == Outcomes(results) IN
    \A i \in DOMAIN outcomes : \A o \in Better[outcomes[i]] :
      Rank[Decide(policy, [outcomes EXCEPT ![i] = o])] >= Rank[gate]

\* A run passes only with valid evidence for every critical case it has
\* executed, and never with an error or failure that the policy does not allow
\* for: a critical case that was skipped for cost, or failed at the provider
\* after all retries, blocks the gate.
PassNeedsEvidence ==
  gate = "pass" =>
    \A i \in DOMAIN results \cap Critical :
      /\ results[i].calls > 0 /\ results[i].provider = "success"
      /\ results[i].required \cap {"errored", "not_applicable"} = {}
      /\ policy.critical_cases_must_pass => "failed" \notin results[i].required

\* The assertion of an evaluator is decided by this output: the expected value
\* is what the evaluator needs, and the search came to an end.
Decided(type, case, out) ==
  CASE type = "json_valid" -> TRUE
    [] type = "json_schema" -> case.expected = "object" /\ case.well_formed
    [] type = "regex" -> /\ case.expected = "string" /\ case.well_formed
                         /\ out.matches # "timeout"
    [] OTHER -> case.expected = "string"

\* The pass conditions of docs/evaluators.md.
Met(type, out) ==
  CASE type = "exact_match" -> out.text = "equal"
    [] type = "normalized_match" -> out.text \in {"equal", "normalized", "both"}
    [] type = "contains" -> out.text \in {"equal", "contains", "both"}
    [] type = "regex" -> out.matches = "yes"
    [] type = "json_valid" -> out.json
    [] type = "json_schema" -> out.json /\ out.conforms

\* What counts for or against a model was really established: a case counts as
\* passed only if there was an output that decides and meets the assertion of
\* every required evaluator, and as failed only if the provider answered, some
\* required assertion is not met, and none is undecided except a JSON Schema
\* over an output that is not JSON.  Neither a provider error nor a malformed
\* expectation or a slow pattern moves the pass rate as a quality result.
QualityIsEstablished ==
  \A i \in DOMAIN results :
    LET case == Definition[i]
        out == results[i].output
        outcome == CaseOutcome(results[i])
    IN
    /\ outcome = "passed" =>
         /\ results[i].provider = "success"
         /\ \A type \in Required(case) : Decided(type, case, out) /\ Met(type, out)
    /\ outcome = "failed" =>
         /\ results[i].provider = "success"
         /\ \E type \in Required(case) : ~Met(type, out)
         /\ \A type \in Required(case) :
              Decided(type, case, out) \/ (type = "json_schema" /\ ~out.json)

\* The evaluation ends, with a report or an exception, whatever the provider
\* answers.
EvaluationEnds == <>(pc \in {"done", "rejected", "raised"})
=============================================================================
