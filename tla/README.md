# Verification of the model regression detection system

TLA+ models, TLC configurations and TLAPS proofs for the Python service in
`src/model_regression_detection/` (below: paths relative to that directory).
The service runs golden-case evaluations of language models, decides a quality
gate (`pass`, `fail`, `error`), keeps runs in PostgreSQL, and lets CI jobs wait
for verdicts and projects promote runs to baselines.

## 1. Inventory

| Component | State | Operations | What is hard | What makes it correct |
|---|---|---|---|---|
| Run store (`persistence/repository.py`, `models.py`) | tables `runs`, `case_results`, `projects`, `idempotency_records`, `baseline_channels` | create, claim, heartbeat, complete, cancel, acknowledge, reconcile, promote | READ COMMITTED; SELECT, then UPDATE by primary key; unique constraints as the only arbiters | verdict columns describe stored evidence; evidence is written once; a finished run is not run again |
| Worker (`workers/worker.py`) | claimed run, heartbeat task, cancellation token, report | `run_forever`, `run_once`, startup reconciliation, SIGTERM | several processes, crashes, leases that lapse, a background task whose error surfaces late | exclusive execution under a live lease; no run is left behind, whatever another run does to the workers |
| Run routes (`api/runs.py`) | one transaction per request | submit, status, report, cancel | retries after lost answers, races on unique keys, stale cancel | one run per idempotency key; truthful 202 and 409 |
| Baselines (`api/baselines.py`, `promote_run`) | channel row | promote | the run changes while it is promoted; concurrent promotions | a channel names a run with full passing evidence; no promotion overwrites one it has not seen |
| Local evaluation (`execution/runner.py`, `limits.py`, `report.py`, `RetryProvider`) | results so far, accumulated cost, token | the loop over cases, retries | cancellation at an await; the cap at its boundary; retries | a report is a non-empty prefix; the budget holds |
| Gate policy (`policy/engine.py`) | none | `aggregate_and_decide`, `compare_and_decide` | rates at the threshold, errors against failures | monotone; pass needs evidence |
| Baseline comparison (`policy/comparison.py`) | none | `compare_candidate_to_baseline`, drop rules | rounded floats against decimal thresholds, zero and unknown totals | a pass means no regression beyond the limits; no alarm without a change |
| Providers (`providers/`) | none | one call, its result normalized | which failures are worth a retry | every transient error is retried, nothing else |
| CLI (`cli.py`) | deadline | `wait`, `status`, `worker` (and single-call commands) | polling a run that changes, timeouts; a worker process that ends and is restarted | exit code 0 and every printed verdict are backed by evidence |
| Tokens and authentication (`api/tokens.py`, `auth.py`, `token_management.py`) | token rows | create, check, revoke | | access control, not modelled |
| Rate limiter (`api/ratelimit.py`) | a list of admission times per token, time of the last eviction | admit, prune, evict | the boundary of the window, eviction by the requests of others, two readings of the clock | never more than the maximum in any window; no refusal without cause; no stale bucket |
| Slack notification (`notifications/slack.py`) | attempt | build, truncate, post, retry | an answer lost after delivery; texts of any length | the message fits and keeps the verdict; only what is unsettled is repeated; the call ends |
| Evaluators (`evaluators/builtin.py`) | none | six evaluators, `evaluate_case` | malformed expectations, slow patterns, missing outputs | only what was established counts for or against a model |
| Specification, reporting, API infrastructure | none shared | conversions and I/O | | inputs of the other models |

**Interactions.** The API inserts runs; workers poll the table, claim with a
conditional UPDATE, renew a lease from a heartbeat task and store the
report with its case rows in one transaction. A cancel request writes the
state, and the worker learns of it only because its heartbeat no longer
matches a row. Nobody else writes. Readers (status, report, `mrds wait`,
promotion) load one row at a time and rely on what the row says later, too.
All communication is through the tables: there are no messages and no locks
that span a read and a later write.

## 2. Modules

| Module | Models | Composition |
|---|---|---|
| `RunTypes` | run states, verdicts, reports | |
| `RunRepository` | what each statement of `repository.py` does to one row of `runs` | extends `RunTypes` |
| `WorkerFleet` | workers, cancel requests, leases and crashes over the shared rows | extends `RunRepository` |
| `WorkerSupervisor` | the fleet under a supervisor that restarts processes, with runs that end every worker that takes them | extends `WorkerFleet` |
| `RunLedger` | **abstract specification** of the run tables: what readers may rely on | extends `RunTypes` |
| `WorkerFleetRefinement` | the refinement mapping from `WorkerFleet` to `RunLedger` | instantiates `RunLedger` |
| `Submission` | `POST /runs`: three inserts, unique indexes, rollback, lookup, lost answers | |
| `Baselines` | `promote_run`, statement by statement, beside a changing ledger | extends `RunLedger` |
| `CIWait` | `mrds wait` and `mrds status` beside a changing ledger | extends `RunLedger` |
| `GatePolicy` | case outcomes, rules and the gate decision | |
| `Sums` | sums of costs, latencies and lengths | |
| `BaselineComparison` | the deltas to a baseline run, the drop rules and `compare_and_decide` | extends `GatePolicy`, `Sums` |
| `Providers` | what a call of a provider can return, from what happens to the request | |
| `Evaluators` | what the evaluators of a case say of its output | |
| `Evaluation` | `execute_local` with limits, retries, evaluators, token and gate | extends `GatePolicy`, `Providers`, `Evaluators`, `RunTypes`, `Sums` |
| `RateLimiter` | `RateLimitMiddleware` of one API process | |
| `SlackNotification` | one call of `send_slack_notification` | extends `Sums` |
| `MC*` | instances for TLC | |
| `WorkerFleetProofs` | theorems about the fleet, and that it implements the ledger | extends `WorkerFleetRefinement` |
| `LedgerProofs` | theorems about the ledger and its two readers | extends `Baselines`, `CIWait` |
| `SharedLemmas` | induction, sums, the rules of the gate | extends `GatePolicy`, `Sums` |
| `SubmissionProofs`, `EvaluationProofs`, `BaselineComparisonProofs`, `RateLimiterProofs`, `SlackNotificationProofs` | theorems about one component | the last four extend `SharedLemmas` |

The modules meet at two interfaces. `Evaluation` shows (`ReportIsSound`) that
an execution ends with a member of `ReportsOf(n)`, the reports that
`WorkerFleet` lets its workers produce. `WorkerFleet` implements `RunLedger`,
beside which the readers `Baselines` and `CIWait` are specified: what is shown
of them holds for every interleaving of the fleet that the ledger allows.

### How state and actions correspond to the code

*WorkerFleet.* `rows` and `evidence` are the tables; `pc`, `run`, `hb`,
`done`, `report`, `loaded` are the locals of one worker process, whose id is a
fresh uuid, so a restart is another member of `Workers`. One action is one SQL
statement with the code up to the next one. A SELECT and the UPDATE that
follows are separate actions; an UPDATE and its COMMIT are one, since the row
lock lasts until then. The ORM writes only columns whose value differs from
the loaded one, by primary key: operator `Written` is that rule, and it
matters: a completion that loaded `gate_outcome = "error"` and assigns `error`
does not write the column. `SelectCreated`, `UpdateCreated`, `SelectExpired`,
`UpdateExpired` are `claim_next_run`; `Begin` is the check for cancellation and
the creation of the heartbeat task; `Heartbeat`, `HeartbeatFails` are that
task; `FinishCase`, `FinishExecution`, `FinishWithFailedHeartbeat` are
`execute_local` as the worker sees it; `Complete*`, `Acknowledge*`,
`WriteCollides` are the two ends of `run_once`; `Start` includes
`_reconcile_on_startup`, which may fail and is then skipped.

*WorkerSupervisor.* docker-compose.yml starts workers with `restart:
unless-stopped`: `Restart` puts a dead process back to its start. `run_once`
catches nothing, so a run of `Rejected` ends its worker either before the
execution (`model_validate`, `preflight_check`) or within it (a field of the
prompt template that is not declared, an evaluator that raises what it does not
catch): `Reject`. A restarted process keeps its member of
`Workers`; the id it had belongs to nobody any more.

*Submission.* A request has an open transaction `tx` whose rows are invisible
but occupy the unique indexes: an INSERT of the same key waits for the other
transaction to end. `Lose` is the death of the process or connection, before
or after the commit. A retry is another member of `Attempts`.

*Baselines, CIWait.* One action per statement or poll; between any two the
ledger may take steps. `Uncaught` is a poll that raises what `except
httpx.HTTPError` does not name (an answer that is not JSON or not an object, an
invalid URL): the interpreter ends with exit code 1, the code of a regression. `printed`
holds the verdict a build has printed, which tells the two apart. The definitions of `CIWait` carry the prefix `CI`, so that one
module of proofs can extend both.

*Evaluation.* The coroutine awaits the provider and the backoff sleep and
nothing else, so `RequestCancel` is enabled only there. `Skip` is a case whose
prompt cannot be rendered (at any time) or whose budget is spent; `Call` needs
the budget. `RenderRaises` is the `KeyError` of an undeclared template field,
which is no `ValueError` and leaves `execute_local` without a report. `Receive`, `Backoff`, `Retry` are `RetryProvider.generate`; each
answer is a member of `ProviderResults`. A successful answer comes with one of
`Outputs`, which `evaluate_case` judges by the evaluators that `Definition`
declares for the case.

*RateLimiter.* `dispatch` does not await before it has decided, so a request is one
action: eviction at the current time, then `_allow` at the same time or one tick
later. `admitted` is a history variable with the last `MAX_REQUESTS + 1`
admissions of each token.

*SlackNotification.* One action per iteration of the two loops. The network
answers with success, with a refusal, not at all or with a 5xx (and Slack may have the
message all the same), or httpx raises something the function does not catch.

*BaselineComparison.* One call of `compare_and_decide`, over all inputs of an
instance: it decides, or raises `KeyError` when the baseline has an evaluator
that the candidate's specification lacks (action `KeyError`). Its operators are the functions of `comparison.py` and the rules of
`engine.py`.

### Abstractions

- Columns that the lifecycle never reads back (`completed_at`, `metrics`,
  the report document) are left out; the project of a run is part of the channel
  in `Baselines`.
- `lease_expires_at` is known by its position on the time axis: none, live,
  expired, older than the 30 s grace. Reading the clock and the SELECT that uses it are one
  step, and the processes share one clock.
- The case rows of a run are known by their number: a report holds a prefix of
  the cases, so two non-empty reports collide on the first case.
- The branch of `reconcile_stranded_runs` for old `created` runs has no caller
  that sets `max_created_age_seconds` and is left out.
- In `Baselines` the last statement and its commit are one action.
- An unknown cost of a provider result is 0, which is how the code adds it up.
- Rates are exact fractions with the denominator `Scale`. The code compares
  the doubles nearest to both fractions, which gives the same answer.
- In `BaselineComparison` the rates, drops and percentages are exact fractions
  with a mark whether every intermediate value is a double. Where a value that is
  not exact equals its limit, the comparison may go either way. Latencies and
  costs are natural numbers, so that their sums are exact.
- An output above the 1,000,000 characters of `InferenceResult` raises in the
  provider instead of giving a result; the worker ends, which is `Crash` of
  `WorkerFleet`.
- Texts are known by what the evaluators ask of them: whether the expected value
  is a string or an object and well formed, and how an output compares with it
  (equal, equal after normalization, containing it; matched, not matched, out
  of time; JSON, conforming). `regex`, `json` and `jsonschema` are external.
- A Slack block is known by its type and its length with the separator. Suite,
  hashes and numbers are bounded, so the first four blocks fit; `SlackAssumption`
  says so.
- The clock of the rate limiter advances in ticks. It starts at 0 and stops at `MaxTime`.
- `WorkerSupervisor` assumes that between a claim and the expiry of its lease
  (60 s) some worker looks for expired runs once (variable `polled`): a restart
  and a poll (1 s) are shorter than a lease. See section 4 for what happens
  otherwise.
- Requests refused before the first SQL statement change nothing and are not
  modelled.

## 3. Runs

Ten runs pass. Bounds are named constants of the modules or of the `MC`
modules.

| Run | Instance | Distinct states | Shows |
|---|---|---|---|
| `fleet_safety` | 3 workers, 1 cancel request at a time, 1 run of 2 cases, up to 2 lapses under a working owner; symmetric in the workers | 722,077 | the safety invariants and action properties below; `ImplementsLedger` |
| `fleet_liveness` | supervised: 2 workers, 2 runs of 1 case, the older one a poison run, no cancel request, 1 lapse | 329,702 | `HealthyRunsEnd` |
| `fleet_cancellation` | 2 workers, 2 cancel requests at a time, 1 run of 2 cases, 1 lapse | 117,963 | `CancellationEnds` |
| `submission` | 5 requests: two identical, one with another body, one without a key, one in another project | 113,400 | `OneRunPerKey`, `AnswersAreTrue`, `LookupFindsTheWinner`, `EveryRequestEnds` |
| `baselines` | 4 promotions of 2 runs on one channel; symmetric in the promotions | 64,136 | `BaselineBacked`, `WinnersFormAChain`, `LosersWereOvertaken` |
| `ci_wait` | 2 commands, 1 run of 2 cases | 6,368 | `ExitIsBacked`, `CommandsEnd` |
| `evaluation` | 3 cases (one critical), rates in halves, caps 1, 2 or none, `max_cases` 2 or 3, 1 retry, every result of the providers, outputs that meet, miss or leave undecided the evaluators | 1,099,656 | `ReportIsSound`, `TransientErrorsAreRetried`, `BudgetRespected`, `GateIsMonotone`, `PassNeedsEvidence`, `QualityIsEstablished`, `EvaluationEnds` |
| `comparison` | all pairs of 26 runs, 27 baseline limits, 3 policies, hashes that match or not | 547,803 | `RegressionNeverPasses`, `UnchangedIsNoAlarm`, `MonotoneInBothRuns` |
| `rate_limiter` | 2 tokens and anonymous requests, window 2, maximum 2, eviction every 3 ticks, 9 ticks; symmetric in the tokens | 506,787 | `SlidingWindow`, `RefusedForCause`, `NoStaleBuckets` |
| `notification` | lengths 1, 3, 4, 5, 9 or none for rules and link, limit 8, 3 attempts | 1,434 | `TruncationIsMinimal`, `RetriedOnlyWhenUnsettled`, `NotificationEnds` |

**Why the bounds suffice.** The operations on a run touch no other run, so
safety of the fleet is checked on one run; three workers are an old owner, a
new owner and a third that starts (and reconciles) or reclaims, two lapses let
a reclaimed run be reclaimed again, two cases make a partial report possible.
The theorems of section 5 remove these bounds for safety. Two runs in
`fleet_liveness` make the queue order matter: the poison run is the older one
and therefore the first candidate of every SELECT. Among five requests there are
a winner, a retry, a conflict, and two that share only one of the two indexes.
With four promotions one loses to a winner that is itself replaced, and the
channel comes back to an earlier run (A, B, A) in front of a promotion that has
read the first A. Two cancel requests let the second write what it read before
the first was acknowledged. Three cases with one critical and thresholds at 0, 1/2 and 1 meet every rule on both
sides of its boundary and exactly on it; with costs 0 and 1 the caps 1 and 2
are reached early, late, exactly or never. The runs of `comparison` contain drops of
1/3 at a limit of 1/3, which are rounded, increases of 50 % at a limit of 50 %,
which are exact, totals of zero and unknown costs. Nine ticks are four
windows and three eviction intervals of the rate limiter, so a bucket is filled, pruned,
evicted and filled again, at, before and after each boundary. With the limit 8
and four blocks of length 1, a block of length 1 or 3 fits with the footer (3
exactly), 4 only without it, 5 and 9 not at all.

`TypeOK` is an invariant of `fleet_safety`, `evaluation`, `comparison`,
`rate_limiter` and `notification`; for the other modules it is proved (section 5).

Deadlock checking is off where the modelled part of the system really stops:
all workers stopped or dead, all requests answered, the evaluation done.

### Properties of the passing runs

- `VerdictMatchesEvidence`, `CompletedIsFull`, `FailedIsReconciled`,
  `RunnableHasNoEvidence`: the row of a run and its case rows agree although
  five operations write the row and none holds a lock from its read to its
  write.
- `ExclusiveUntilExpiry`: while no lease of a run has run out, at most one
  worker works on it.
- `EvidenceWrittenOnce`, `NeverRunnableAgain`: no stale write replaces a result
  or puts a run back into the queue.
- `ImplementsLedger`: the refinement.
- `HealthyRunsEnd`: if some worker is not stopped, and from some time on
  nothing but poison runs ends workers, every other created or running run leaves
  both states, although the poison run ends a worker once per lease, for ever.
- `CancellationEnds`: a cancelling run without a result whose owner is at work on
  it becomes terminal unless that worker dies, whatever other cancel requests
  still write. Without an owner at work it need not (section 4).
- `OneRunPerKey`, `AnswersAreTrue`, `LookupFindsTheWinner`, `EveryRequestEnds`:
  retries and races on an idempotency key.
- `BaselineBacked`: promotion beside a run that a stale cancel may still change.
  `WinnersFormAChain`: counted over all promotions, a run was put on a channel
  once more often than it was replaced if the channel names it, and as often
  otherwise; no winner was overwritten by one that had not seen it.
  `LosersWereOvertaken`: an eligible promotion is refused only because another
  that had read the same won on its channel.
- `ExitIsBacked`: a green build and every printed quality verdict rest on stored
  evidence. `CommandsEnd`: each command ends.
- The properties of `evaluation`: see the comments in `Evaluation.tla`.
  `QualityIsEstablished` compares each case outcome with the pass conditions of
  docs/evaluators.md, stated independently of the evaluators' code: a passed
  case met all its required assertions, a failed one missed one of them, and no
  malformed expectation, timeout or provider error counts as either.
- `SlidingWindow`, `RefusedForCause`, `NoStaleBuckets`: the rate limiter is
  compared with the history of admissions, which it does not keep.
- `TruncationIsMinimal`: the message fits, keeps header, verdict and metrics, and
  lost only what did not fit. `RetriedOnlyWhenUnsettled`, `NotificationEnds`: at
  most one copy per attempt, and an end.
- `RegressionNeverPasses`, `UnchangedIsNoAlarm`: the gate with a baseline errs
  on neither side. `MonotoneInBothRuns`: it is monotone in the candidate, and in
  the other direction in the baseline: one more passed case in the candidate never
  hurts, one more in the baseline never helps.

Every property has a mutant of the code's model that breaks it; mutated forms
stand above the definitions they change.

### Fairness

- `WF(WorkerStep)`: a running process goes on; every await ends because
  provider calls have a timeout, retries are counted and database calls return.
  `Crash`, `Stop`, the heartbeat and its failure are not fair, so workers may
  die at any point and a heartbeat may be arbitrarily late.
- `WF(Start)`: a deployed worker process is started once.
- `WF(Restart)` (`WorkerSupervisor`): the supervisor starts again what has ended.
- `WF(CancelWrite)`: a request that has read its row ends.
- `WF(~Attended /\ ExpireLease)`, `WF(PassGrace)`: time passes. A lease under a
  working owner need not run out, and does so at most `MaxLapses` times.
- `Submission`: `WF(Step)`, the server continues a request it has begun. A
  blocked INSERT waits for transactions that wait for no client.
- `CIWait`: `WF(Command)` and `WF(DeadlinePasses)`: each request has its own
  10 s timeout, sleeps end, the clock advances.
- `Evaluation`: `WF(Step)`, as for the worker.
- `SlackNotification`: `WF(Next)`: each post has a timeout of 10 s, sleeps end.

## 4. Where the code and its documents disagree

Two runs check what a document or docstring says and end with a
counterexample:

| Run | The text | What the code does |
|---|---|---|
| `claim_won_once` | `claim_next_run`: "The conditional UPDATE guarantees at most one concurrent worker can win the claim for a given run." | For an expired run the condition is `state = 'running'`, still true after another worker has reclaimed it: both win. |
| `poison_run` | docs/worker.md:3: "this worker is what actually moves them from `created` to `completed` or `failed`" | A run that raises in `run_once` ends its worker. The next worker reclaims it at the expiry of the lease, 30 s before a startup reconciliation would fail it, and ends too: the run stays `running` for ever. |

None of them contradicts the properties of section 3: evidence is still written
once, verdicts still match it, and the other runs still end.

Met while modelling and not kept as runs:

- *Lifecycle.* `complete_run` compares the `worker_id` it has loaded and then
  updates by primary key, so a worker whose lease was reclaimed in between does store its
  report (docs/worker.md:27 says that it cannot overwrite the winner's results;
  the results of a winner that has already stored them are safe); it does not look
  at the state, so a run failed by reconciliation is completed by its slow owner
  (docs/architecture.md:233: "Terminal states never transition back."). Two first
  submissions of a project race on the project row, and the loser is answered
  500 (docs/run-submission-api.md:18-20: the key "makes retried submissions safe"; a further
  retry is). If a lease is shorter than a restart and a poll, a poison run that is
  older than another expired run is reclaimed first each time, and the other one
  starves: `HealthyRunsEnd` fails without `polled`. Two cancel requests that have
  both read `running` both write `cancelling`; if the owner has acknowledged the first,
  the second takes a `cancelled` run back to `cancelling` (repository.py:281-283;
  the docstring at 262 says "Request idempotent cancellation for a non-terminal
  run."), with an idle owner and nobody to end it before the next start of a worker.
- *Exit codes.* README.md:130 of the repository: "1 | Regression detected", and
  docs/prd.md:212: "distinguishes gate failure from system failure using output fields and
  documented process exit codes"; an exception that cli.py:235 or 296 does not catch
  ends with 1 as well.
- *Promotions.* api/baselines.py:71-72: "Exactly one concurrent promotion wins per
  channel" (also docs/milestones.md:188 and docs/roadmap.md:123, "exactly one winner and one
  conflict"). The UPDATE compares the run, not a revision: when the channel has gone
  from A to B and back to A, a promotion that read the first A wins, too. A promotion
  that loses an UPDATE is answered 422 (the run "does not exist, is not completed,
  or did not pass"), one that loses the INSERT 500.
- *Raised in the middle.* A field of the prompt template that is not declared raises
  `KeyError` in runner.py:45, which line 102 does not catch, and ends the worker. A
  baseline with an evaluator that the specification of the candidate lacks raises
  `KeyError` in comparison.py:23 instead of being reported as incompatible.
- *Evaluators.* `json_schema` parses the output before it looks at the schema, so a
  malformed schema over an output that is not JSON is a quality failure;
  docs/evaluators.md:19-20 gives both readings (invalid JSON is `failed`, a malformed
  schema `errored`). An unresolvable `$ref`
  leaves the evaluator and ends the worker. A case whose evaluators are all
  optional passes with any output.
- *Slack.* The docstring says that failure never raises; a URL that httpx cannot
  parse or an answer it cannot decode does. "Retries up to `_MAX_RETRIES` times"
  counts attempts. `False` does not mean that Slack has no copy. A link too long
  for the message goes before the rules.
- *Rate limiter.* The limit holds for each API process, not for the service.
- *The rest.* A cancelled execution
stores the verdict of its partial report, "pass" included (docs/milestones.md:236);
a cancelling run whose owner is dead waits for the next *start* of a worker,
and a stale cancel over a completed or reconciled run leaves it `cancelling`;
`RetryProvider` goes on with its retries after the token is set; of two
concurrent promotions of the same run the loser gets an error; errors within
`maximum_error_rate` lower the pass rate and can fail the gate without a failed
case (docs/policy.md:19 says that `fail` means valid evidence); an increase from
a zero baseline counts as none; cases missing in the candidate are reported and
block nothing; a drop of exactly the allowed decimal may be a violation by
rounding; with OpenRouter, which reports no cost, a limit on the cost increase
makes every comparison an `error`, and
the cost cap of a run is never reached.

## 5. Proofs

All proofs are checked by TLAPS (Z3, Zenon, LS4), about 4,900 obligations, for
every value of the constants that meets the named assumptions:

- fleet, ledger and readers: `Runs` a set of positive numbers (in creation order),
  `Cases[r]` positive (a specification has at least one case), `MaxLapses` a natural
  number, the null values (`NoWorker`, `NoRun`, `NoKey`) outside the sets they stand
  beside, `Request` and `Target` functions of the right type. No set has to be finite but
  `Promotions`, whose winners are counted;
- evaluation and comparison: `Scale` and the number of cases positive, `MaxRetries`
  and the costs natural numbers, the policies and limits within the bounds that
  `RegressionPolicy` validates, the runs non-empty sequences;
- rate limiter: window, maximum and eviction interval positive;
- Slack: `SlackAssumption`, the four blocks of bounded length fit the message.

**The fleet (`WorkerFleetProofs`).** None of the safety properties is inductive:
what a write does depends on what its worker has loaded and on the report it
holds. The inductive invariant is
`FleetInv == TypeOK /\ Busy /\ RowsOK /\ WorkersOK`.
`RowsOK` says of every run that either it has no case rows and its row has no
trace of a report, or its case rows are a possible report and the verdict
columns are equal to it; it implies the four state invariants. To keep it, a write
must be known to carry a sound report, and its `loaded` row must not suppress
a column that has to be written. That is `WorkersOK`: a worker about to
complete holds a complete report; and if the run has no case rows, the loaded
row has no trace of a report, and a loaded verdict `error` is still the
row's verdict. The unique constraint closes the case in which there are rows:
then every write collides. `ExclusiveUntilExpiry` needs `LapseInv` in
addition: a lease that is seen expired has been counted as a lapse, and so has
the one a worker about to reclaim has seen; so without a lapse no reclaim is in flight. From
`FleetInv` follow

- `FleetTypeCorrect`, `VerdictTheorem`, `CompletedTheorem`, `FailedTheorem`,
  `RunnableTheorem` (invariants);
- `EvidenceTheorem`, `QueueTheorem` (action properties);
- `ExclusionTheorem`;
- `FleetImplementsLedger`, the refinement: each action is a ledger step or a
  stutter. It uses `CancelsOK` in addition (a cancel request has read a run that exists).

**The ledger and its readers (`LedgerProofs`).** `LedgerConsistent`: a verdict
always has its evidence. `StepLedgerInv` adds that evidence, once there, never
changes; that is why what a reader has seen once stays true. `BaselineTheorem`
adds that a promotion past its check has a backed run. `ChainTheorem` and
`OvertakenTheorem` need `ChainInv`: the two properties, and
`Overtaken(p)` of every promotion on its way: if its channel no longer names what it
read, another has already taken the channel from that, so that the refusal, when it
comes, has a cause. A step
of a winner moves both counts by one (`WinnersCount`). `ExitTheorem` adds that a
command on its way has printed nothing and has no exit code.

**Submission (`SubmissionProofs`).** `OneRunTheorem`, `AnswersTheorem`,
`LookupTheorem`. `SubmissionInv` adds `OneHolder` (one open transaction at most
holds an idempotency key) and `RequestOK` (what
each program counter implies about the open transaction and the result).

`SubmissionTypeCorrect`, `BaselineTypeCorrect` and `CommandTypeCorrect` state the
type invariants of `Submission`, `Baselines` and `CIWait`.

**Lemmas about data (`SharedLemmas`).** `Induction` is induction over the numbers up
to n, stated for a set instead of a predicate and proved from the least
counterexample. With it the recursive definition of `Sums` is shown to
define something (`RecursionExists`), and what (`SumsProperties`, `SumsOfAppend`).
`RulesImprove` and `GateRank` say that the gate is monotone: a better outcome adds no
missing evidence, and no violation where there was neither; both gates use them.

**Evaluation (`EvaluationProofs`).** The properties speak of the final report; the
loop must be known to build it. `LoopInv`: a call is under way only for a case that is
left and within the budget, and a token found before a case was set during an
earlier one, so that even a cancelled report has a result (`ReportSound`).
`ResultOK`: each result is what the evaluators make of its output, and a retryable
error has used all its calls (`RetriesExhausted`, `QualityEstablished`). `CostInv`:
the accumulated cost is the sum of the costs so far; without it the budget says
nothing about the results (`BudgetKept`). `GateInv`: the verdict is the decision about
exactly these results (`GateMonotone`, `PassHasEvidence`). `TypeCorrect` covers the
answers of both providers.

**Comparison (`BaselineComparisonProofs`).** There is one step, so the invariant is
short: the verdict is the decision of some rounding. The work is arithmetic.
`RuleMeaning` says when a rule can be missed however the division rounds;
`NoRegressionPasses` compares the products that the code divides, `NoFalseAlarm` needs
that a difference or an increase of zero is exact, and `MonotoneTheorem` that the
drop shrinks when one more case of the candidate passes (`RateDifference`,
`DropImproves`, `CandidateImproves`) and stays or grows strictly when one more of the
baseline does (`BaselineDrop`, `BaselineImproves`), while latency and cost stay. A
strictly smaller drop is strictly below a limit that the larger one meets, so rounding
cannot turn the order around. `TypeCorrect` follows from the definitions.

**Rate limiter (`RateLimiterProofs`).** The limiter keeps no history, and the properties
are about the history. `Matches(a, b, w)` connects them: the bucket `b` is the end
of the admissions `a`, which are in order, and every admission it has forgotten is
out of the window at time `w`. It is kept when time passes (`MatchLater`), by an eviction
(`MatchEvicted`: the last entry is the newest), by pruning (`MatchPruned`; by
`FilteredIsSuffix` the comprehension over an ordered bucket is a suffix of it) and by an
admission (`MatchAdmitted`). `EvictionInv` adds that no bucket was stale at
the last eviction and that the last request came within one interval of it, the tick
between the two readings of the clock included. `WindowKept`, `RefusalsJustified`,
`MemoryBounded` and `LimiterTypeCorrect` follow.

**Slack (`SlackNotificationProofs`).** `MessageInv`: from `_build_message` on the blocks are
the first n of those built, n at least 4, and the n + 1st did not fit. The loop pops
exactly the last one (`PopLast`), since every block but the header may go, and
stops at four (`MessageLength`). `DeliveryInv` leaves room for one more copy in front of each
attempt. `MessageFits`, `RetriesJustified` and `NotificationTypeCorrect` follow.

**How the obligations are kept sound.** The encoding of sequences for the SMT solver in
this version of TLAPS gives every value a length and reads its domain off it, so
that a function over `0..Len(c)` beside `Len(c)` is contradictory. The lemmas about
sums and pruning are therefore stated for functions over `1..n`, and no obligation
has `Len` beside a function known not to be a sequence. All proofs are also accepted when
the axiom is restricted to the direction that holds.

**Only model-checked.** Liveness (`HealthyRunsEnd`, `CancellationEnds`,
`EveryRequestEnds`, `CommandsEnd`, `EvaluationEnds`, `NotificationEnds`): fairness
and ENABLED are out of the prover's reach. Every safety invariant and every action
property of the passing runs is proved. `WorkerSupervisor` has no safety property of its own.

## 6. Not modelled

- Tokens and authentication (`api/tokens.py`, `auth.py`, `token_management.py`):
  access control; each check is one lookup, each change one statement, and no run,
  baseline or gate state depends on it.
- Specification loading and hashing: static validation of one document before
  anything runs. What it guarantees (at least one case, unique names, bounds) is
  assumed where it is used, for instance by `IsCase` and `Cases[r] > 0`.
- Reports as HTML and JSON: formatting of a finished report.
- Middleware, metrics, body limit, settings, logging, database migrations: no
  state that another modelled part reads.
- The single-call commands of the CLI: one request or one local evaluation, and
  its output.
- Cancel requests under the supervisor: `WorkerSupervisor` has them,
  the instances of its runs do not; they are checked in the two other runs of the fleet.

## 7. Plan

1. Done: run store, worker fleet, ledger and refinement, submission, baselines,
   CI commands, evaluation and gate, with the theorems above.
2. Done: providers, baseline comparison, supervisor and poison run, evaluators,
   rate limiter, Slack delivery.
3. Done: theorems for `Evaluation`, `BaselineComparison`, `RateLimiter` and
   `SlackNotification`, so that every safety property of the runs is proved.
4. Next: the interface between the modules as theorems (what an evaluation reports is
   what the fleet assumes its workers to report), the safety of the fleet under the supervisor, and
   what a refused or lost submission may leave behind.
